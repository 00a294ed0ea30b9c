--------------------------- MODULE IdentityRepair ---------------------------
(***************************************************************************)
(* kb repair identity (src/identity-repair.js).  A vault that was indexed  *)
(* anew gave its notes new document ids, and telemetry rows and            *)
(* supersessions lost, or kept, the old ones.  Given a backup, a dry run   *)
(* maps old ids to new ones by vault path or by content hash and saves a   *)
(* report of what it would change.  An apply makes those changes in        *)
(* batches, each a transaction, and notes every change in a ledger; an     *)
(* undo takes back what is in the ledger.  Either may stop between any two *)
(* batches and be run again, several may run at once, and the daemon goes  *)
(* on indexing, superseding and purging meanwhile.                         *)
(*                                                                         *)
(* A link is a nullable reference to a document: doc_id or nearest_id of a *)
(* telemetry row, or a document's superseded_by with its time and reason.  *)
(* The counts of a report, which make an apply refuse more often, and the  *)
(* checks of files, schemas and owners are left out.                       *)
(***************************************************************************)
EXTENDS FiniteSets, Integers

CONSTANTS
  Ids,         \* document ids, never given twice (AUTOINCREMENT)
  Rows,        \* columns of telemetry rows that refer to a document
  Null,
  Paths, Hashes,
  Backups,     \* backups there may be
  Lives,       \* what the live database may hold at first
  Position,    \* the order of a report's actions
  Batch,       \* --batch-size
  Commands,    \* processes that apply or undo
  MaxPlans,    \* bound: reports
  MaxChanges,  \* bound: what others do to the live database
  MaxCrashes   \* bound: commands that die

Targets == {<<"row", r>> : r \in Rows} \cup {<<"document", d>> : d \in Ids}

(* A document and the vault paths it has; the hash is of its file.         *)
Document == [paths : SUBSET Paths, hash : Hashes]

(* When a document was superseded: as the backup says, as the live one did *)
(* at first, or later.                                                     *)
Link == [to : Ids \cup {Null}, at : {"none", "backup", "live", "later"}]
NoLink == [to |-> Null, at |-> "none"]

(* strange: rows whose lineage differs from the live row of that id.       *)
Database == [doc : [Ids -> Document \cup {Null}], link : [Targets -> Link], strange : SUBSET Rows]

ASSUME ConstantsAssumption ==
  /\ Null \notin Ids \cup Document
  /\ Backups \subseteq Database
  /\ \A b \in Backups : \A t \in Targets : b.link[t].at # "later"
  /\ Lives \subseteq Database
  /\ Position \in [Targets -> Nat]
  /\ Batch \in Nat \ {0}
  /\ MaxPlans \in Nat
  /\ MaxChanges \in Nat
  /\ MaxCrashes \in Nat

VARIABLES
  backup,   \* the backup, which nobody can write
  live,     \* the live database
  plans,    \* the reports saved
  stale,    \* reports since which the main file of the database has changed
  run,      \* identity_repair_runs: their status
  ledger,   \* identity_repair_ledger: what was applied, what undone
  cmd,      \* what each command is doing
  touched,  \* history: links others have changed since a repair did
  gone,     \* ids that were purged
  changes,  \* what others have done so far, up to MaxChanges
  crashes   \* commands that died so far, up to MaxCrashes

vars == <<backup, live, plans, stale, run, ledger, cmd, touched, gone, changes, crashes>>

Reports == 1..MaxPlans
Idle == [at |-> "idle", report |-> 0, todo |-> {}, seen |-> {}]

Init ==
  /\ backup \in Backups
  /\ live \in Lives
  /\ plans = [p \in Reports |-> Null]
  /\ stale = {}
  /\ run = [p \in Reports |-> "none"]
  /\ ledger = [p \in Reports |-> [applied |-> {}, undone |-> {}]]
  /\ cmd = [c \in Commands |-> Idle]
  /\ touched = {}
  /\ gone = {}
  /\ changes = 0
  /\ crashes = 0

-----------------------------------------------------------------------------
(* Which document is which: loadDocuments and buildIdentityMap.            *)

(* Only a document of exactly one path has an identity.                    *)
Tracked(db) == {d \in Ids : db.doc[d] # Null /\ Cardinality(db.doc[d].paths) = 1}

OfPath(old, db) == {d \in Tracked(db) : db.doc[d].paths = backup.doc[old].paths}
OfHash(db, h) == {d \in Tracked(db) : db.doc[d].hash = h}

(* The hash says something if it is the only one of its kind in either.    *)
ByHash(old, db) ==
  LET h == backup.doc[old].hash
  IN IF Cardinality(OfHash(backup, h)) = 1 /\ Cardinality(OfHash(db, h)) = 1
     THEN OfHash(db, h) ELSE {}

Candidates(old, db) == IF OfPath(old, db) # {} THEN OfPath(old, db) ELSE ByHash(old, db)

(* Path and hash disagree, or two old documents claim the same new one.    *)
Collides(old, db) ==
  \/ Cardinality(OfPath(old, db) \cup ByHash(old, db)) > 1
  \/ \E o \in Tracked(backup) \ {old} : Candidates(o, db) \cap Candidates(old, db) # {}

Known(db) == {old \in Tracked(backup) : Candidates(old, db) # {} /\ ~Collides(old, db)}
Identity(db) == [old \in Known(db) |-> CHOOSE d \in Candidates(old, db) : TRUE]

Evidence(old, db) ==
  [old |-> old, new |-> Identity(db)[old], how |-> IF OfPath(old, db) # {} THEN "path" ELSE "hash"]

-----------------------------------------------------------------------------
(* The dry run: buildPlan.                                                 *)

(* A row whose link is empty now and was not in the backup.                *)
Lost(db) ==
  {r \in Rows : db.link[<<"row", r>>].to = Null /\ backup.link[<<"row", r>>].to # Null}

(* foreignKeyActions *)
RowActions(db) ==
  {[target |-> <<"row", r>>, before |-> NoLink,
    after |-> [to |-> Identity(db)[backup.link[<<"row", r>>].to], at |-> "none"],
    evidence |-> {Evidence(backup.link[<<"row", r>>].to, db)}] :
     r \in {r \in Lost(db) \ backup.strange : backup.link[<<"row", r>>].to \in Known(db)}}

(* A supersession is repaired if the document has none, or one with the    *)
(* old number of the replacement.                                          *)
Repairable(old, db) ==
  LET was == backup.link[<<"document", old>>]
      now == db.link[<<"document", Identity(db)[old]>>]
  IN now = NoLink \/ (now.to = was.to /\ now.to # Identity(db)[was.to])

(* supersessionActions *)
SupersessionActions(db) ==
  {[target |-> <<"document", Identity(db)[old]>>,
    before |-> db.link[<<"document", Identity(db)[old]>>],
    after |-> [backup.link[<<"document", old>>] EXCEPT !.to = Identity(db)[@]],
    evidence |-> {Evidence(old, db), Evidence(backup.link[<<"document", old>>].to, db)}] :
     old \in {old \in Known(db) : /\ backup.link[<<"document", old>>].to \in Known(db)
                                  /\ Repairable(old, db)}}

Plan(db) ==
  [actions |-> RowActions(db) \cup SupersessionActions(db),
   identity |-> {Evidence(old, db) : old \in Known(db)},
   collisions |-> \/ \E old \in Tracked(backup) : Collides(old, db)
                  \/ Lost(db) \cap backup.strange # {}]

(* planIdentityRepair: the same plan of the same file is the same run.     *)
Plans(p) ==
  /\ plans[p] = Null
  /\ \A q \in Reports \ stale : plans[q] # Plan(live)
  /\ plans' = [plans EXCEPT ![p] = Plan(live)]
  /\ UNCHANGED <<backup, live, stale, run, ledger, cmd, touched, gone, changes, crashes>>

-----------------------------------------------------------------------------
(* Apply.                                                                  *)

Actions(p) == plans[p].actions
Refuses(c) == cmd' = [cmd EXCEPT ![c] = Idle]

(* applyIdentityRepair up to its first batch.  A run that has begun goes on*)
(* where it is; a new one must find everything as the dry run did: the     *)
(* main file, which does not have what is still in the write-ahead log,    *)
(* and the plan.                                                           *)
BeginsApply(c, p) ==
  /\ cmd[c] = Idle
  /\ plans[p] # Null
  /\ ~plans[p].collisions
  /\ \/ /\ run[p] = "none"
        /\ p \notin stale
        /\ plans[p] = Plan(live)
        /\ cmd' = [cmd EXCEPT ![c] = [Idle EXCEPT !.at = "record", !.report = p]]
     \/ /\ run[p] = "applying"
        /\ plans[p].identity = Plan(live).identity
        /\ cmd' = [cmd EXCEPT ![c] = [at |-> "apply", report |-> p, todo |-> Actions(p), seen |-> {}]]
  /\ UNCHANGED <<backup, live, plans, stale, run, ledger, touched, gone, changes, crashes>>

(* The run is recorded; its key refuses a second one.                      *)
RecordsRun(c) ==
  LET p == cmd[c].report
  IN /\ cmd[c].at = "record"
     /\ \/ /\ run[p] = "none"
           /\ run' = [run EXCEPT ![p] = "applying"]
           /\ cmd' = [cmd EXCEPT ![c] = [at |-> "apply", report |-> p, todo |-> Actions(p), seen |-> {}]]
        \/ /\ run[p] # "none"
           /\ Refuses(c)
           /\ UNCHANGED run
     /\ UNCHANGED <<backup, live, plans, stale, ledger, touched, gone, changes, crashes>>

Ahead(todo, a) == {b \in todo : Position[b.target] < Position[a.target]}
NextBatch(todo) == {a \in todo : Cardinality(Ahead(todo, a)) < Batch}

HashCount(db, h) == Cardinality({d \in Ids : db.doc[d] # Null /\ db.doc[d].paths # {} /\ db.doc[d].hash = h})

(* An item of evidence still holds.                                        *)
Holds(e) ==
  /\ e.old \in Tracked(backup)
  /\ e.new \in Tracked(live)
  /\ \/ /\ e.how = "path"
        /\ backup.doc[e.old].paths = live.doc[e.new].paths
     \/ /\ e.how = "hash"
        /\ backup.doc[e.old].hash = live.doc[e.new].hash
        /\ HashCount(backup, backup.doc[e.old].hash) = 1
        /\ HashCount(live, backup.doc[e.old].hash) = 1

(* Mutant: the evidence is that of the dry run.                            *)
ValidAsPlanned(batch) == TRUE

(* validateBatchEvidence *)
Valid(batch) == \A a \in batch : \A e \in a.evidence : Holds(e)

Exists(t) == t[1] = "row" \/ live.doc[t[2]] # Null

(* What the ledger has was not touched since; the rest is as planned.      *)
AsExpected(p, a) ==
  /\ Exists(a.target)
  /\ live.link[a.target] = IF a.target \in ledger[p].applied THEN a.after ELSE a.before

(* Links that a repair writes, and their new values.                       *)
Writes(links) ==
  /\ live' = [live EXCEPT !.link = [t \in Targets |-> IF t \in DOMAIN links THEN links[t] ELSE @[t]]]
  /\ touched' = touched \ DOMAIN links

(* Mutant: the status is that of the start.                                *)
AppliesRegardless(c) ==
  LET p == cmd[c].report
      batch == NextBatch(cmd[c].todo)
      new == {a \in batch : a.target \notin ledger[p].applied}
  IN /\ cmd[c].at = "apply"
     /\ batch # {}
     /\ Valid(batch)
     /\ \A a \in batch : AsExpected(p, a)
     /\ Writes([t \in {a.target : a \in new} |-> (CHOOSE a \in new : a.target = t).after])
     /\ ledger' = [ledger EXCEPT ![p].applied = @ \cup {a.target : a \in new}]
     /\ cmd' = [cmd EXCEPT ![c].todo = @ \ batch]
     /\ UNCHANGED <<backup, plans, stale, run, gone, changes, crashes>>

(* A batch, in one transaction.                                            *)
Applies(c) ==
  LET p == cmd[c].report
      batch == NextBatch(cmd[c].todo)
      new == {a \in batch : a.target \notin ledger[p].applied}
  IN /\ cmd[c].at = "apply"
     /\ batch # {}
     /\ run[p] = "applying"
     /\ Valid(batch)
     /\ \A a \in batch : AsExpected(p, a)
     /\ Writes([t \in {a.target : a \in new} |-> (CHOOSE a \in new : a.target = t).after])
     /\ ledger' = [ledger EXCEPT ![p].applied = @ \cup {a.target : a \in new}]
     /\ cmd' = [cmd EXCEPT ![c].todo = @ \ batch]
     /\ UNCHANGED <<backup, plans, stale, run, gone, changes, crashes>>

(* The transaction is rolled back, and the command ends.                   *)
ApplyRefused(c) ==
  LET p == cmd[c].report
      batch == NextBatch(cmd[c].todo)
  IN /\ cmd[c].at = "apply"
     /\ \/ run[p] # "applying"
        \/ ~Valid(batch)
        \/ \E a \in batch : ~AsExpected(p, a)
     /\ Refuses(c)
     /\ UNCHANGED <<backup, live, plans, stale, run, ledger, touched, gone, changes, crashes>>

CompletesApply(c) ==
  /\ cmd[c].at = "apply"
  /\ cmd[c].todo = {}
  /\ run[cmd[c].report] = "applying"
  /\ run' = [run EXCEPT ![cmd[c].report] = "applied"]
  /\ Refuses(c)
  /\ UNCHANGED <<backup, live, plans, stale, ledger, touched, gone, changes, crashes>>

-----------------------------------------------------------------------------
(* Undo.                                                                   *)

(* undoIdentityRepair takes the run, whatever it is at.                    *)
BeginsUndo(c, p) ==
  /\ cmd[c] = Idle
  /\ run[p] \in {"applying", "applied", "undoing"}
  /\ run' = [run EXCEPT ![p] = "undoing"]
  /\ cmd' = [cmd EXCEPT ![c] = [Idle EXCEPT !.at = "read", !.report = p]]
  /\ UNCHANGED <<backup, live, plans, stale, ledger, touched, gone, changes, crashes>>

(* What is in the ledger, and what of it is undone, is read once.          *)
ReadsLedger(c) ==
  LET p == cmd[c].report
  IN /\ cmd[c].at = "read"
     /\ cmd' = [cmd EXCEPT ![c].at = "undo", ![c].seen = ledger[p].undone,
                  ![c].todo = {a \in Actions(p) : a.target \in ledger[p].applied}]
     /\ UNCHANGED <<backup, live, plans, stale, run, ledger, touched, gone, changes, crashes>>

LastBatch(todo) == {a \in todo : Cardinality({b \in todo : a \in Ahead(todo, b)}) < Batch}

(* Mutant: the value is not compared with what the repair wrote.           *)
UndoableAnyway(c, a) == Exists(a.target)

Undoable(c, a) ==
  /\ Exists(a.target)
  /\ live.link[a.target] = IF a.target \in cmd[c].seen THEN a.before ELSE a.after

(* A batch, the last of the ledger first, in one transaction.              *)
Undoes(c) ==
  LET p == cmd[c].report
      batch == LastBatch(cmd[c].todo)
      new == {a \in batch : a.target \notin cmd[c].seen}
  IN /\ cmd[c].at = "undo"
     /\ batch # {}
     /\ run[p] = "undoing"
     /\ \A a \in batch : Undoable(c, a)
     /\ Writes([t \in {a.target : a \in new} |-> (CHOOSE a \in new : a.target = t).before])
     /\ ledger' = [ledger EXCEPT ![p].undone = @ \cup {a.target : a \in new}]
     /\ cmd' = [cmd EXCEPT ![c].todo = @ \ batch]
     /\ UNCHANGED <<backup, plans, stale, run, gone, changes, crashes>>

UndoRefused(c) ==
  /\ cmd[c].at = "undo"
  /\ \/ run[cmd[c].report] # "undoing"
     \/ \E a \in LastBatch(cmd[c].todo) : ~Undoable(c, a)
  /\ Refuses(c)
  /\ UNCHANGED <<backup, live, plans, stale, run, ledger, touched, gone, changes, crashes>>

CompletesUndo(c) ==
  /\ cmd[c].at = "undo"
  /\ cmd[c].todo = {}
  /\ run[cmd[c].report] = "undoing"
  /\ run' = [run EXCEPT ![cmd[c].report] = "undone"]
  /\ Refuses(c)
  /\ UNCHANGED <<backup, live, plans, stale, ledger, touched, gone, changes, crashes>>

(* A command dies between two statements.                                  *)
Interrupted(c) ==
  /\ cmd[c] # Idle
  /\ crashes < MaxCrashes
  /\ crashes' = crashes + 1
  /\ Refuses(c)
  /\ UNCHANGED <<backup, live, plans, stale, run, ledger, touched, gone, changes>>

-----------------------------------------------------------------------------
(* The others that use the live database.                                  *)

Changes ==
  /\ changes < MaxChanges
  /\ changes' = changes + 1
  /\ UNCHANGED <<backup, plans, stale, run, ledger, cmd, crashes>>

(* A note is indexed for the first time, or was moved or edited.           *)
Indexes(d, p, h) ==
  /\ Changes
  /\ d \notin gone
  /\ \A e \in Ids \ {d} : live.doc[e] # Null => p \notin live.doc[e].paths
  /\ live' = [live EXCEPT !.doc[d] = [paths |-> {p}, hash |-> h]]
  /\ UNCHANGED <<touched, gone>>

(* supersedeDocument *)
Supersedes(d, by) ==
  /\ Changes
  /\ live.doc[d] # Null
  /\ live.doc[by] # Null
  /\ live' = [live EXCEPT !.link[<<"document", d>>] = [to |-> by, at |-> "later"]]
  /\ touched' = touched \cup {<<"document", d>>}
  /\ UNCHANGED gone

(* A document is deleted, and the rows that referred to it do no longer:   *)
(* ON DELETE SET NULL.  superseded_by is no foreign key.                   *)
Purges(d) ==
  LET T == {<<"document", d>>} \cup {t \in Targets : t[1] = "row" /\ live.link[t].to = d}
  IN /\ Changes
     /\ live.doc[d] # Null
     /\ live' = [live EXCEPT !.doc[d] = Null,
                   !.link = [t \in Targets |-> IF t \in T THEN NoLink ELSE @[t]]]
     /\ touched' = touched \cup T
     /\ gone' = gone \cup {d}

(* SQLite moves what was written, be it telemetry alone, from its log into  *)
(* the main file.                                                          *)
Checkpoints ==
  /\ stale # {p \in Reports : plans[p] # Null}
  /\ stale' = {p \in Reports : plans[p] # Null}
  /\ UNCHANGED <<backup, live, plans, run, ledger, cmd, touched, gone, changes, crashes>>

Next ==
  \/ \E p \in Reports : Plans(p)
  \/ \E c \in Commands, p \in Reports : BeginsApply(c, p) \/ BeginsUndo(c, p)
  \/ \E c \in Commands :
       \/ RecordsRun(c) \/ Applies(c) \/ ApplyRefused(c) \/ CompletesApply(c)
       \/ ReadsLedger(c) \/ Undoes(c) \/ UndoRefused(c) \/ CompletesUndo(c)
       \/ Interrupted(c)
  \/ \E d \in Ids, p \in Paths, h \in Hashes : Indexes(d, p, h)
  \/ \E d, by \in Ids : Supersedes(d, by)
  \/ \E d \in Ids : Purges(d)
  \/ Checkpoints

Spec == Init /\ [][Next]_vars

-----------------------------------------------------------------------------
(* Properties.                                                             *)

TypeOK ==
  /\ backup \in Database
  /\ live \in Database
  /\ stale \subseteq Reports
  /\ run \in [Reports -> {"none", "applying", "applied", "undoing", "undone"}]
  /\ \A p \in Reports : ledger[p].undone \subseteq ledger[p].applied
  /\ \A c \in Commands : cmd[c] # Idle => plans[cmd[c].report] # Null
  /\ touched \subseteq Targets
  /\ gone \subseteq {d \in Ids : live.doc[d] = Null}

(* A run that is called applied has made every change of its report, and   *)
(* one that is called undone has none left, whatever applies and undoes    *)
(* overlapped or died: "concurrent undo prevents later apply batches from  *)
(* creating a mixed state".                                                *)
NoMixedState ==
  \A p \in Reports :
    /\ run[p] = "none" => ledger[p].applied = {}
    /\ run[p] \in {"none", "applying", "applied"} => ledger[p].undone = {}
    /\ run[p] = "applied" => ledger[p].applied = {a.target : a \in Actions(p)}
    /\ run[p] = "undone" => ledger[p].undone = ledger[p].applied

(* An undo takes back what a repair was the last to write.  Where someone  *)
(* else has written since, that stays: a link that was cut with a purge, or*)
(* a note that was superseded anew.                                        *)
UndoSparesOthers ==
  [][\A p \in Reports : touched \cap (ledger'[p].undone \ ledger[p].undone) = {}]_vars

(* They are the same note as far as the vault can tell.                    *)
SameNote(old, new) ==
  /\ old \in Tracked(backup)
  /\ new \in Tracked(live)
  /\ \/ backup.doc[old].paths = live.doc[new].paths
     \/ /\ backup.doc[old].hash = live.doc[new].hash
        /\ HashCount(backup, backup.doc[old].hash) = 1
        /\ HashCount(live, backup.doc[old].hash) = 1

(* No batch links a row to a document that is not, at that moment, the note*)
(* the row was about, nor restores a supersession between other notes,     *)
(* however the vault has changed since the dry run.                        *)
RepairsAreProven ==
  [][\A p \in Reports : \A t \in ledger'[p].applied \ ledger[p].applied :
       IF t[1] = "row" THEN SameNote(backup.link[t].to, live'.link[t].to)
       ELSE \E old \in Ids : /\ SameNote(old, t[2])
                             /\ SameNote(backup.link[<<"document", old>>].to, live'.link[t].to)]_vars
=============================================================================
