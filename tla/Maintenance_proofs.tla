------------------------- MODULE Maintenance_proofs -------------------------
(***************************************************************************)
(* Theorems of the commands that look after the notes that are there:      *)
(* IdentityRepair, for any backup and live database, any number of reports *)
(* and of commands that apply and undo them, any batch size, and any       *)
(* changes and crashes in between; LegacyMigration, for any sources in any *)
(* order, any vault and any edits of either; FollowThrough, for any        *)
(* documents and sessions, any window, any length of a second; Promotions, *)
(* for any notes and runs; Outcomes, for any notes, versions and           *)
(* transcripts; and all of them for any bounds.                            *)
(***************************************************************************)
EXTENDS IdentityRepair, LegacyMigration, FollowThrough, Promotions, Outcomes,
        FunctionTheorems, FiniteSetTheorems, WellFoundedInduction, TLAPS

-----------------------------------------------------------------------------
(* An item of evidence, and an action of a report.                         *)
Item == [old : Ids, new : Ids, how : {"path", "hash"}]
Action == [target : Targets, before : Link, after : Link, evidence : SUBSET Item]

Witnesses(a, old, new) == \E e \in a.evidence : e.old = old /\ e.new = new

(* The evidence of an action is about both ends of the link it restores.   *)
Evident(a) ==
  \/ \E r \in Rows : /\ a.target = <<"row", r>>
                     /\ Witnesses(a, backup.link[a.target].to, a.after.to)
  \/ \E old, d \in Ids : /\ a.target = <<"document", d>>
                         /\ Witnesses(a, old, d)
                         /\ Witnesses(a, backup.link[<<"document", old>>].to, a.after.to)

(* What a repair writes is a link, and not one of later than the backup.   *)
Sound(a) == /\ a \in Action
            /\ a.after.to \in Ids
            /\ a.after.at # "later"
            /\ Evident(a)

-----------------------------------------------------------------------------
(* The plan of a dry run.                                                  *)

LEMMA KnownIds ==
  ASSUME NEW db, NEW old \in Known(db)
  PROVE  old \in Ids /\ Identity(db)[old] \in Ids
  <1>1. old \in Ids /\ Candidates(old, db) # {} /\ Candidates(old, db) \subseteq Ids
    BY DEF Known, Tracked, Candidates, OfPath, ByHash, OfHash
  <1>2. (CHOOSE d \in Candidates(old, db) : TRUE) \in Ids
    BY <1>1
  <1> QED
    BY <1>1, <1>2 DEF Identity

LEMMA EvidenceItem ==
  ASSUME NEW db, NEW old \in Known(db)
  PROVE  /\ Evidence(old, db) \in Item
         /\ Evidence(old, db).old = old
         /\ Evidence(old, db).new = Identity(db)[old]
  BY KnownIds DEF Evidence, Item

LEMMA RowActionsSound ==
  ASSUME backup \in Database, NEW db, NEW a \in RowActions(db)
  PROVE  Sound(a)
  <1> PICK r \in {r \in Lost(db) \ backup.strange : backup.link[<<"row", r>>].to \in Known(db)} :
        a = [target |-> <<"row", r>>, before |-> NoLink,
             after |-> [to |-> Identity(db)[backup.link[<<"row", r>>].to], at |-> "none"],
             evidence |-> {Evidence(backup.link[<<"row", r>>].to, db)}]
    BY DEF RowActions
  <1> DEFINE old == backup.link[<<"row", r>>].to
  <1>1. r \in Rows /\ old \in Known(db)
    BY DEF Lost
  <1>2. Identity(db)[old] \in Ids
    BY <1>1, KnownIds
  <1>3. /\ Evidence(old, db) \in Item
        /\ Evidence(old, db).old = old /\ Evidence(old, db).new = Identity(db)[old]
    BY <1>1, EvidenceItem
  <1>4. <<"row", r>> \in Targets
    BY <1>1 DEF Targets
  <1> HIDE DEF old
  <1>5. a = [target |-> <<"row", r>>, before |-> NoLink,
             after |-> [to |-> Identity(db)[old], at |-> "none"],
             evidence |-> {Evidence(old, db)}]
    BY DEF old
  <1>6. a \in Action /\ a.after.to \in Ids /\ a.after.at # "later"
    BY <1>2, <1>3, <1>4, <1>5 DEF Action, Link, NoLink
  <1>7. a.target = <<"row", r>> /\ Witnesses(a, old, a.after.to)
    BY <1>3, <1>5 DEF Witnesses
  <1>8. Evident(a)
    BY <1>1, <1>7 DEF Evident, old
  <1> QED
    BY <1>6, <1>8 DEF Sound

LEMMA SupersessionActionsSound ==
  ASSUME backup \in Backups, NEW db \in Database, NEW a \in SupersessionActions(db)
  PROVE  Sound(a)
  <1> PICK old \in {old \in Known(db) : /\ backup.link[<<"document", old>>].to \in Known(db)
                                        /\ Repairable(old, db)} :
        a = [target |-> <<"document", Identity(db)[old]>>,
             before |-> db.link[<<"document", Identity(db)[old]>>],
             after |-> [backup.link[<<"document", old>>] EXCEPT !.to = Identity(db)[@]],
             evidence |-> {Evidence(old, db), Evidence(backup.link[<<"document", old>>].to, db)}]
    BY DEF SupersessionActions
  <1> DEFINE link == backup.link[<<"document", old>>]
             d == Identity(db)[old]
             by == Identity(db)[link.to]
             here == Evidence(old, db)
             there == Evidence(link.to, db)
  <1>1. old \in Known(db) /\ link.to \in Known(db)
    OBVIOUS
  <1>2. old \in Ids /\ d \in Ids /\ by \in Ids
    BY <1>1, KnownIds
  <1>3. /\ here \in Item /\ here.old = old /\ here.new = d
        /\ there \in Item /\ there.old = link.to /\ there.new = by
    BY <1>1, EvidenceItem
  <1>4. <<"document", old>> \in Targets /\ <<"document", d>> \in Targets
    BY <1>2 DEF Targets
  <1>5. link \in Link /\ link.at # "later"
    BY <1>4, ConstantsAssumption DEF Database
  <1>6. db.link[<<"document", d>>] \in Link
    BY <1>4 DEF Database
  <1>7. a = [target |-> <<"document", d>>, before |-> db.link[<<"document", d>>],
             after |-> [link EXCEPT !.to = by], evidence |-> {here, there}]
    OBVIOUS
  <1> HIDE DEF link, d, by, here, there
  <1>8. [link EXCEPT !.to = by] \in Link /\ [link EXCEPT !.to = by].to = by
          /\ [link EXCEPT !.to = by].at = link.at
    BY <1>2, <1>5 DEF Link
  <1>9. a \in Action /\ a.after.to = by /\ a.after.at # "later"
    <2> DEFINE after == [link EXCEPT !.to = by]
               before == db.link[<<"document", d>>]
               target == <<"document", d>>
    <2>1. target \in Targets /\ before \in Link /\ after \in Link
      BY <1>4, <1>6, <1>8
    <2>2. after.to = by /\ after.at # "later"
      BY <1>5, <1>8
    <2>3. a = [target |-> target, before |-> before, after |-> after, evidence |-> {here, there}]
      BY <1>7
    <2> HIDE DEF after, before, target
    <2> QED
      BY <1>3, <2>1, <2>2, <2>3 DEF Action
  <1>10. a.target = <<"document", d>> /\ Witnesses(a, old, d) /\ Witnesses(a, link.to, a.after.to)
    BY <1>3, <1>7, <1>9 DEF Witnesses
  <1>11. Evident(a)
    BY <1>2, <1>10 DEF Evident, link
  <1> QED
    BY <1>2, <1>9, <1>11 DEF Sound

LEMMA PlanSound ==
  ASSUME backup \in Backups, live \in Database
  PROVE  \A a \in Plan(live).actions : Sound(a)
  <1>1. backup \in Database
    BY ConstantsAssumption
  <1> QED
    BY <1>1, RowActionsSound, SupersessionActionsSound DEF Plan

-----------------------------------------------------------------------------
(* Type correctness.                                                       *)
Statuses == {"none", "applying", "applied", "undoing", "undone"}
Command == [at : {"idle", "record", "apply", "read", "undo"}, report : 0..MaxPlans,
            todo : SUBSET Action, seen : SUBSET Targets]

(* A command that is busy has a report, and does only what that says.      *)
Busy(c) == /\ cmd[c].report \in Reports
           /\ plans[cmd[c].report] # Null
           /\ cmd[c].todo \subseteq Actions(cmd[c].report)

TypeInv ==
  /\ backup \in Backups
  /\ live \in Database
  /\ DOMAIN plans = Reports
  /\ \A p \in Reports : plans[p] # Null => \A a \in Actions(p) : Sound(a)
  /\ stale \subseteq Reports
  /\ run \in [Reports -> Statuses]
  /\ \A p \in Reports : run[p] # "none" => plans[p] # Null
  /\ ledger \in [Reports -> [applied : SUBSET Targets, undone : SUBSET Targets]]
  /\ cmd \in [Commands -> Command]
  /\ \A c \in Commands : cmd[c] = Idle \/ (cmd[c].at # "idle" /\ Busy(c))
  /\ touched \subseteq Targets
  /\ gone \subseteq {d \in Ids : live.doc[d] = Null}

LEMMA IdleCommand == Idle \in Command /\ Idle.at = "idle" /\ Idle.todo = {} /\ Idle.seen = {}
  BY ConstantsAssumption DEF Idle, Command

LEMMA ReportsStay ==
  ASSUME TypeInv, UNCHANGED <<backup, plans>>
  PROVE  \A p \in Reports : plans'[p] # Null => \A a \in Actions(p)' : Sound(a)'
  <1>1. \A a : Sound(a)' <=> Sound(a)
    BY DEF Sound, Evident, Witnesses
  <1> QED
    BY <1>1 DEF TypeInv, Actions

(* What others than a command do leaves the commands and their reports.    *)
LEMMA CommandsStay ==
  ASSUME TypeInv, UNCHANGED <<plans, cmd>>
  PROVE  \A c \in Commands : cmd'[c] = Idle \/ (cmd'[c].at # "idle" /\ Busy(c)')
  BY DEF TypeInv, Busy, Actions

(* A command that ends.                                                    *)
LEMMA RefusedIsIdle ==
  ASSUME TypeInv, NEW c \in Commands, Refuses(c), UNCHANGED plans
  PROVE  /\ cmd' \in [Commands -> Command]
         /\ \A d \in Commands : cmd'[d] = Idle \/ (cmd'[d].at # "idle" /\ Busy(d)')
  BY IdleCommand DEF TypeInv, Refuses, Busy, Actions

(* A command that goes on.                                                 *)
LEMMA GoesOn ==
  ASSUME TypeInv, NEW c \in Commands, NEW next \in Command, UNCHANGED plans,
         cmd' = [cmd EXCEPT ![c] = next],
         next.at # "idle", next.report \in Reports, plans[next.report] # Null,
         next.todo \subseteq Actions(next.report)
  PROVE  /\ cmd' \in [Commands -> Command]
         /\ \A d \in Commands : cmd'[d] = Idle \/ (cmd'[d].at # "idle" /\ Busy(d)')
  BY DEF TypeInv, Busy, Actions

LEMMA ActionsTyped ==
  ASSUME TypeInv, NEW p \in Reports, plans[p] # Null
  PROVE  Actions(p) \subseteq Action
  BY DEF TypeInv, Sound

LEMMA BatchesAreSome ==
  ASSUME NEW todo
  PROVE  NextBatch(todo) \subseteq todo /\ LastBatch(todo) \subseteq todo
  BY DEF NextBatch, LastBatch

(* What a repair writes, and nothing else.                                 *)
LEMMA WritesLinks ==
  ASSUME TypeInv, NEW links, \A t \in DOMAIN links : links[t] \in Link, Writes(links)
  PROVE  /\ live' \in Database
         /\ live'.doc = live.doc
         /\ \A t \in Targets : live'.link[t] = IF t \in DOMAIN links THEN links[t] ELSE live.link[t]
         /\ touched' = touched \ DOMAIN links
         /\ touched' \subseteq Targets
  BY DEF TypeInv, Database, Writes

(* Of the actions of a batch, the one that a target gets.                  *)
LEMMA Chosen ==
  ASSUME NEW S, NEW t \in {a.target : a \in S}
  PROVE  (CHOOSE a \in S : a.target = t) \in S /\ (CHOOSE a \in S : a.target = t).target = t
  OBVIOUS

-----------------------------------------------------------------------------
LEMMA TypeInit == Init => TypeInv
  BY ConstantsAssumption, IdleCommand DEF Init, TypeInv, Reports, Statuses

LEMMA TypePlans ==
  ASSUME TypeInv, NEW p \in Reports, Plans(p)
  PROVE  TypeInv'
  <1>1. \A a \in Plan(live).actions : Sound(a)
    BY PlanSound DEF TypeInv
  <1>2. plans' = [plans EXCEPT ![p] = Plan(live)] /\ plans[p] = Null
    BY DEF Plans
  <1>3. \A q \in Reports : plans'[q] = IF q = p THEN Plan(live) ELSE plans[q]
    BY <1>2 DEF TypeInv
  <1> HIDE DEF Plan
  <1>4. \A a : Sound(a)' <=> Sound(a)
    BY DEF Plans, Sound, Evident, Witnesses
  <1>5. \A q \in Reports : plans'[q] # Null => \A a \in plans'[q].actions : Sound(a)'
    BY <1>1, <1>3, <1>4 DEF TypeInv, Actions
  <1>6. \A c \in Commands : cmd[c] = Idle \/ (cmd[c].at # "idle" /\ Busy(c)')
    BY <1>2, <1>3 DEF TypeInv, Busy, Actions, Plans
  <1> QED
    BY <1>2, <1>5, <1>6 DEF TypeInv, Plans, Actions

LEMMA TypeBeginsApply ==
  ASSUME TypeInv, NEW c \in Commands, NEW p \in Reports, BeginsApply(c, p)
  PROVE  TypeInv'
  <1> DEFINE record == [Idle EXCEPT !.at = "record", !.report = p]
             apply == [at |-> "apply", report |-> p, todo |-> Actions(p), seen |-> {}]
  <1>1. plans[p] # Null /\ Actions(p) \subseteq Action
    BY ActionsTyped DEF BeginsApply
  <1>2. /\ record \in Command /\ record.at = "record" /\ record.report = p /\ record.todo = {}
        /\ apply \in Command
    <2>1. p \in 0..MaxPlans
      BY ConstantsAssumption DEF Reports
    <2>2. record \in Command /\ record.at = "record" /\ record.report = p /\ record.todo = {}
      BY <2>1, IdleCommand DEF Command
    <2> QED
      BY <1>1, <2>1, <2>2 DEF Command
  <1>3. cmd' = [cmd EXCEPT ![c] = record] \/ cmd' = [cmd EXCEPT ![c] = apply]
    BY DEF BeginsApply
  <1>4. UNCHANGED <<backup, live, plans, stale, run, ledger, touched, gone>>
    BY DEF BeginsApply
  <1> HIDE DEF record
  <1>5. /\ cmd' \in [Commands -> Command]
        /\ \A d \in Commands : cmd'[d] = Idle \/ (cmd'[d].at # "idle" /\ Busy(d)')
    <2>1. CASE cmd' = [cmd EXCEPT ![c] = record]
      BY <1>1, <1>2, <1>4, <2>1, GoesOn
    <2>2. CASE cmd' = [cmd EXCEPT ![c] = apply]
      BY <1>1, <1>2, <1>4, <2>2, GoesOn
    <2> QED
      BY <1>3, <2>1, <2>2
  <1>6. \A q \in Reports : plans'[q] # Null => \A a \in Actions(q)' : Sound(a)'
    BY <1>4, ReportsStay
  <1> QED
    BY <1>4, <1>5, <1>6 DEF TypeInv

LEMMA TypeRecordsRun ==
  ASSUME TypeInv, NEW c \in Commands, RecordsRun(c)
  PROVE  TypeInv'
  <1> DEFINE p == cmd[c].report
             apply == [at |-> "apply", report |-> p, todo |-> Actions(p), seen |-> {}]
  <1>1. cmd[c] \in Command /\ cmd[c] # Idle /\ p \in Reports /\ plans[p] # Null
    BY IdleCommand DEF TypeInv, RecordsRun, Busy
  <1>2. Actions(p) \subseteq Action /\ apply \in Command
    BY <1>1, ActionsTyped DEF Command
  <1>3. UNCHANGED <<backup, live, plans, stale, ledger, touched, gone>> /\ run' \in [Reports -> Statuses]
    BY <1>1 DEF RecordsRun, TypeInv, Statuses
  <1>4. /\ cmd' \in [Commands -> Command]
        /\ \A d \in Commands : cmd'[d] = Idle \/ (cmd'[d].at # "idle" /\ Busy(d)')
    <2>1. CASE cmd' = [cmd EXCEPT ![c] = apply]
      BY <1>1, <1>2, <1>3, <2>1, GoesOn
    <2>2. CASE Refuses(c)
      BY <1>3, <2>2, RefusedIsIdle
    <2> QED
      BY <2>1, <2>2 DEF RecordsRun
  <1>5. \A q \in Reports : plans'[q] # Null => \A a \in Actions(q)' : Sound(a)'
    BY <1>3, ReportsStay
  <1>6. \A q \in Reports : run'[q] # "none" => plans'[q] # Null
    BY <1>1 DEF RecordsRun, TypeInv
  <1> QED
    BY <1>3, <1>4, <1>5, <1>6 DEF TypeInv

(* A batch leaves the command with less to do.                             *)
LEMMA LessToDo ==
  ASSUME TypeInv, NEW c \in Commands, cmd[c].at # "idle", NEW batch,
         cmd' = [cmd EXCEPT ![c].todo = @ \ batch], UNCHANGED plans
  PROVE  /\ cmd' \in [Commands -> Command]
         /\ \A d \in Commands : cmd'[d] = Idle \/ (cmd'[d].at # "idle" /\ Busy(d)')
  <1> DEFINE next == [cmd[c] EXCEPT !.todo = @ \ batch]
  <1>1. cmd[c] \in Command /\ Busy(c)
    BY IdleCommand DEF TypeInv
  <1>2. next \in Command /\ next.at = cmd[c].at /\ next.report = cmd[c].report
          /\ next.todo = cmd[c].todo \ batch
    BY <1>1 DEF Command
  <1>3. cmd' = [cmd EXCEPT ![c] = next]
    OBVIOUS
  <1> HIDE DEF next
  <1> QED
    BY <1>1, <1>2, <1>3, GoesOn DEF Busy

LEMMA TypeApplies ==
  ASSUME TypeInv, NEW c \in Commands, Applies(c)
  PROVE  TypeInv'
  <1> DEFINE p == cmd[c].report
             batch == NextBatch(cmd[c].todo)
             new == {a \in batch : a.target \notin ledger[p].applied}
             links == [t \in {a.target : a \in new} |-> (CHOOSE a \in new : a.target = t).after]
  <1>1. p \in Reports /\ plans[p] # Null /\ cmd[c].todo \subseteq Actions(p) /\ cmd[c].at # "idle"
    BY IdleCommand DEF TypeInv, Applies, Busy
  <1>2. new \subseteq Action
    BY <1>1, BatchesAreSome, ActionsTyped
  <1>3. /\ Writes(links)
        /\ ledger' = [ledger EXCEPT ![p].applied = @ \cup {a.target : a \in new}]
        /\ cmd' = [cmd EXCEPT ![c].todo = @ \ batch]
        /\ UNCHANGED <<backup, plans, stale, run, gone>>
    BY DEF Applies
  <1> HIDE DEF batch, new
  <1>4. \A t \in DOMAIN links : links[t] \in Link
    BY <1>2, Chosen DEF Action
  <1> HIDE DEF links
  <1>5. live' \in Database /\ live'.doc = live.doc /\ touched' \subseteq Targets
    BY <1>3, <1>4, WritesLinks
  <1>6. {a.target : a \in new} \subseteq Targets
    BY <1>2 DEF Action
  <1>7. ledger' \in [Reports -> [applied : SUBSET Targets, undone : SUBSET Targets]]
    BY <1>1, <1>3, <1>6 DEF TypeInv
  <1>8. /\ cmd' \in [Commands -> Command]
        /\ \A d \in Commands : cmd'[d] = Idle \/ (cmd'[d].at # "idle" /\ Busy(d)')
    BY <1>1, <1>3, LessToDo
  <1>9. \A q \in Reports : plans'[q] # Null => \A a \in Actions(q)' : Sound(a)'
    BY <1>3, ReportsStay
  <1> QED
    BY <1>3, <1>5, <1>7, <1>8, <1>9 DEF TypeInv

LEMMA TypeUndoes ==
  ASSUME TypeInv, NEW c \in Commands, Undoes(c)
  PROVE  TypeInv'
  <1> DEFINE p == cmd[c].report
             batch == LastBatch(cmd[c].todo)
             new == {a \in batch : a.target \notin cmd[c].seen}
             links == [t \in {a.target : a \in new} |-> (CHOOSE a \in new : a.target = t).before]
  <1>1. p \in Reports /\ plans[p] # Null /\ cmd[c].todo \subseteq Actions(p) /\ cmd[c].at # "idle"
    BY IdleCommand DEF TypeInv, Undoes, Busy
  <1>2. new \subseteq Action
    BY <1>1, BatchesAreSome, ActionsTyped
  <1>3. /\ Writes(links)
        /\ ledger' = [ledger EXCEPT ![p].undone = @ \cup {a.target : a \in new}]
        /\ cmd' = [cmd EXCEPT ![c].todo = @ \ batch]
        /\ UNCHANGED <<backup, plans, stale, run, gone>>
    BY DEF Undoes
  <1> HIDE DEF batch, new
  <1>4. \A t \in DOMAIN links : links[t] \in Link
    BY <1>2, Chosen DEF Action
  <1> HIDE DEF links
  <1>5. live' \in Database /\ live'.doc = live.doc /\ touched' \subseteq Targets
    BY <1>3, <1>4, WritesLinks
  <1>6. {a.target : a \in new} \subseteq Targets
    BY <1>2 DEF Action
  <1>7. ledger' \in [Reports -> [applied : SUBSET Targets, undone : SUBSET Targets]]
    BY <1>1, <1>3, <1>6 DEF TypeInv
  <1>8. /\ cmd' \in [Commands -> Command]
        /\ \A d \in Commands : cmd'[d] = Idle \/ (cmd'[d].at # "idle" /\ Busy(d)')
    BY <1>1, <1>3, LessToDo
  <1>9. \A q \in Reports : plans'[q] # Null => \A a \in Actions(q)' : Sound(a)'
    BY <1>3, ReportsStay
  <1> QED
    BY <1>3, <1>5, <1>7, <1>8, <1>9 DEF TypeInv

LEMMA TypeBeginsUndo ==
  ASSUME TypeInv, NEW c \in Commands, NEW p \in Reports, BeginsUndo(c, p)
  PROVE  TypeInv'
  <1> DEFINE next == [Idle EXCEPT !.at = "read", !.report = p]
  <1>1. p \in 0..MaxPlans
    BY ConstantsAssumption DEF Reports
  <1>2. next \in Command /\ next.at = "read" /\ next.report = p /\ next.todo = {}
    BY <1>1, IdleCommand DEF Command
  <1>3. /\ UNCHANGED <<backup, live, plans, stale, ledger, touched, gone>>
        /\ run' \in [Reports -> Statuses]
        /\ \A q \in Reports : run'[q] # "none" => plans'[q] # Null
        /\ plans[p] # Null
        /\ cmd' = [cmd EXCEPT ![c] = next]
    BY DEF BeginsUndo, TypeInv, Statuses
  <1> HIDE DEF next
  <1>4. /\ cmd' \in [Commands -> Command]
        /\ \A d \in Commands : cmd'[d] = Idle \/ (cmd'[d].at # "idle" /\ Busy(d)')
    BY <1>2, <1>3, GoesOn
  <1>5. \A q \in Reports : plans'[q] # Null => \A a \in Actions(q)' : Sound(a)'
    BY <1>3, ReportsStay
  <1> QED
    BY <1>3, <1>4, <1>5 DEF TypeInv

LEMMA TypeReadsLedger ==
  ASSUME TypeInv, NEW c \in Commands, ReadsLedger(c)
  PROVE  TypeInv'
  <1> DEFINE p == cmd[c].report
             todo == {a \in Actions(p) : a.target \in ledger[p].applied}
             next == [cmd[c] EXCEPT !.at = "undo", !.seen = ledger[p].undone, !.todo = todo]
  <1>1. cmd[c] \in Command /\ p \in Reports /\ plans[p] # Null
    BY IdleCommand DEF TypeInv, ReadsLedger, Busy
  <1>2. todo \subseteq Action /\ ledger[p].undone \subseteq Targets
    BY <1>1, ActionsTyped DEF TypeInv
  <1>3. /\ UNCHANGED <<backup, live, plans, stale, run, ledger, touched, gone>>
        /\ cmd' = [cmd EXCEPT ![c] = next]
    BY DEF ReadsLedger
  <1>4. todo \subseteq Actions(p)
    OBVIOUS
  <1> HIDE DEF todo
  <1>5. next \in Command /\ next.at = "undo" /\ next.report = p /\ next.todo = todo
    BY <1>1, <1>2 DEF Command
  <1> HIDE DEF next
  <1>6. /\ cmd' \in [Commands -> Command]
        /\ \A d \in Commands : cmd'[d] = Idle \/ (cmd'[d].at # "idle" /\ Busy(d)')
    BY <1>1, <1>3, <1>4, <1>5, GoesOn
  <1>7. \A q \in Reports : plans'[q] # Null => \A a \in Actions(q)' : Sound(a)'
    BY <1>3, ReportsStay
  <1> QED
    BY <1>3, <1>6, <1>7 DEF TypeInv

(* A command ends: refused, done, or dead.                                 *)
LEMMA TypeEnds ==
  ASSUME TypeInv, NEW c \in Commands,
         \/ ApplyRefused(c) \/ CompletesApply(c)
         \/ UndoRefused(c) \/ CompletesUndo(c) \/ Interrupted(c)
  PROVE  TypeInv'
  <1>1. UNCHANGED <<backup, live, plans, stale, ledger, touched, gone>> /\ Refuses(c)
    BY DEF ApplyRefused, CompletesApply, UndoRefused, CompletesUndo, Interrupted
  <1>2. run' \in [Reports -> Statuses]
    BY DEF TypeInv, Statuses, ApplyRefused, CompletesApply, UndoRefused, CompletesUndo, Interrupted
  <1>5. \A q \in Reports : run'[q] # "none" => plans'[q] # Null
    BY <1>1 DEF TypeInv, ApplyRefused, CompletesApply, UndoRefused, CompletesUndo, Interrupted
  <1>3. /\ cmd' \in [Commands -> Command]
        /\ \A d \in Commands : cmd'[d] = Idle \/ (cmd'[d].at # "idle" /\ Busy(d)')
    BY <1>1, RefusedIsIdle
  <1>4. \A q \in Reports : plans'[q] # Null => \A a \in Actions(q)' : Sound(a)'
    BY <1>1, ReportsStay
  <1> QED
    BY <1>1, <1>2, <1>3, <1>4, <1>5 DEF TypeInv

(* The others change neither reports nor commands.                         *)
LEMMA TypeOthers ==
  ASSUME TypeInv, UNCHANGED <<backup, plans, run, ledger, cmd>>,
         live' \in Database, stale' \subseteq Reports, touched' \subseteq Targets,
         gone' \subseteq {d \in Ids : live'.doc[d] = Null}
  PROVE  TypeInv'
  <1>1. \A q \in Reports : plans'[q] # Null => \A a \in Actions(q)' : Sound(a)'
    BY ReportsStay
  <1>2. \A c \in Commands : cmd'[c] = Idle \/ (cmd'[c].at # "idle" /\ Busy(c)')
    BY CommandsStay
  <1> QED
    BY <1>1, <1>2 DEF TypeInv

LEMMA TypeIndexes ==
  ASSUME TypeInv, NEW d \in Ids, NEW p \in Paths, NEW h \in Hashes, Indexes(d, p, h)
  PROVE  TypeInv'
  <1> DEFINE note == [paths |-> {p}, hash |-> h]
  <1>1. note \in Document
    BY DEF Document
  <1>2. live' = [live EXCEPT !.doc[d] = note] /\ d \notin gone /\ UNCHANGED <<touched, gone>>
    BY DEF Indexes
  <1> HIDE DEF note
  <1>3. live' \in Database
    BY <1>1, <1>2 DEF TypeInv, Database
  <1>4. \A e \in Ids : e # d => live'.doc[e] = live.doc[e]
    BY <1>2 DEF TypeInv, Database
  <1>5. UNCHANGED <<backup, plans, stale, run, ledger, cmd>>
    BY DEF Indexes, Changes
  <1> QED
    BY <1>2, <1>3, <1>4, <1>5, TypeOthers DEF TypeInv

LEMMA TypeSupersedes ==
  ASSUME TypeInv, NEW d \in Ids, NEW by \in Ids, Supersedes(d, by)
  PROVE  TypeInv'
  <1> DEFINE link == [to |-> by, at |-> "later"]
             t == <<"document", d>>
  <1>1. link \in Link /\ t \in Targets
    BY DEF Link, Targets
  <1>2. live' = [live EXCEPT !.link[t] = link] /\ touched' = touched \cup {t} /\ gone' = gone
    BY DEF Supersedes
  <1> HIDE DEF link, t
  <1>3. live' \in Database /\ live'.doc = live.doc
    BY <1>1, <1>2 DEF TypeInv, Database
  <1>5. UNCHANGED <<backup, plans, stale, run, ledger, cmd>>
    BY DEF Supersedes, Changes
  <1> QED
    BY <1>1, <1>2, <1>3, <1>5, TypeOthers DEF TypeInv

(* What a purge leaves of the links.                                       *)
Cut(d) == {<<"document", d>>} \cup {t \in Targets : t[1] = "row" /\ live.link[t].to = d}

LEMMA PurgedLinks ==
  ASSUME TypeInv, NEW d \in Ids, Purges(d)
  PROVE  /\ live' \in Database
         /\ live'.doc = [live.doc EXCEPT ![d] = Null]
         /\ \A t \in Targets : live'.link[t] = IF t \in Cut(d) THEN NoLink ELSE live.link[t]
         /\ touched' = touched \cup Cut(d)
         /\ Cut(d) \subseteq Targets
  <1>1. Cut(d) \subseteq Targets
    BY DEF Cut, Targets
  <1>2. NoLink \in Link
    BY DEF NoLink, Link
  <1>3. /\ live' = [live EXCEPT !.doc[d] = Null,
                       !.link = [t \in Targets |-> IF t \in Cut(d) THEN NoLink ELSE @[t]]]
        /\ touched' = touched \cup Cut(d)
    BY DEF Purges, Cut
  <1> HIDE DEF Cut
  <1> QED
    BY <1>1, <1>2, <1>3 DEF TypeInv, Database

LEMMA TypePurges ==
  ASSUME TypeInv, NEW d \in Ids, Purges(d)
  PROVE  TypeInv'
  <1>1. UNCHANGED <<backup, plans, stale, run, ledger, cmd>> /\ gone' = gone \cup {d}
    BY DEF Purges, Changes
  <1>2. live' \in Database /\ live'.doc = [live.doc EXCEPT ![d] = Null] /\ touched' \subseteq Targets
    BY PurgedLinks DEF TypeInv
  <1>3. gone' \subseteq {e \in Ids : live'.doc[e] = Null}
    BY <1>1, <1>2 DEF TypeInv, Database
  <1> QED
    BY <1>1, <1>2, <1>3, TypeOthers DEF TypeInv

LEMMA TypeCheckpoints == TypeInv /\ Checkpoints => TypeInv'
  BY TypeOthers DEF TypeInv, Checkpoints

LEMMA TypeStep == TypeInv /\ [Next]_vars => TypeInv'
  <1> SUFFICES ASSUME TypeInv, [Next]_vars PROVE TypeInv'
    OBVIOUS
  <1>1. CASE UNCHANGED vars
    BY <1>1, TypeOthers DEF TypeInv, vars
  <1>2. CASE Next
    BY <1>2, TypePlans, TypeBeginsApply, TypeBeginsUndo, TypeRecordsRun, TypeApplies,
       TypeReadsLedger, TypeUndoes, TypeEnds, TypeIndexes, TypeSupersedes, TypePurges,
       TypeCheckpoints DEF Next
  <1> QED
    BY <1>1, <1>2

LEMMA TypesHold == Spec => []TypeInv
  BY TypeInit, TypeStep, PTL DEF Spec
-----------------------------------------------------------------------------
(* No mixed state.                                                         *)

Targeted(p) == {a.target : a \in Actions(p)}

(* What the ledger of a report has, and what its status says of it.        *)
Ledgered ==
  \A p \in Reports :
    /\ ledger[p].undone \subseteq ledger[p].applied
    /\ run[p] # "none" => ledger[p].applied \subseteq Targeted(p)

(* What is not left to an apply is applied; an undo has read all that is,  *)
(* for no batch is applied to a run once it is undone.                     *)
Applying(c) ==
  LET p == cmd[c].report
  IN cmd[c].at = "apply" =>
       /\ run[p] # "none"
       /\ \A a \in Actions(p) \ cmd[c].todo : a.target \in ledger[p].applied

Undoing(c) ==
  LET p == cmd[c].report
  IN /\ cmd[c].at \in {"read", "undo"} => run[p] \in {"undoing", "undone"}
     /\ cmd[c].at = "undo" =>
          /\ cmd[c].seen \subseteq ledger[p].undone
          /\ \A a \in cmd[c].todo : a.target \in ledger[p].applied
          /\ \A t \in ledger[p].applied \ ledger[p].undone : \E a \in cmd[c].todo : a.target = t

MixInv ==
  /\ NoMixedState
  /\ Ledgered
  /\ \A c \in Commands : Applying(c) /\ Undoing(c)

LEMMA MixInit == Init => MixInv
  BY DEF Init, MixInv, NoMixedState, Ledgered, Applying, Undoing, Idle, Reports

(* What leaves runs and ledgers alone.                                     *)
LEMMA MixOthers ==
  ASSUME TypeInv, MixInv, UNCHANGED <<plans, run, ledger, cmd>>
  PROVE  MixInv'
  BY DEF MixInv, NoMixedState, Ledgered, Targeted, Actions, Applying, Undoing

LEMMA MixPlans ==
  ASSUME TypeInv, MixInv, NEW p \in Reports, Plans(p)
  PROVE  MixInv'
  <1>1. plans[p] = Null /\ \A q \in Reports : plans[q] # Null => plans'[q] = plans[q]
    BY DEF Plans, TypeInv
  <1>2. UNCHANGED <<run, ledger, cmd>>
    BY DEF Plans
  <1>3. \A q \in Reports : run[q] # "none" => Actions(q)' = Actions(q)
    BY <1>1 DEF TypeInv, Actions
  <1>4. NoMixedState'
    BY <1>2, <1>3 DEF MixInv, NoMixedState
  <1>5. Ledgered'
    BY <1>2, <1>3 DEF MixInv, Ledgered, Targeted
  <1>6. \A c \in Commands : Applying(c)' /\ Undoing(c)'
    <2> SUFFICES ASSUME NEW c \in Commands PROVE Applying(c)' /\ Undoing(c)'
      OBVIOUS
    <2>1. cmd[c].at # "idle" => Actions(cmd[c].report)' = Actions(cmd[c].report)
      BY <1>1, <1>2, IdleCommand DEF TypeInv, Busy, Actions
    <2> QED
      BY <1>2, <2>1 DEF MixInv, Applying, Undoing
  <1> QED
    BY <1>4, <1>5, <1>6 DEF MixInv

LEMMA MixBeginsApply ==
  ASSUME TypeInv, MixInv, NEW c \in Commands, NEW p \in Reports, BeginsApply(c, p)
  PROVE  MixInv'
  <1>1. UNCHANGED <<plans, run, ledger>>
    BY DEF BeginsApply
  <1>2. NoMixedState' /\ Ledgered'
    BY <1>1 DEF MixInv, NoMixedState, Ledgered, Targeted, Actions
  <1>3. \A d \in Commands : d # c => cmd'[d] = cmd[d]
    BY DEF BeginsApply, TypeInv
  <1>4. \/ cmd'[c].at = "record"
        \/ /\ run[p] = "applying"
           /\ cmd'[c] = [at |-> "apply", report |-> p, todo |-> Actions(p), seen |-> {}]
    BY DEF BeginsApply, TypeInv, Idle
  <1>5. \A d \in Commands : Applying(d)' /\ Undoing(d)'
    BY <1>1, <1>3, <1>4 DEF MixInv, Applying, Undoing, Actions
  <1> QED
    BY <1>2, <1>5 DEF MixInv

LEMMA MixRecordsRun ==
  ASSUME TypeInv, MixInv, NEW c \in Commands, RecordsRun(c)
  PROVE  MixInv'
  <1> DEFINE p == cmd[c].report
  <1>1. UNCHANGED <<plans, ledger>> /\ p \in Reports
    BY IdleCommand DEF RecordsRun, TypeInv, Busy
  <1>2. \A d \in Commands : d # c => cmd'[d] = cmd[d]
    BY DEF RecordsRun, Refuses, TypeInv
  <1>3. CASE run[p] = "none"
    <2>1. /\ run'[p] = "applying" /\ \A q \in Reports : q # p => run'[q] = run[q]
          /\ cmd'[c] = [at |-> "apply", report |-> p, todo |-> Actions(p), seen |-> {}]
      BY <1>1, <1>3 DEF RecordsRun, TypeInv
    <2>2. NoMixedState' /\ Ledgered'
      BY <1>1, <1>3, <2>1 DEF MixInv, NoMixedState, Ledgered, Targeted, Actions
    <2>3. \A d \in Commands : Applying(d)' /\ Undoing(d)'
      <3> SUFFICES ASSUME NEW d \in Commands PROVE Applying(d)' /\ Undoing(d)'
        OBVIOUS
      <3>1. CASE d = c
        BY <1>1, <2>1, <3>1 DEF Applying, Undoing, Actions
      <3>2. CASE d # c /\ cmd[d].at # "idle"
        <4>1. cmd[d].report \in Reports
          BY <3>2, IdleCommand DEF TypeInv, Busy
        <4> QED
          BY <1>1, <1>2, <1>3, <2>1, <3>2, <4>1 DEF MixInv, Applying, Undoing, Actions
      <3>3. CASE d # c /\ cmd[d].at = "idle"
        BY <1>2, <3>3 DEF Applying, Undoing
      <3> QED
        BY <3>1, <3>2, <3>3
    <2> QED
      BY <2>2, <2>3 DEF MixInv
  <1>4. CASE run[p] # "none"
    <2>1. run' = run /\ cmd'[c] = Idle
      BY <1>4 DEF RecordsRun, Refuses, TypeInv
    <2>2. NoMixedState' /\ Ledgered'
      BY <1>1, <2>1 DEF MixInv, NoMixedState, Ledgered, Targeted, Actions
    <2>3. \A d \in Commands : Applying(d)' /\ Undoing(d)'
      BY <1>1, <1>2, <2>1, IdleCommand DEF MixInv, Applying, Undoing, Actions
    <2> QED
      BY <2>2, <2>3 DEF MixInv
  <1> QED
    BY <1>3, <1>4

(* A batch is added to the ledger of a run that is being applied.          *)
LEMMA MixApplies ==
  ASSUME TypeInv, MixInv, NEW c \in Commands, Applies(c)
  PROVE  MixInv'
  <1> DEFINE p == cmd[c].report
             batch == NextBatch(cmd[c].todo)
             new == {a \in batch : a.target \notin ledger[p].applied}
  <1>1. /\ p \in Reports /\ cmd[c].todo \subseteq Actions(p) /\ batch \subseteq cmd[c].todo
        /\ UNCHANGED <<plans, run>> /\ run[p] = "applying" /\ cmd[c].at = "apply"
    BY IdleCommand, BatchesAreSome DEF Applies, TypeInv, Busy
  <1>2. /\ ledger'[p].applied = ledger[p].applied \cup {a.target : a \in new}
        /\ ledger'[p].undone = ledger[p].undone
        /\ \A q \in Reports : q # p => ledger'[q] = ledger[q]
    BY <1>1 DEF Applies, TypeInv
  <1>3. /\ cmd'[c].at = "apply" /\ cmd'[c].report = p /\ cmd'[c].todo = cmd[c].todo \ batch
        /\ \A d \in Commands : d # c => cmd'[d] = cmd[d]
    BY <1>1 DEF Applies, TypeInv, Command
  <1> HIDE DEF batch
  <1>4. Ledgered'
    BY <1>1, <1>2 DEF MixInv, Ledgered, Targeted, Actions
  <1>5. NoMixedState'
    BY <1>1, <1>2 DEF MixInv, NoMixedState, Actions
  <1>6. \A d \in Commands : Applying(d)' /\ Undoing(d)'
    <2> SUFFICES ASSUME NEW d \in Commands PROVE Applying(d)' /\ Undoing(d)'
      OBVIOUS
    <2>1. CASE d = c
      BY <1>1, <1>2, <1>3, <2>1 DEF MixInv, Applying, Undoing, Actions
    <2>2. CASE d # c /\ cmd[d].at # "idle"
      <3>1. cmd[d].report \in Reports
        BY <2>2, IdleCommand DEF TypeInv, Busy
      <3>2. Applying(d)'
        BY <1>1, <1>2, <1>3, <2>2, <3>1 DEF MixInv, Applying, Actions
      <3>3. Undoing(d)'
        <4>1. CASE cmd[d].report = p
          BY <1>1, <1>3, <2>2, <4>1 DEF MixInv, Undoing
        <4>2. CASE cmd[d].report # p
          BY <1>1, <1>2, <1>3, <2>2, <3>1, <4>2 DEF MixInv, Undoing
        <4> QED
          BY <4>1, <4>2
      <3> QED
        BY <3>2, <3>3
    <2>3. CASE d # c /\ cmd[d].at = "idle"
      BY <1>3, <2>3 DEF Applying, Undoing
    <2> QED
      BY <2>1, <2>2, <2>3
  <1> QED
    BY <1>4, <1>5, <1>6 DEF MixInv

(* An undo takes the run from those that apply it.                         *)
LEMMA MixBeginsUndo ==
  ASSUME TypeInv, MixInv, NEW c \in Commands, NEW p \in Reports, BeginsUndo(c, p)
  PROVE  MixInv'
  <1>1. UNCHANGED <<plans, ledger>> /\ run[p] \in {"applying", "applied", "undoing"}
    BY DEF BeginsUndo
  <1>2. run'[p] = "undoing" /\ \A q \in Reports : q # p => run'[q] = run[q]
    BY DEF BeginsUndo, TypeInv
  <1>3. /\ cmd'[c].at = "read" /\ cmd'[c].report = p
        /\ \A d \in Commands : d # c => cmd'[d] = cmd[d]
    BY DEF BeginsUndo, TypeInv, Idle
  <1>4. NoMixedState' /\ Ledgered'
    BY <1>1, <1>2 DEF MixInv, NoMixedState, Ledgered, Targeted, Actions
  <1>5. \A d \in Commands : Applying(d)' /\ Undoing(d)'
    <2> SUFFICES ASSUME NEW d \in Commands PROVE Applying(d)' /\ Undoing(d)'
      OBVIOUS
    <2>1. CASE d = c
      BY <1>2, <1>3, <2>1 DEF Applying, Undoing
    <2>2. CASE d # c /\ cmd[d].at # "idle"
      <3>1. cmd[d].report \in Reports
        BY <2>2, IdleCommand DEF TypeInv, Busy
      <3> QED
        BY <1>1, <1>2, <1>3, <2>2, <3>1 DEF MixInv, Applying, Undoing, Actions
    <2>3. CASE d # c /\ cmd[d].at = "idle"
      BY <1>3, <2>3 DEF Applying, Undoing
    <2> QED
      BY <2>1, <2>2, <2>3
  <1> QED
    BY <1>4, <1>5 DEF MixInv

LEMMA MixReadsLedger ==
  ASSUME TypeInv, MixInv, NEW c \in Commands, ReadsLedger(c)
  PROVE  MixInv'
  <1> DEFINE p == cmd[c].report
  <1>1. p \in Reports /\ UNCHANGED <<plans, run, ledger>> /\ cmd[c].at = "read"
    BY IdleCommand DEF ReadsLedger, TypeInv, Busy
  <1>2. /\ cmd'[c].at = "undo" /\ cmd'[c].report = p /\ cmd'[c].seen = ledger[p].undone
        /\ cmd'[c].todo = {a \in Actions(p) : a.target \in ledger[p].applied}
        /\ \A d \in Commands : d # c => cmd'[d] = cmd[d]
    BY DEF ReadsLedger, TypeInv, Command
  <1>3. NoMixedState' /\ Ledgered'
    BY <1>1 DEF MixInv, NoMixedState, Ledgered, Targeted, Actions
  <1>4. Applying(c)' /\ Undoing(c)'
    BY <1>1, <1>2 DEF MixInv, Applying, Undoing, Ledgered, Targeted
  <1>5. \A d \in Commands : d # c => Applying(d)' /\ Undoing(d)'
    BY <1>1, <1>2 DEF MixInv, Applying, Undoing, Actions
  <1> QED
    BY <1>3, <1>4, <1>5 DEF MixInv

LEMMA MixUndoes ==
  ASSUME TypeInv, MixInv, NEW c \in Commands, Undoes(c)
  PROVE  MixInv'
  <1> DEFINE p == cmd[c].report
             batch == LastBatch(cmd[c].todo)
             new == {a \in batch : a.target \notin cmd[c].seen}
  <1>1. /\ p \in Reports /\ batch \subseteq cmd[c].todo
        /\ UNCHANGED <<plans, run>> /\ run[p] = "undoing" /\ cmd[c].at = "undo"
    BY IdleCommand, BatchesAreSome DEF Undoes, TypeInv, Busy
  <1>2. /\ ledger'[p].undone = ledger[p].undone \cup {a.target : a \in new}
        /\ \A q \in Reports : ledger'[q].applied = ledger[q].applied
        /\ \A q \in Reports : q # p => ledger'[q] = ledger[q]
    BY <1>1 DEF Undoes, TypeInv
  <1>3. /\ cmd'[c].at = "undo" /\ cmd'[c].report = p /\ cmd'[c].todo = cmd[c].todo \ batch
        /\ cmd'[c].seen = cmd[c].seen
        /\ \A d \in Commands : d # c => cmd'[d] = cmd[d]
    BY <1>1 DEF Undoes, TypeInv, Command
  <1>4. /\ cmd[c].seen \subseteq ledger[p].undone
        /\ \A a \in cmd[c].todo : a.target \in ledger[p].applied
        /\ \A t \in ledger[p].applied \ ledger[p].undone : \E a \in cmd[c].todo : a.target = t
    BY <1>1 DEF MixInv, Undoing
  <1> HIDE DEF batch
  <1>5. Ledgered'
    BY <1>1, <1>2, <1>4 DEF MixInv, Ledgered, Targeted, Actions
  <1>6. NoMixedState'
    BY <1>1, <1>2 DEF MixInv, NoMixedState, Actions
  <1>7. \A a \in batch : a.target \in ledger'[p].undone
    BY <1>2, <1>4
  <1>8. \A d \in Commands : Applying(d)' /\ Undoing(d)'
    <2> SUFFICES ASSUME NEW d \in Commands PROVE Applying(d)' /\ Undoing(d)'
      OBVIOUS
    <2>1. CASE d = c
      <3>1. \A t \in ledger[p].applied \ ledger'[p].undone : \E a \in cmd[c].todo \ batch : a.target = t
        BY <1>2, <1>4, <1>7
      <3> QED
        BY <1>1, <1>2, <1>3, <1>4, <2>1, <3>1 DEF Applying, Undoing
    <2>2. CASE d # c /\ cmd[d].at # "idle"
      <3>1. cmd[d].report \in Reports
        BY <2>2, IdleCommand DEF TypeInv, Busy
      <3>2. ledger[cmd[d].report].undone \subseteq ledger'[cmd[d].report].undone
        BY <1>2, <3>1
      <3> QED
        BY <1>1, <1>2, <1>3, <2>2, <3>1, <3>2 DEF MixInv, Applying, Undoing, Actions
    <2>3. CASE d # c /\ cmd[d].at = "idle"
      BY <1>3, <2>3 DEF Applying, Undoing
    <2> QED
      BY <2>1, <2>2, <2>3
  <1> QED
    BY <1>5, <1>6, <1>8 DEF MixInv

(* A command that ends as it is, or as it has made its run.                *)
LEMMA MixEnds ==
  ASSUME TypeInv, MixInv, NEW c \in Commands,
         \/ ApplyRefused(c) \/ CompletesApply(c)
         \/ UndoRefused(c) \/ CompletesUndo(c) \/ Interrupted(c)
  PROVE  MixInv'
  <1> DEFINE p == cmd[c].report
  <1>1. UNCHANGED <<plans, ledger>>
    BY DEF ApplyRefused, CompletesApply, UndoRefused, CompletesUndo, Interrupted
  <1>2. cmd'[c] = Idle /\ \A d \in Commands : d # c => cmd'[d] = cmd[d]
    BY DEF TypeInv, Refuses, ApplyRefused, CompletesApply, UndoRefused, CompletesUndo, Interrupted
  <1>3. \/ UNCHANGED run
        \/ /\ p \in Reports /\ run[p] = "applying" /\ run'[p] = "applied"
           /\ ledger[p].applied = Targeted(p)
           /\ \A q \in Reports : q # p => run'[q] = run[q]
        \/ /\ p \in Reports /\ run[p] = "undoing" /\ run'[p] = "undone"
           /\ ledger[p].undone = ledger[p].applied
           /\ \A q \in Reports : q # p => run'[q] = run[q]
    <2>1. CASE CompletesApply(c)
      <3>1. p \in Reports /\ cmd[c].at = "apply" /\ cmd[c].todo = {} /\ run[p] = "applying"
        BY <2>1, IdleCommand DEF CompletesApply, TypeInv, Busy
      <3>2. ledger[p].applied = Targeted(p)
        BY <3>1 DEF MixInv, Applying, Ledgered, Targeted
      <3> QED
        BY <2>1, <3>1, <3>2 DEF CompletesApply, TypeInv
    <2>2. CASE CompletesUndo(c)
      <3>1. p \in Reports /\ cmd[c].at = "undo" /\ cmd[c].todo = {} /\ run[p] = "undoing"
        BY <2>2, IdleCommand DEF CompletesUndo, TypeInv, Busy
      <3>2. ledger[p].undone = ledger[p].applied
        BY <3>1 DEF MixInv, Undoing, Ledgered
      <3> QED
        BY <2>2, <3>1, <3>2 DEF CompletesUndo, TypeInv
    <2>3. CASE ApplyRefused(c) \/ UndoRefused(c) \/ Interrupted(c)
      BY <2>3 DEF ApplyRefused, UndoRefused, Interrupted
    <2> QED
      BY <2>1, <2>2, <2>3
  <1>4. NoMixedState'
    BY <1>1, <1>3 DEF MixInv, NoMixedState, Targeted, Actions
  <1>5. Ledgered'
    BY <1>1, <1>3 DEF MixInv, Ledgered, Targeted, Actions
  <1>6. \A d \in Commands : Applying(d)' /\ Undoing(d)'
    <2> SUFFICES ASSUME NEW d \in Commands PROVE Applying(d)' /\ Undoing(d)'
      OBVIOUS
    <2>1. CASE d = c \/ cmd[d].at = "idle"
      BY <1>2, <2>1, IdleCommand DEF Applying, Undoing
    <2>2. CASE d # c /\ cmd[d].at # "idle"
      <3>1. cmd[d].report \in Reports
        BY <2>2, IdleCommand DEF TypeInv, Busy
      <3> QED
        BY <1>1, <1>2, <1>3, <2>2, <3>1 DEF MixInv, Applying, Undoing, Actions
    <2> QED
      BY <2>1, <2>2
  <1> QED
    BY <1>4, <1>5, <1>6 DEF MixInv

LEMMA MixStep == TypeInv /\ MixInv /\ [Next]_vars => MixInv'
  <1> SUFFICES ASSUME TypeInv, MixInv, [Next]_vars PROVE MixInv'
    OBVIOUS
  <1>1. CASE UNCHANGED vars
    BY <1>1, MixOthers DEF vars
  <1>2. CASE \/ \E d \in Ids, p \in Paths, h \in Hashes : Indexes(d, p, h)
             \/ \E d, by \in Ids : Supersedes(d, by)
             \/ \E d \in Ids : Purges(d)
             \/ Checkpoints
    <2>1. UNCHANGED <<plans, run, ledger, cmd>>
      BY <1>2 DEF Indexes, Supersedes, Purges, Checkpoints, Changes
    <2> QED
      BY <2>1, MixOthers
  <1>3. CASE Next
    BY <1>2, <1>3, MixPlans, MixBeginsApply, MixBeginsUndo, MixRecordsRun, MixApplies,
       MixReadsLedger, MixUndoes, MixEnds DEF Next
  <1> QED
    BY <1>1, <1>3

LEMMA MixHolds == Spec => []MixInv
  BY MixInit, MixStep, TypesHold, PTL DEF Spec
-----------------------------------------------------------------------------
(* What others have touched.                                               *)

(* A link that others changed is cut, or of later than any backup.         *)
TouchInv == \A t \in touched : live.link[t] = NoLink \/ live.link[t].at = "later"

LEMMA WritesUntouch ==
  ASSUME TypeInv, TouchInv, NEW links, \A t \in DOMAIN links : links[t] \in Link, Writes(links)
  PROVE  TouchInv'
  BY WritesLinks DEF TypeInv, TouchInv

LEMMA ToldApart ==
  ASSUME TypeInv, TouchInv, NEW a, Sound(a), live.link[a.target] = a.after
  PROVE  a.target \notin touched
  BY ConstantsAssumption DEF TouchInv, Sound, NoLink

LEMMA AppliedLinks ==
  ASSUME TypeInv, NEW c \in Commands, Applies(c), NEW new,
         new = {a \in NextBatch(cmd[c].todo) : a.target \notin ledger[cmd[c].report].applied}
  PROVE  LET links == [t \in {a.target : a \in new} |-> (CHOOSE a \in new : a.target = t).after]
         IN /\ Writes(links)
            /\ \A t \in DOMAIN links : /\ links[t] \in Link
                                       /\ \E a \in new : a.target = t /\ links[t] = a.after
            /\ \A a \in new : Sound(a)
  <1> DEFINE p == cmd[c].report
             links == [t \in {a.target : a \in new} |-> (CHOOSE a \in new : a.target = t).after]
  <1>1. p \in Reports /\ plans[p] # Null /\ cmd[c].todo \subseteq Actions(p)
    BY IdleCommand DEF TypeInv, Applies, Busy
  <1>2. \A a \in new : Sound(a)
    BY <1>1, BatchesAreSome DEF TypeInv
  <1>3. Writes(links)
    BY DEF Applies
  <1>4. \A t \in DOMAIN links : links[t] \in Link /\ \E a \in new : a.target = t /\ links[t] = a.after
    BY <1>2, Chosen DEF Sound, Action
  <1> QED
    BY <1>2, <1>3, <1>4

LEMMA UndoneLinks ==
  ASSUME TypeInv, NEW c \in Commands, Undoes(c), NEW new,
         new = {a \in LastBatch(cmd[c].todo) : a.target \notin cmd[c].seen}
  PROVE  LET links == [t \in {a.target : a \in new} |-> (CHOOSE a \in new : a.target = t).before]
         IN /\ Writes(links)
            /\ \A t \in DOMAIN links : links[t] \in Link
            /\ \A a \in new : Sound(a) /\ live.link[a.target] = a.after
  <1> DEFINE p == cmd[c].report
             links == [t \in {a.target : a \in new} |-> (CHOOSE a \in new : a.target = t).before]
  <1>1. p \in Reports /\ plans[p] # Null /\ cmd[c].todo \subseteq Actions(p)
    BY IdleCommand DEF TypeInv, Undoes, Busy
  <1>2. \A a \in new : Sound(a)
    BY <1>1, BatchesAreSome DEF TypeInv
  <1>3. Writes(links) /\ \A a \in new : live.link[a.target] = a.after
    BY DEF Undoes, Undoable
  <1>4. \A t \in DOMAIN links : links[t] \in Link
    BY <1>2, Chosen DEF Sound, Action
  <1> QED
    BY <1>2, <1>3, <1>4

LEMMA TouchIndexes ==
  ASSUME TypeInv, TouchInv, NEW d \in Ids, NEW p \in Paths, NEW h \in Hashes, Indexes(d, p, h)
  PROVE  TouchInv'
  <1> DEFINE note == [paths |-> {p}, hash |-> h]
  <1>1. live' = [live EXCEPT !.doc[d] = note] /\ touched' = touched
    BY DEF Indexes
  <1> HIDE DEF note
  <1>2. live'.link = live.link
    BY <1>1 DEF TypeInv, Database
  <1> QED
    BY <1>1, <1>2 DEF TouchInv

LEMMA TouchSupersedes ==
  ASSUME TypeInv, TouchInv, NEW d \in Ids, NEW by \in Ids, Supersedes(d, by)
  PROVE  TouchInv'
  <1> DEFINE link == [to |-> by, at |-> "later"]
             t == <<"document", d>>
  <1>1. live' = [live EXCEPT !.link[t] = link] /\ touched' = touched \cup {t}
    BY DEF Supersedes
  <1>2. t \in Targets /\ link.at = "later"
    BY DEF Targets
  <1> HIDE DEF link, t
  <1>3. live'.link[t] = link /\ \A u \in Targets : u # t => live'.link[u] = live.link[u]
    BY <1>1, <1>2 DEF TypeInv, Database
  <1> QED
    BY <1>1, <1>2, <1>3 DEF TypeInv, TouchInv

LEMMA TouchStep == TypeInv /\ TouchInv /\ [Next]_vars => TouchInv'
  <1> SUFFICES ASSUME TypeInv, TouchInv, [Next]_vars PROVE TouchInv'
    OBVIOUS
  <1>1. ASSUME UNCHANGED <<live, touched>> PROVE TouchInv'
    BY <1>1 DEF TouchInv
  <1>2. ASSUME NEW c \in Commands, Applies(c) PROVE TouchInv'
    BY <1>2, AppliedLinks, WritesUntouch
  <1>3. ASSUME NEW c \in Commands, Undoes(c) PROVE TouchInv'
    BY <1>3, UndoneLinks, WritesUntouch
  <1>4. ASSUME NEW d \in Ids, Purges(d) PROVE TouchInv'
    BY <1>4, PurgedLinks DEF TypeInv, TouchInv
  <1>5. CASE UNCHANGED vars
    BY <1>1, <1>5 DEF vars
  <1>6. CASE Next
    <2>1. ASSUME NEW p \in Reports, Plans(p) PROVE TouchInv'
      BY <1>1, <2>1 DEF Plans
    <2>2. ASSUME NEW c \in Commands, NEW p \in Reports, BeginsApply(c, p) \/ BeginsUndo(c, p)
          PROVE  TouchInv'
      BY <1>1, <2>2 DEF BeginsApply, BeginsUndo
    <2>3. ASSUME NEW c \in Commands,
                 \/ RecordsRun(c) \/ ApplyRefused(c) \/ CompletesApply(c) \/ ReadsLedger(c)
                 \/ UndoRefused(c) \/ CompletesUndo(c) \/ Interrupted(c)
          PROVE  TouchInv'
      BY <1>1, <2>3
      DEF RecordsRun, ApplyRefused, CompletesApply, ReadsLedger, UndoRefused, CompletesUndo, Interrupted
    <2>4. CASE Checkpoints
      BY <1>1, <2>4 DEF Checkpoints
    <2> QED
      BY <1>2, <1>3, <1>4, <1>6, <2>1, <2>2, <2>3, <2>4, TouchIndexes, TouchSupersedes DEF Next
  <1> QED
    BY <1>5, <1>6

LEMMA TouchHolds == Spec => []TouchInv
  <1>1. Init => TouchInv
    BY DEF Init, TouchInv
  <1> QED
    BY <1>1, TouchStep, TypesHold, PTL DEF Spec

-----------------------------------------------------------------------------
(* Which steps write to the ledger.                                        *)

(* Only a batch that is applied, or one that is undone.                    *)
LEMMA LedgerWriters ==
  ASSUME TypeInv, [Next]_vars, ledger' # ledger
  PROVE  \E c \in Commands : Applies(c) \/ Undoes(c)
  BY DEF Next, vars, Plans, BeginsApply, BeginsUndo, RecordsRun, ApplyRefused, CompletesApply,
         ReadsLedger, UndoRefused, CompletesUndo, Interrupted, Indexes, Supersedes, Purges,
         Changes, Checkpoints

LEMMA UndoStep ==
  ASSUME TypeInv, TouchInv, [Next]_vars, NEW p \in Reports
  PROVE  touched \cap (ledger'[p].undone \ ledger[p].undone) = {}
  <1>1. ASSUME NEW c \in Commands, Applies(c)
        PROVE  ledger'[p].undone = ledger[p].undone
    BY <1>1 DEF Applies, TypeInv
  <1>2. ASSUME NEW c \in Commands, Undoes(c)
        PROVE  touched \cap (ledger'[p].undone \ ledger[p].undone) = {}
    <2> DEFINE new == {a \in LastBatch(cmd[c].todo) : a.target \notin cmd[c].seen}
    <2>1. \A a \in new : Sound(a) /\ live.link[a.target] = a.after
      BY <1>2, UndoneLinks
    <2>2. \A a \in new : a.target \notin touched
      BY <2>1, ToldApart
    <2>3. ledger'[p].undone \subseteq ledger[p].undone \cup {a.target : a \in new}
      BY <1>2 DEF Undoes, TypeInv
    <2> QED
      BY <2>2, <2>3
  <1> QED
    BY <1>1, <1>2, LedgerWriters

LEMMA HoldsSame ==
  ASSUME NEW a, \A e \in a.evidence : Holds(e), NEW old, NEW new, Witnesses(a, old, new)
  PROVE  SameNote(old, new)
  BY DEF Witnesses, Holds, SameNote

LEMMA ProvenStep ==
  ASSUME TypeInv, [Next]_vars, NEW p \in Reports,
         NEW t \in ledger'[p].applied \ ledger[p].applied
  PROVE  IF t[1] = "row" THEN SameNote(backup.link[t].to, live'.link[t].to)
         ELSE \E old \in Ids : /\ SameNote(old, t[2])
                               /\ SameNote(backup.link[<<"document", old>>].to, live'.link[t].to)
  <1>1. ASSUME NEW c \in Commands, Undoes(c) PROVE ledger'[p].applied = ledger[p].applied
    BY <1>1 DEF Undoes, TypeInv
  <1>2. PICK c \in Commands : Applies(c)
    BY <1>1, LedgerWriters
  <1> DEFINE new == {a \in NextBatch(cmd[c].todo) : a.target \notin ledger[cmd[c].report].applied}
             links == [u \in {a.target : a \in new} |-> (CHOOSE a \in new : a.target = u).after]
  <1>3. t \in {a.target : a \in new}
    BY <1>2 DEF Applies, TypeInv
  <1>4. /\ Writes(links)
        /\ \A u \in DOMAIN links : /\ links[u] \in Link
                                   /\ \E a \in new : a.target = u /\ links[u] = a.after
        /\ \A a \in new : Sound(a)
    BY <1>2, AppliedLinks
  <1>5. \A a \in new : \A e \in a.evidence : Holds(e)
    BY <1>2 DEF Applies, Valid
  <1>6. t \in DOMAIN links
    BY <1>3
  <1> HIDE DEF new, links
  <1>7. PICK a \in new : a.target = t /\ links[t] = a.after
    BY <1>4, <1>6
  <1>8. Sound(a) /\ t \in Targets
    BY <1>4, <1>7 DEF Sound, Action
  <1>9. live'.link[t] = a.after
    BY <1>4, <1>6, <1>7, <1>8, WritesLinks
  <1>10. \A old, doc : Witnesses(a, old, doc) => SameNote(old, doc)
    BY <1>5, HoldsSame
  <1>11. CASE \E r \in Rows : /\ t = <<"row", r>> /\ Witnesses(a, backup.link[t].to, a.after.to)
    BY <1>9, <1>10, <1>11
  <1>12. CASE \E old, d \in Ids : /\ t = <<"document", d>>
                                 /\ Witnesses(a, old, d)
                                 /\ Witnesses(a, backup.link[<<"document", old>>].to, a.after.to)
    BY <1>9, <1>10, <1>12
  <1> QED
    BY <1>7, <1>8, <1>11, <1>12 DEF Sound, Evident

-----------------------------------------------------------------------------
(* The database, the reports and the ledger keep their types, a command    *)
(* that is busy has a report, and no id that was purged is used again.     *)
THEOREM RepairTypeInvariant == Spec => []TypeOK
  <1>1. TypeInv /\ MixInv => TypeOK
    BY ConstantsAssumption, IdleCommand DEF TypeInv, MixInv, Ledgered, TypeOK, Busy, Statuses
  <1> QED
    BY <1>1, TypesHold, MixHolds, PTL

(* A run that is called applied has made every change of its report, and   *)
(* one called undone has none left, for any commands that apply and undo   *)
(* it at once, in batches of any size, and die at any point.               *)
THEOREM RunsAreNotMixed == Spec => []NoMixedState
  <1>1. MixInv => NoMixedState
    BY DEF MixInv
  <1> QED
    BY <1>1, MixHolds, PTL

(* No undo takes back a link that somebody else has written since.         *)
THEOREM UndosSpareOthers == Spec => UndoSparesOthers
  <1>1. TypeInv /\ TouchInv /\ [Next]_vars =>
          [\A p \in Reports : touched \cap (ledger'[p].undone \ ledger[p].undone) = {}]_vars
    BY UndoStep
  <1> QED
    BY <1>1, TypesHold, TouchHolds, PTL DEF Spec, UndoSparesOthers

(* Whatever a batch links is, at that moment, the note of the backup.      *)
THEOREM RepairsProven == Spec => RepairsAreProven
  <1> DEFINE Proven ==
        \A p \in Reports : \A t \in ledger'[p].applied \ ledger[p].applied :
          IF t[1] = "row" THEN SameNote(backup.link[t].to, live'.link[t].to)
          ELSE \E old \in Ids : /\ SameNote(old, t[2])
                                /\ SameNote(backup.link[<<"document", old>>].to, live'.link[t].to)
  <1>1. TypeInv /\ [Next]_vars => [Proven]_vars
    BY ProvenStep
  <1> QED
    BY <1>1, TypesHold, PTL DEF Spec, RepairsAreProven

-----------------------------------------------------------------------------
(* A stamp is the second that a time is in: not after it, and less than a  *)
(* second before it.                                                       *)
LEMMA StampBounds ==
  ASSUME NEW t \in Nat
  PROVE  /\ Stamp(t) \in Nat
         /\ Stamp(t) <= t
         /\ t < Stamp(t) + Second
  <1>1. Second \in Nat \ {0}
    BY FollowAssumption
  <1>2. t % Second \in 0..(Second - 1) /\ t % Second <= t
    BY <1>1
  <1> QED
    BY <1>1, <1>2 DEF Stamp

-----------------------------------------------------------------------------
(* Type correctness: nothing is logged with a time that is yet to come.    *)
THEOREM FollowTypeInvariant == FollowSpec => []FollowTypeOK
  <1>1. FollowInit => FollowTypeOK
    BY FollowAssumption DEF FollowInit, FollowTypeOK
  <1>2. FollowTypeOK /\ [FollowNext]_followVars => FollowTypeOK'
    <2> SUFFICES ASSUME FollowTypeOK, [FollowNext]_followVars
                 PROVE  FollowTypeOK'
      OBVIOUS
    <2>0. Stamp(clock) \in Nat /\ Stamp(clock) <= clock
      BY StampBounds DEF FollowTypeOK
    <2>1. ASSUME NEW s \in Sessions, NEW D \in SUBSET Present, LogsHint(s, D)
          PROVE  FollowTypeOK'
      BY <2>0, <2>1 DEF FollowTypeOK, LogsHint, Present
    <2>2. ASSUME NEW s \in Sessions, NEW d \in Present, LogsFire(s, d)
          PROVE  FollowTypeOK'
      BY <2>2 DEF FollowTypeOK, LogsFire, Present
    <2>3. ASSUME NEW s \in Sessions, NEW d \in Present, LogsRead(s, d)
          PROVE  FollowTypeOK'
      BY <2>0, <2>3 DEF FollowTypeOK, LogsRead, Present
    <2>4. ASSUME NEW s \in Sessions, LogsCheckpoint(s)
          PROVE  FollowTypeOK'
      BY <2>4 DEF FollowTypeOK, LogsCheckpoint
    <2>5. ASSUME NEW s \in Sessions, NEW d \in Docs \cup {NoDoc},
                 NEW what \in {"called", "refused", "authored", "harvested"},
                 LogsCapture(s, what, d)
          PROVE  FollowTypeOK'
      BY <2>0, <2>5 DEF FollowTypeOK, LogsCapture
    <2>6. ASSUME NEW s \in Sessions, NEW d \in Present, IndexesHarvest(s, d)
          PROVE  FollowTypeOK'
      BY <2>0, <2>6 DEF FollowTypeOK, IndexesHarvest, Present
    <2>7. ASSUME NEW d \in Present, SupersedesDoc(d) \/ RestoresDoc(d) \/ PurgesDoc(d)
          PROVE  FollowTypeOK'
      BY <2>0, <2>7 DEF FollowTypeOK, SupersedesDoc, RestoresDoc, PurgesDoc, Present
    <2>8. CASE Ticks
      BY <2>8, FollowAssumption DEF FollowTypeOK, Ticks
    <2>9. CASE UNCHANGED followVars
      BY <2>9 DEF FollowTypeOK, followVars
    <2> QED
      BY <2>1, <2>2, <2>3, <2>4, <2>5, <2>6, <2>7, <2>8, <2>9 DEF FollowNext, Present
  <1> QED
    BY <1>1, <1>2, PTL DEF FollowSpec

-----------------------------------------------------------------------------
(* What a step may log about an event that is mature: nothing that is still*)
(* within the event's window.                                              *)
Late(at, more) == \A x \in more : ~(x.at <= at + Window)

(* What was logged stays; what is new has the stamp of its second.         *)
LEMMA Grows ==
  ASSUME FollowTypeOK, [FollowNext]_followVars
  PROVE  /\ reads \subseteq reads' /\ \A r \in reads' \ reads : r.at = Stamp(clock)
         /\ captures \subseteq captures' /\ \A x \in captures' \ captures : x.at = Stamp(clock)
         /\ salvaged \subseteq salvaged'
         /\ purged \subseteq purged'
  BY DEF FollowNext, LogsHint, LogsFire, LogsRead, LogsCheckpoint, LogsCapture, IndexesHarvest,
         SupersedesDoc, RestoresDoc, PurgesDoc, Ticks, followVars

LEMMA NothingLate ==
  ASSUME FollowTypeOK, [FollowNext]_followVars,
         NEW at \in Nat, Mature(at)
  PROVE  Late(at, reads' \ reads) /\ Late(at, captures' \ captures)
  <1>1. Second \in Nat /\ Window \in Nat /\ clock \in Nat /\ Second <= clock
    BY FollowAssumption DEF FollowTypeOK
  <1>2. Stamp(clock) \in Nat /\ clock < Stamp(clock) + Second
    BY <1>1, StampBounds
  <1>3. at + Window <= clock - Second
    BY DEF Mature, Eligible
  <1>4. ~(Stamp(clock) <= at + Window)
    BY <1>1, <1>2, <1>3
  <1> QED
    BY <1>4, Grows DEF Late

LEMMA PushesAreSettled ==
  ASSUME FollowTypeOK, [FollowNext]_followVars
  PROVE  PushesSettle
  <1> SUFFICES ASSUME NEW e \in pushes, Mature(e.at), (purged' \ purged) \cap e.docs = {}
               PROVE  Verdict(e)' = Verdict(e)
    BY DEF PushesSettle
  <1>1. e.at \in Nat /\ e.docs \subseteq Docs
    BY DEF FollowTypeOK
  <1>2. purged \subseteq purged' /\ reads \subseteq reads'
    BY Grows
  <1>3. NamedBy(e)' = NamedBy(e) /\ NamedBy(e)' \ purged' = NamedBy(e) \ purged
    BY <1>2 DEF NamedBy
  <1>4. \A r : FollowedBy(e, r)' <=> FollowedBy(e, r)
    BY <1>3 DEF FollowedBy
  <1>5. \A r \in reads' \ reads : ~FollowedBy(e, r)
    BY <1>1, NothingLate DEF FollowedBy, Late
  <1>6. (\E r \in reads' : FollowedBy(e, r)') <=> (\E r \in reads : FollowedBy(e, r))
    BY <1>2, <1>4, <1>5
  <1> QED
    BY <1>3, <1>6 DEF Verdict

(* The answers of a mature checkpoint within its window are all there.     *)
LEMMA AnswersAreIn ==
  ASSUME FollowTypeOK, [FollowNext]_followVars, NEW c \in checkpoints, Mature(c.at)
  PROVE  Authored(c)' = Authored(c) /\ Refused(c)' = Refused(c)
  <1>1. captures \subseteq captures' /\ Late(c.at, captures' \ captures)
    BY Grows, NothingLate DEF FollowTypeOK
  <1>2. Immediate(c)' = Immediate(c)
    BY <1>1 DEF Immediate, CapturesOf, Late
  <1> QED
    BY <1>2 DEF Authored, Refused

LEMMA SalvagesStay ==
  ASSUME FollowTypeOK, [FollowNext]_followVars, NEW c \in checkpoints, Salvages(c),
         purged' = purged
  PROVE  Salvages(c)'
  BY Grows DEF Salvages, CapturesOf

LEMMA CheckpointsAreSettled ==
  ASSUME FollowTypeOK, [FollowNext]_followVars
  PROVE  CheckpointsSettle
  <1> SUFFICES ASSUME NEW c \in checkpoints, Mature(c.at)
               PROVE  LET old == CaptureState(c)
                          new == CaptureState(c)'
                      IN /\ old \in AuthoredStates <=> new \in AuthoredStates
                         /\ purged' = purged /\ old = "delayed_salvage" => new = old
                         /\ purged' = purged /\ old # new =>
                              new \in AuthoredStates \cup {"delayed_salvage"}
    BY DEF CheckpointsSettle
  <1>1. Authored(c)' = Authored(c) /\ Refused(c)' = Refused(c)
    BY AnswersAreIn
  <1>2. LaterDuplicate(c) => Authored(c) # {}
    BY DEF LaterDuplicate
  <1>3. LaterDuplicate(c)' => Authored(c)' # {}
    BY DEF LaterDuplicate
  <1>4. purged' = purged /\ Salvages(c) => Salvages(c)'
    BY SalvagesStay
  <1> QED
    BY <1>1, <1>2, <1>3, <1>4 DEF CaptureState, AuthoredStates

(* Two reports agree on every event that was eligible, by a second, for the*)
(* first.  The second is that of the stamps: what a later step logs has a  *)
(* stamp less than a second before the clock, so it is past the window of  *)
(* an event that has been eligible for a second, whose verdict rests on    *)
(* what is within the window and on the documents that are left.           *)
THEOREM VerdictsAreFinal == FollowSpec => VerdictsSettle
  <1>1. FollowTypeOK /\ [FollowNext]_followVars => [PushesSettle /\ CheckpointsSettle]_followVars
    BY PushesAreSettled, CheckpointsAreSettled
  <1> QED
    BY <1>1, FollowTypeInvariant, PTL DEF FollowSpec, VerdictsSettle

-----------------------------------------------------------------------------
(* Promotions.  A run that is about to index a note has raised its file,   *)
(* unless the user has set the tier since; one that has raised a note      *)
(* without a file in the index has raised all there is of it.              *)
Promoter ==
  [at : {"ended", "next", "file", "index"}, dry : BOOLEAN, note : Inferred \cup {Unset},
   todo : SUBSET Inferred]

PromotionTypes ==
  /\ followed \subseteq Inferred
  /\ tier \in [Inferred -> Tiers]
  /\ fileTier \in [Inferred -> Tiers]
  /\ \A n \in Unfiled : fileTier[n] = "none"
  /\ lines \in [Inferred -> SUBSET Line]
  /\ promoter \in [Promoters -> Promoter]
  /\ \A c \in Promoters : promoter[c].at \in {"file", "index"} => promoter[c].note \in Inferred

RaisedFirst ==
  \A c \in Promoters :
    \/ promoter[c].at = "index"
    \/ promoter[c].at = "file" /\ promoter[c].note \in Unfiled
    => Stands(promoter[c].note) \/ promoter[c].note \in byHand

PromotionsInv == PromotionTypes /\ RaisedFirst /\ LoggedMeansRaised

LEMMA PromotionsBegin == PromotionsInit => PromotionsInv
  <1> SUFFICES ASSUME PromotionsInit PROVE PromotionsInv
    OBVIOUS
  <1>1. Ended \in Promoter /\ Ended.at = "ended"
    BY DEF Ended, Promoter
  <1>2. /\ tier \in [Inferred -> Tiers] /\ fileTier \in [Inferred -> Tiers]
        /\ \A n \in Unfiled : fileTier[n] = "none"
        /\ lines \in [Inferred -> SUBSET Line]
    BY PromotionsAssumption DEF PromotionsInit, Tiers
  <1>3. promoter \in [Promoters -> Promoter] /\ \A c \in Promoters : promoter[c].at = "ended"
    BY <1>1 DEF PromotionsInit
  <1>4. LoggedMeansRaised
    BY DEF PromotionsInit, LoggedMeansRaised, LoggedClean
  <1> QED
    BY <1>2, <1>3, <1>4 DEF PromotionsInit, PromotionsInv, PromotionTypes, RaisedFirst

WillStand(n) == IF n \in Unfiled THEN tier'[n] = "observed" ELSE fileTier'[n] = "observed"

(* What a step may do to the tiers: no note that stands falls, unless the  *)
(* user has set it.                                                        *)
TiersHold ==
  /\ tier' \in [Inferred -> Tiers] /\ fileTier' \in [Inferred -> Tiers]
  /\ \A n \in Unfiled : fileTier'[n] = "none"
  /\ byHand \subseteq byHand'
  /\ \A n \in Inferred : Stands(n) => WillStand(n) \/ n \in byHand'

(* A step of one run that leaves the log alone.                            *)
LEMMA PromoterSteps ==
  ASSUME PromotionsInv, NEW c \in Promoters, NEW next \in Promoter,
         promoter' = [promoter EXCEPT ![c] = next],
         next.at \in {"file", "index"} => next.note \in Inferred,
         \/ next.at = "index"
         \/ next.at = "file" /\ next.note \in Unfiled
         => WillStand(next.note) \/ next.note \in byHand',
         TiersHold, UNCHANGED <<followed, lines, deferred>>
  PROVE  PromotionsInv'
  <1>1. /\ promoter' \in [Promoters -> Promoter]
        /\ promoter'[c] = next
        /\ \A d \in Promoters \ {c} : promoter'[d] = promoter[d]
    BY DEF PromotionsInv, PromotionTypes
  <1>2. PromotionTypes'
    BY <1>1 DEF PromotionsInv, PromotionTypes, TiersHold
  <1>3. RaisedFirst'
    <2> SUFFICES ASSUME NEW d \in Promoters,
                        \/ promoter'[d].at = "index"
                        \/ promoter'[d].at = "file" /\ promoter'[d].note \in Unfiled
                 PROVE  Stands(promoter[d].note)' \/ promoter'[d].note \in byHand'
      BY DEF RaisedFirst
    <2>1. CASE d = c
      BY <1>1, <2>1 DEF Stands, WillStand
    <2>2. CASE d # c
      BY <1>1, <2>2 DEF PromotionsInv, PromotionTypes, RaisedFirst, TiersHold, Stands, WillStand
    <2> QED
      BY <2>1, <2>2
  <1>4. LoggedMeansRaised'
    BY DEF PromotionsInv, LoggedMeansRaised, LoggedClean, TiersHold, Stands, WillStand
  <1> QED
    BY <1>2, <1>3, <1>4 DEF PromotionsInv

(* A line is appended: if it has no error, the note has been raised, or is *)
(* not one that anything is said of.                                        *)
LEMMA DecisionAppended ==
  ASSUME PromotionsInv, NEW c \in Promoters, NEW n \in Inferred,
         NEW applied \in BOOLEAN, NEW error \in BOOLEAN,
         AppendsDecision(c, n, applied, error),
         UNCHANGED followed, TiersHold, deferred \subseteq deferred',
         error \/ WillStand(n) \/ n \in byHand' \cup deferred'
  PROVE  PromotionsInv'
  <1> DEFINE next == [promoter[c] EXCEPT !.at = "next", !.note = Unset, !.todo = @ \ {n}]
             line == [applied |-> applied, error |-> error]
  <1>1. next \in Promoter /\ next.at = "next"
    BY DEF PromotionsInv, PromotionTypes, Promoter
  <1>2. promoter' = [promoter EXCEPT ![c] = next] /\ lines' = [lines EXCEPT ![n] = @ \cup {line}]
    BY DEF AppendsDecision, PromotionsInv, PromotionTypes
  <1>3. line \in Line /\ line.error = error
    BY DEF Line
  <1> HIDE DEF next, line
  <1>4. /\ promoter' \in [Promoters -> Promoter]
        /\ promoter'[c] = next
        /\ \A d \in Promoters \ {c} : promoter'[d] = promoter[d]
    BY <1>1, <1>2 DEF PromotionsInv, PromotionTypes
  <1>5. /\ lines' \in [Inferred -> SUBSET Line]
        /\ lines'[n] = lines[n] \cup {line}
        /\ \A m \in Inferred \ {n} : lines'[m] = lines[m]
    BY <1>2, <1>3 DEF PromotionsInv, PromotionTypes
  <1>6. PromotionTypes'
    BY <1>1, <1>4, <1>5 DEF PromotionsInv, PromotionTypes, TiersHold
  <1>7. RaisedFirst'
    BY <1>1, <1>4 DEF PromotionsInv, PromotionTypes, RaisedFirst, TiersHold, Stands, WillStand
  <1>8. LoggedMeansRaised'
    <2> SUFFICES ASSUME NEW m \in Inferred \ (byHand' \cup deferred'), LoggedClean(m)'
                 PROVE  Stands(m)'
      BY DEF LoggedMeansRaised
    <2>1. CASE m = n /\ ~error
      BY <2>1 DEF Stands, WillStand
    <2>2. CASE ~(m = n /\ ~error)
      <3>1. LoggedClean(m)
        BY <1>3, <1>5, <2>2 DEF LoggedClean
      <3> QED
        BY <3>1 DEF PromotionsInv, LoggedMeansRaised, TiersHold, Stands, WillStand
    <2> QED
      BY <2>1, <2>2
  <1> QED
    BY <1>6, <1>7, <1>8 DEF PromotionsInv

LEMMA TiersUntouched ==
  PromotionsInv /\ UNCHANGED <<tier, fileTier, byHand>> => TiersHold
BY DEF TiersHold, PromotionsInv, PromotionTypes, Stands, WillStand

(* Indexing takes the tier of a note with a file from it.                  *)
LEMMA IndexingHolds ==
  ASSUME PromotionsInv, NEW n \in Inferred, IndexesFile(n), UNCHANGED <<fileTier, byHand>>
  PROVE  TiersHold
  <1>1. n \notin Unfiled /\ fileTier[n] \in Tiers
    BY DEF IndexesFile, PromotionsInv, PromotionTypes
  <1>2. /\ tier' \in [Inferred -> Tiers]
        /\ \A m \in Inferred \ {n} : tier'[m] = tier[m]
    BY <1>1 DEF IndexesFile, PromotionsInv, PromotionTypes
  <1> QED
    BY <1>1, <1>2, PromotionsAssumption DEF TiersHold, Stands, WillStand, PromotionsInv, PromotionTypes

LEMMA PromotionsStep == PromotionsInv /\ [PromotionsNext]_promotionVars => PromotionsInv'
  <1> SUFFICES ASSUME PromotionsInv, [PromotionsNext]_promotionVars PROVE PromotionsInv'
    OBVIOUS
  <1>0. /\ Ended \in Promoter /\ Ended.at = "ended"
        /\ promoter \in [Promoters -> Promoter] /\ followed \subseteq Inferred
    BY DEF Ended, Promoter, PromotionsInv, PromotionTypes
  <1>1. ASSUME NEW c \in Promoters, NEW dry \in BOOLEAN, ComputesDecisions(c, dry)
        PROVE  PromotionsInv'
    <2> DEFINE next == [at |-> "next", dry |-> dry, note |-> Unset,
                        todo |-> {n \in followed \ detached : tier[n] = "inferred" /\ ~LoggedClean(n)}]
    <2>1. next \in Promoter /\ next.at = "next"
      BY <1>0 DEF Promoter
    <2>2. promoter' = [promoter EXCEPT ![c] = next]
      BY <1>1 DEF ComputesDecisions
    <2> HIDE DEF next
    <2>3. TiersHold /\ UNCHANGED <<followed, lines, deferred>>
      BY <1>1, TiersUntouched DEF ComputesDecisions, vaultVars
    <2> QED
      BY <2>1, <2>2, <2>3, PromoterSteps
  <1>2. ASSUME NEW c \in Promoters, NEW n \in Inferred, OnlyLogs(c, n)
        PROVE  PromotionsInv'
    <2>1. /\ AppendsDecision(c, n, FALSE, FALSE) /\ TiersHold /\ followed' = followed
          /\ deferred' = deferred \cup {n}
      BY <1>2, TiersUntouched DEF OnlyLogs, vaultVars
    <2> QED
      BY <2>1, DecisionAppended
  <1>3. ASSUME NEW c \in Promoters, NEW n \in Inferred, Raises(c, n)
        PROVE  PromotionsInv'
    <2>1. UNCHANGED <<followed, fileTier, deferred, byHand>>
      BY <1>3 DEF Raises, vaultVars
    <2>2. CASE tier' = [tier EXCEPT ![n] = "observed"] /\ Step(c, "file", n) /\ UNCHANGED lines
      <3> DEFINE next == [promoter[c] EXCEPT !.at = "file", !.note = n]
      <3>1. next \in Promoter /\ next.at = "file" /\ next.note = n
        BY <1>0 DEF Promoter
      <3>2. promoter' = [promoter EXCEPT ![c] = next]
        BY <1>0, <2>2 DEF Step
      <3> HIDE DEF next
      <3>3. tier'[n] = "observed" /\ TiersHold
        BY <2>1, <2>2, PromotionsAssumption
           DEF TiersHold, Stands, WillStand, PromotionsInv, PromotionTypes, Tiers
      <3>4. n \in Unfiled => WillStand(n)
        BY <3>3 DEF WillStand
      <3> QED
        BY <2>1, <2>2, <3>1, <3>2, <3>3, <3>4, PromoterSteps
    <2>3. CASE AppendsDecision(c, n, FALSE, TRUE) /\ UNCHANGED tier
      BY <2>1, <2>3, TiersUntouched, DecisionAppended
    <2> QED
      BY <1>3, <2>2, <2>3 DEF Raises
  <1>4. ASSUME NEW c \in Promoters, RaisesFile(c)
        PROVE  PromotionsInv'
    <2>0. PICK n \in Inferred : n = promoter[c].note
      BY <1>4 DEF RaisesFile, PromotionsInv, PromotionTypes
    <2>1. n = promoter[c].note /\ promoter[c].at = "file" /\ UNCHANGED <<followed, tier, deferred, byHand>>
      BY <1>4, <2>0 DEF RaisesFile
    <2>2. CASE n \in Unfiled /\ AppendsDecision(c, n, TRUE, FALSE) /\ UNCHANGED fileTier
      <3>1. WillStand(n) \/ n \in byHand'
        BY <2>1, <2>2 DEF PromotionsInv, RaisedFirst, Stands, WillStand
      <3> QED
        BY <2>1, <2>2, <3>1, TiersUntouched, DecisionAppended
    <2>3. CASE /\ n \notin Unfiled /\ fileTier' = [fileTier EXCEPT ![n] = "observed"]
               /\ Step(c, "index", n) /\ UNCHANGED lines
      <3> DEFINE next == [promoter[c] EXCEPT !.at = "index", !.note = n]
      <3>1. next \in Promoter /\ next.at = "index" /\ next.note = n
        BY <1>0, <2>1 DEF Promoter
      <3>2. promoter' = [promoter EXCEPT ![c] = next]
        BY <1>0, <2>3 DEF Step
      <3> HIDE DEF next
      <3>3. fileTier'[n] = "observed" /\ TiersHold
        BY <2>1, <2>3, PromotionsAssumption
           DEF TiersHold, Stands, WillStand, PromotionsInv, PromotionTypes, Tiers
      <3>4. WillStand(n)
        BY <2>3, <3>3 DEF WillStand
      <3> QED
        BY <2>1, <2>3, <3>1, <3>2, <3>3, <3>4, PromoterSteps
    <2>4. CASE AppendsDecision(c, n, FALSE, TRUE) /\ UNCHANGED fileTier
      BY <2>1, <2>4, TiersUntouched, DecisionAppended
    <2> QED
      BY <1>4, <2>0, <2>2, <2>3, <2>4 DEF RaisesFile
  <1>5. ASSUME NEW c \in Promoters, IndexesRaised(c)
        PROVE  PromotionsInv'
    <2>0. PICK n \in Inferred : n = promoter[c].note
      BY <1>5 DEF IndexesRaised, PromotionsInv, PromotionTypes
    <2>1. /\ n \in Inferred /\ UNCHANGED <<followed, fileTier, deferred, byHand>>
          /\ Stands(n) \/ n \in byHand
      BY <1>5, <2>0 DEF IndexesRaised, PromotionsInv, RaisedFirst
    <2>2. CASE IndexesFile(n) /\ AppendsDecision(c, n, TRUE, FALSE)
      <3>1. TiersHold
        BY <2>1, <2>2, IndexingHolds
      <3> QED
        BY <2>1, <2>2, <3>1, DecisionAppended DEF TiersHold
    <2>3. CASE AppendsDecision(c, n, TRUE, TRUE) /\ UNCHANGED tier
      BY <2>1, <2>3, TiersUntouched, DecisionAppended
    <2> QED
      BY <1>5, <2>0, <2>2, <2>3 DEF IndexesRaised
  <1>6. ASSUME NEW c \in Promoters, EndsRun(c) \/ DiesPromoting(c)
        PROVE  PromotionsInv'
    <2>1. TiersHold /\ UNCHANGED <<followed, lines, deferred>> /\ promoter' = [promoter EXCEPT ![c] = Ended]
      BY <1>6, TiersUntouched DEF EndsRun, DiesPromoting, vaultVars
    <2> QED
      BY <1>0, <2>1, PromoterSteps
  <1>9. ASSUME TiersHold, followed' \subseteq Inferred, UNCHANGED <<lines, promoter, deferred>>
        PROVE  PromotionsInv'
    BY <1>9
    DEF PromotionsInv, PromotionTypes, RaisedFirst, LoggedMeansRaised, LoggedClean, TiersHold, Stands, WillStand
  <1>7. ASSUME NEW n \in Inferred, IsFollowed(n) \/ Reindexes(n) \/ FileChanges(n)
        PROVE  PromotionsInv'
    <2>1. CASE IsFollowed(n) \/ FileChanges(n)
      BY <1>0, <1>9, <2>1, TiersUntouched DEF IsFollowed, FileChanges, vaultVars
    <2>2. CASE Reindexes(n)
      BY <1>0, <1>9, <2>2, TiersUntouched, IndexingHolds DEF Reindexes
    <2> QED
      BY <1>7, <2>1, <2>2
  <1>8. ASSUME NEW n \in Inferred, NEW t \in Tiers, SetsTierByHand(n, t)
        PROVE  PromotionsInv'
    <2>1. TiersHold
      BY <1>8, PromotionsAssumption
         DEF SetsTierByHand, TiersHold, Stands, WillStand, PromotionsInv, PromotionTypes
    <2> QED
      BY <1>0, <1>8, <1>9, <2>1 DEF SetsTierByHand
  <1>10. CASE UNCHANGED promotionVars
    BY <1>0, <1>9, <1>10, TiersUntouched DEF promotionVars, vaultVars
  <1> QED
    BY <1>1, <1>2, <1>3, <1>4, <1>5, <1>6, <1>7, <1>8, <1>10 DEF PromotionsNext

(* A line without an error, which takes a note out of all later runs, is   *)
(* only written of one that is raised in its file, or in the index if it   *)
(* has none, however many runs overlap, fail and die, and whatever is      *)
(* indexed, detached and changed beside them.                              *)
THEOREM LoggedNotesAreRaised == PromotionsSpec => []LoggedMeansRaised
  <1>1. PromotionsInv => LoggedMeansRaised
    BY DEF PromotionsInv
  <1> QED
    BY <1>1, PromotionsBegin, PromotionsStep, PTL DEF PromotionsSpec

-----------------------------------------------------------------------------
(* Outcomes.  What a transcript proves of a reading it goes on proving, and *)
(* nothing else, however it grows: the first line that says the note is    *)
(* used, the first call after it and its first success stay the first.     *)

LineType ==
  [kind : {"uses", "call", "ok", "failed"}, work : Works \cup {"none"}, task : Tasks,
   call : Nat, timed : BOOLEAN, at : Nat]

RowType ==
  [work : Works \cup {"none"}, version : Versions, read : BOOLEAN, at : Nat, actual : Nat]

OutcomeTypes ==
  /\ transcript \in Seq(LineType) /\ retrievals \in Seq(RowType)
  /\ retired \in [Works -> [at : Nat, by : Reason \cup {"none"}]]
  /\ OutcomesTypeOK

(* The lines of a proof, one by one.                                        *)
ProvesBy(r, i, j, k) ==
  /\ i \in First({x \in Lines : Attributes(x, r)})
  /\ j \in First({x \in Lines : CallsFor(x, i)})
  /\ k \in First({x \in Lines : SucceedsFor(x, j)})

LEMMA ProofLines ==
  ASSUME NEW r, NEW p
  PROVE  p \in Proofs(r) <=> \E i, j, k \in Lines : ProvesBy(r, i, j, k) /\ p = <<i, k>>
  <1>1. ASSUME p \in Proofs(r) PROVE \E i, j, k \in Lines : ProvesBy(r, i, j, k) /\ p = <<i, k>>
    <2>1. p \in Lines \X Lines /\ p = <<p[1], p[2]>>
      BY <1>1 DEF Proofs
    <2>2. PICK j \in Lines : ProvesBy(r, p[1], j, p[2])
      BY <1>1 DEF Proofs, ProvesBy
    <2> QED
      BY <2>1, <2>2
  <1>2. ASSUME NEW i \in Lines, NEW j \in Lines, NEW k \in Lines,
               ProvesBy(r, i, j, k), p = <<i, k>>
        PROVE  p \in Proofs(r)
    BY <1>2 DEF Proofs, ProvesBy
  <1> QED
    BY <1>1, <1>2

(* There is one first line of a kind at most.                               *)
LEMMA OneFirst ==
  ASSUME NEW S \in SUBSET Nat, NEW i \in First(S), NEW j \in First(S)
  PROVE  i = j
  BY DEF First

LEMMA OneProof ==
  ASSUME OutcomeTypes, NEW r, NEW p \in Proofs(r), NEW q \in Proofs(r)
  PROVE  p = q
  <1>0. Lines \subseteq Nat
    BY DEF Lines, OutcomeTypes
  <1>1. PICK i, j, k \in Lines : ProvesBy(r, i, j, k) /\ p = <<i, k>>
    BY ProofLines
  <1>2. PICK x, y, z \in Lines : ProvesBy(r, x, y, z) /\ q = <<x, z>>
    BY ProofLines
  <1>3. i = x
    <2>1. {l \in Lines : Attributes(l, r)} \in SUBSET Nat
      BY <1>0
    <2> QED
      BY <1>1, <1>2, <2>1, OneFirst DEF ProvesBy
  <1>4. j = y
    <2>1. {l \in Lines : CallsFor(l, i)} \in SUBSET Nat
      BY <1>0
    <2> QED
      BY <1>1, <1>2, <1>3, <2>1, OneFirst DEF ProvesBy
  <1>5. k = z
    <2>1. {l \in Lines : SucceedsFor(l, j)} \in SUBSET Nat
      BY <1>0
    <2> QED
      BY <1>1, <1>2, <1>4, <2>1, OneFirst DEF ProvesBy
  <1> QED
    BY <1>1, <1>2, <1>3, <1>5

(* A longer transcript.                                                     *)
LEMMA FirstStays ==
  ASSUME NEW n \in Nat, NEW S \in SUBSET (1..n), NEW T \in SUBSET (1..(n + 1)),
         T \cap (1..n) = S, NEW i \in First(S)
  PROVE  i \in First(T)
  <1>1. i \in S /\ \A j \in S : i <= j
    BY DEF First
  <1>2. ASSUME NEW j \in T PROVE i <= j
    <2>1. j \in S \/ j = n + 1
      OBVIOUS
    <2> QED
      BY <1>1, <2>1
  <1> QED
    BY <1>1, <1>2 DEF First

LEMMA ProofsStay ==
  ASSUME OutcomeTypes, NEW line \in LineType, transcript' = Append(transcript, line),
         NEW r, NEW p \in Proofs(r)
  PROVE  p \in Proofs(r)'
  <1> DEFINE n == Len(transcript)
  <1>0. /\ n \in Nat /\ Lines = 1..n /\ Lines' = 1..(n + 1)
        /\ \A x \in 1..n : transcript'[x] = transcript[x]
    BY DEF Lines, OutcomeTypes
  <1>1. PICK i, j, k \in Lines : ProvesBy(r, i, j, k) /\ p = <<i, k>>
    BY ProofLines
  <1>2. i \in First({x \in Lines' : Attributes(x, r)'})
    <2>1. {x \in Lines' : Attributes(x, r)'} \cap (1..n) = {x \in Lines : Attributes(x, r)}
      BY <1>0 DEF Attributes
    <2> QED
      BY <1>0, <1>1, <2>1, FirstStays DEF ProvesBy
  <1>3. j \in First({x \in Lines' : CallsFor(x, i)'})
    <2>1. {x \in Lines' : CallsFor(x, i)'} \cap (1..n) = {x \in Lines : CallsFor(x, i)}
      BY <1>0 DEF CallsFor
    <2> QED
      BY <1>0, <1>1, <2>1, FirstStays DEF ProvesBy
  <1>4. k \in First({x \in Lines' : SucceedsFor(x, j)'})
    <2>1. {x \in Lines' : SucceedsFor(x, j)'} \cap (1..n) = {x \in Lines : SucceedsFor(x, j)}
      BY <1>0 DEF SucceedsFor
    <2> QED
      BY <1>0, <1>1, <2>1, FirstStays DEF ProvesBy
  <1>5. i \in Lines' /\ j \in Lines' /\ k \in Lines'
    BY <1>0, <1>1
  <1>6. p \in Lines' \X Lines'
    BY <1>1, <1>5
  <1>7. p[1] = i /\ p[2] = k
    BY <1>1
  <1> QED
    BY <1>2, <1>3, <1>4, <1>5, <1>6, <1>7 DEF Proofs, First

-----------------------------------------------------------------------------
(* The invariant.  A row is stamped less than a second before it is made; a *)
(* result is of the task that was called; and an outcome is what some row  *)
(* of its note and version proved, if it says helped, and was the subject  *)
(* of, in any case.                                                        *)
RowsTimed ==
  \A n \in DOMAIN retrievals : retrievals[n].actual < retrievals[n].at + TickOf

ResultsCalled ==
  \A k \in Lines : transcript[k].kind = "ok" =>
    /\ transcript[k].call \in Lines
    /\ transcript[k].task = transcript[transcript[k].call].task

About(n, o) == retrievals[n].work = o.work /\ retrievals[n].version = o.version

Proven(n, o) == About(n, o) /\ retrievals[n].read /\ o.ref \in Proofs(retrievals[n])

OutcomesBacked ==
  \A o \in outcomes :
    /\ o = OutcomeOf(o, o.outcome, o.ref)
    /\ \E n \in DOMAIN retrievals : About(n, o)
    /\ o.outcome = "helped" => \E n \in DOMAIN retrievals : Proven(n, o)

OutcomesInv == OutcomeTypes /\ RowsTimed /\ ResultsCalled /\ OutcomesBacked

LEMMA OutcomesBegin == OutcomesInit => OutcomesInv
  <1>1. (CHOOSE v \in Versions : TRUE) \in Versions
    BY OutcomesAssumption
  <1> QED
    BY <1>1, OutcomesAssumption
    DEF OutcomesInit, OutcomesInv, OutcomeTypes, OutcomesTypeOK, RowsTimed, ResultsCalled,
        OutcomesBacked, Live, Lines

(* The stamp of a row.                                                      *)
LEMMA WholeBounds ==
  ASSUME NEW t \in Nat
  PROVE  Whole(t) \in Nat /\ Whole(t) <= t /\ t < Whole(t) + TickOf
  <1>1. TickOf \in Nat \ {0}
    BY OutcomesAssumption
  <1>2. t % TickOf \in 0..(TickOf - 1) /\ t % TickOf <= t
    BY <1>1
  <1> QED
    BY <1>1, <1>2 DEF Whole

(* What a row says of an outcome, while nothing is added to the transcript.*)
LEMMA StillProven ==
  ASSUME NEW n, NEW o, UNCHANGED transcript, retrievals'[n] = retrievals[n]
  PROVE  (About(n, o)' <=> About(n, o)) /\ (Proven(n, o)' <=> Proven(n, o))
  <1>1. ASSUME NEW r PROVE Proofs(r)' = Proofs(r)
    BY DEF Proofs, Lines, Attributes, CallsFor, SucceedsFor
  <1>2. Proofs(retrievals[n])' = Proofs(retrievals[n])
    <2> SUFFICES ASSUME NEW r, r = retrievals[n] PROVE Proofs(r)' = Proofs(r)
      OBVIOUS
    <2> QED
      BY <1>1
  <1> QED
    BY <1>2 DEF About, Proven

(* A sweep.                                                                 *)
LEMMA SweptOutcome ==
  ASSUME OutcomesInv, RecordsOutcomes, NEW o \in Corrected \cup Helped
  PROVE  /\ o = OutcomeOf(o, o.outcome, o.ref)
         /\ o.work \in Works /\ o.version \in Versions
         /\ \E n \in DOMAIN retrievals : About(n, o)
         /\ o.outcome = "helped" => \E n \in DOMAIN retrievals : Proven(n, o)
  <1>1. CASE o \in Corrected
    <2>1. PICK n \in Shown :
            o = OutcomeOf(retrievals[n], "corrected", retired[retrievals[n].work].by)
      BY <1>1 DEF Corrected
    <2>2. /\ n \in DOMAIN retrievals /\ retrievals[n].work \in Works
          /\ retrievals[n].version \in Versions
      BY <2>1 DEF Shown, OutcomesInv, OutcomeTypes, OutcomesTypeOK
    <2> QED
      BY <2>1, <2>2 DEF OutcomeOf, About
  <1>2. CASE o \in Helped
    <2>1. PICK n \in Read : o \in {OutcomeOf(retrievals[n], "helped", p) : p \in Proofs(retrievals[n])}
      BY <1>2 DEF Helped
    <2>2. PICK p \in Proofs(retrievals[n]) : o = OutcomeOf(retrievals[n], "helped", p)
      BY <2>1
    <2>3. /\ n \in DOMAIN retrievals /\ retrievals[n].work \in Works
          /\ retrievals[n].version \in Versions /\ retrievals[n].read
      BY <2>1 DEF Read, Shown, OutcomesInv, OutcomeTypes, OutcomesTypeOK
    <2> QED
      BY <2>2, <2>3 DEF OutcomeOf, About, Proven
  <1> QED
    BY <1>1, <1>2

LEMMA SweepKeeps == OutcomesInv /\ RecordsOutcomes => OutcomesInv'
  <1> SUFFICES ASSUME OutcomesInv, RecordsOutcomes PROVE OutcomesInv'
    OBVIOUS
  <1>1. OutcomeTypes'
    BY SweptOutcome DEF OutcomesInv, OutcomeTypes, OutcomesTypeOK, RecordsOutcomes
  <1>2. (\A n, o : About(n, o)' <=> About(n, o)) /\ (\A n, o : Proven(n, o)' <=> Proven(n, o))
    BY StillProven DEF RecordsOutcomes
  <1>3. OutcomesBacked'
    BY <1>2, SweptOutcome DEF OutcomesInv, OutcomesBacked, RecordsOutcomes
  <1>4. RowsTimed' /\ ResultsCalled'
    BY DEF OutcomesInv, RowsTimed, ResultsCalled, Lines, RecordsOutcomes
  <1> QED
    BY <1>1, <1>3, <1>4 DEF OutcomesInv

(* A retrieval.                                                             *)
LEMMA RetrievalKeeps ==
  ASSUME OutcomesInv, NEW w \in Works, NEW read \in BOOLEAN, Retrieves(w, read)
  PROVE  OutcomesInv'
  <1> DEFINE row == [work |-> w, version |-> current[w], read |-> read,
                     at |-> Whole(time), actual |-> time]
  <1>0. time \in Nat /\ Whole(time) \in Nat /\ Whole(time) <= time /\ time < Whole(time) + TickOf
    BY WholeBounds DEF OutcomesInv, OutcomeTypes, OutcomesTypeOK
  <1>1. row \in RowType /\ row.at <= row.actual /\ row.actual < row.at + TickOf
        /\ row.work \in Works /\ row.version \in Versions
    BY <1>0 DEF RowType, OutcomesInv, OutcomeTypes, OutcomesTypeOK
  <1>2. retrievals' = Append(retrievals, row)
    BY DEF Retrieves
  <1> HIDE DEF row
  <1>3. /\ retrievals \in Seq(RowType) /\ retrievals' \in Seq(RowType)
        /\ DOMAIN retrievals' = DOMAIN retrievals \cup {Len(retrievals) + 1}
        /\ \A n \in DOMAIN retrievals : retrievals'[n] = retrievals[n]
        /\ retrievals'[Len(retrievals) + 1] = row
    BY <1>1, <1>2 DEF OutcomesInv, OutcomeTypes
  <1>4. OutcomeTypes'
    BY <1>1, <1>3 DEF OutcomesInv, OutcomeTypes, OutcomesTypeOK, Retrieves
  <1>5. RowsTimed'
    BY <1>1, <1>3 DEF OutcomesInv, RowsTimed
  <1>6. ASSUME NEW n \in DOMAIN retrievals, NEW o
        PROVE  (About(n, o)' <=> About(n, o)) /\ (Proven(n, o)' <=> Proven(n, o))
    BY <1>3, <1>6, StillProven DEF Retrieves
  <1>7. OutcomesBacked'
    BY <1>3, <1>6 DEF OutcomesInv, OutcomesBacked, Retrieves
  <1>8. ResultsCalled'
    BY DEF OutcomesInv, ResultsCalled, Lines, Retrieves
  <1> QED
    BY <1>4, <1>5, <1>7, <1>8 DEF OutcomesInv

(* A line.                                                                  *)
LEMMA LineKeeps ==
  ASSUME OutcomesInv, NEW line \in LineType, Says(line),
         line.kind = "ok" => line.call \in Lines /\ line.task = transcript[line.call].task
  PROVE  OutcomesInv'
  <1>1. /\ transcript' \in Seq(LineType)
        /\ Lines' = Lines \cup {Len(transcript) + 1}
        /\ \A i \in Lines : transcript'[i] = transcript[i]
        /\ transcript'[Len(transcript) + 1] = line
    BY DEF OutcomesInv, OutcomeTypes, Says, Lines
  <1>2. OutcomeTypes' /\ RowsTimed'
    BY <1>1 DEF OutcomesInv, OutcomeTypes, OutcomesTypeOK, RowsTimed, Says
  <1>3. ResultsCalled'
    BY <1>1 DEF OutcomesInv, ResultsCalled
  <1>4. ASSUME NEW n, NEW o, Proven(n, o) PROVE Proven(n, o)'
    <2>1. transcript' = Append(transcript, line) /\ UNCHANGED retrievals
      BY DEF Says
    <2>2. OutcomeTypes /\ o.ref \in Proofs(retrievals[n])
      BY <1>4 DEF OutcomesInv, Proven
    <2> DEFINE r == retrievals[n]
               ref == o.ref
    <2>3. ref \in Proofs(r)'
      <3> SUFFICES ASSUME NEW s, s = r, NEW p, p = ref PROVE p \in Proofs(s)'
        BY <2>1
      <3> QED
        BY <2>1, <2>2, ProofsStay
    <2> QED
      BY <1>4, <2>1, <2>3 DEF Proven, About
  <1>5. OutcomesBacked'
    BY <1>4 DEF OutcomesInv, OutcomesBacked, Says, About
  <1> QED
    BY <1>2, <1>3, <1>5 DEF OutcomesInv

(* What is done to a note: its rows are kept, but for those of a note that *)
(* is deleted, of which there are no outcomes then.                        *)
LEMMA TurnKeeps ==
  ASSUME OutcomesInv, NEW w \in Works,
         \/ \E v \in Versions : Edits(w, v)
         \/ \E by \in Reason : Retires(w, by)
         \/ Reinstates(w)
  PROVE  OutcomesInv'
  <1>0. Whole(time) \in Nat
    BY WholeBounds DEF OutcomesInv, OutcomeTypes, OutcomesTypeOK
  <1>1. UNCHANGED <<time, transcript, retrievals, outcomes>>
    BY DEF Edits, Retires, Reinstates, Turn
  <1>2. retired' \in [Works -> [at : Nat, by : Reason \cup {"none"}]]
    BY <1>0 DEF Edits, Retires, Reinstates, Turn, OutcomesInv, OutcomeTypes, Live
  <1>3. current' \in [Works -> Versions]
    BY DEF Edits, Retires, Reinstates, Turn, OutcomesInv, OutcomeTypes, OutcomesTypeOK
  <1>4. OutcomeTypes' /\ RowsTimed' /\ ResultsCalled'
    BY <1>1, <1>2, <1>3
    DEF OutcomesInv, OutcomeTypes, OutcomesTypeOK, RowsTimed, ResultsCalled, Lines
  <1>5. OutcomesBacked'
    BY <1>1, StillProven DEF OutcomesInv, OutcomesBacked
  <1> QED
    BY <1>4, <1>5 DEF OutcomesInv

LEMMA DeletionKeeps ==
  ASSUME OutcomesInv, NEW w \in Works, Deletes(w)
  PROVE  OutcomesInv'
  <1>1. retrievals \in Seq(RowType) /\ retrievals' = [n \in DOMAIN retrievals |-> Orphaned(retrievals[n], w)]
    BY DEF OutcomesInv, OutcomeTypes, Deletes
  <1>2. ASSUME NEW row \in RowType
        PROVE  /\ Orphaned(row, w) \in RowType
               /\ Orphaned(row, w).at = row.at /\ Orphaned(row, w).actual = row.actual
               /\ Orphaned(row, w).version = row.version
               /\ row.work # w => Orphaned(row, w) = row
    BY DEF Orphaned, RowType
  <1>3. /\ retrievals' \in Seq(RowType) /\ DOMAIN retrievals' = DOMAIN retrievals
        /\ \A n \in DOMAIN retrievals : retrievals[n] \in RowType
    BY <1>1, <1>2
  <1>4. retired' \in [Works -> [at : Nat, by : Reason \cup {"none"}]]
    BY DEF Deletes, OutcomesInv, OutcomeTypes, Live
  <1>5. OutcomesTypeOK'
    BY <1>1, <1>2, <1>3 DEF Deletes, Turn, OutcomesInv, OutcomeTypes, OutcomesTypeOK, RowType
  <1>6. OutcomeTypes'
    BY <1>3, <1>4, <1>5 DEF Deletes, Turn, OutcomesInv, OutcomeTypes
  <1>7. RowsTimed' /\ ResultsCalled'
    BY <1>1, <1>2, <1>3 DEF Deletes, Turn, OutcomesInv, RowsTimed, ResultsCalled, Lines
  <1>8. ASSUME NEW n \in DOMAIN retrievals, NEW o, o.work # w, About(n, o)
        PROVE  About(n, o)' /\ (Proven(n, o) => Proven(n, o)')
    <2>1. retrievals'[n] = retrievals[n]
      BY <1>1, <1>2, <1>3, <1>8 DEF About
    <2> QED
      BY <1>8, <2>1, StillProven DEF Deletes, Turn
  <1>9. OutcomesBacked'
    BY <1>3, <1>8 DEF OutcomesInv, OutcomesBacked, Deletes, Proven
  <1> QED
    BY <1>6, <1>7, <1>9 DEF OutcomesInv

LEMMA OutcomesStep == OutcomesInv /\ [OutcomesNext]_outcomeVars => OutcomesInv'
  <1> SUFFICES ASSUME OutcomesInv, [OutcomesNext]_outcomeVars PROVE OutcomesInv'
    OBVIOUS
  <1>0. time \in Nat /\ Lines \subseteq Nat /\ \A i \in Lines : transcript[i] \in LineType
    BY DEF OutcomesInv, OutcomeTypes, OutcomesTypeOK, Lines
  <1>1. CASE RecordsOutcomes
    BY <1>1, SweepKeeps
  <1>2. ASSUME NEW w \in Works, NEW read \in BOOLEAN, Retrieves(w, read) PROVE OutcomesInv'
    BY <1>2, RetrievalKeeps
  <1>3. ASSUME NEW w \in Works, NEW t \in Tasks, NEW timed \in BOOLEAN, Uses(w, t, timed)
        PROVE  OutcomesInv'
    BY <1>0, <1>3, LineKeeps DEF Uses, LineType
  <1>4. ASSUME NEW t \in Tasks, Calls(t) PROVE OutcomesInv'
    BY <1>0, <1>4, LineKeeps DEF Calls, LineType
  <1>5. ASSUME NEW j \in Lines, NEW how \in {"ok", "failed"}, Results(j, how) PROVE OutcomesInv'
    BY <1>0, <1>5, LineKeeps DEF Results, LineType
  <1>6. ASSUME NEW w \in Works,
               \/ \E v \in Versions : Edits(w, v)
               \/ \E by \in Reason : Retires(w, by)
               \/ Reinstates(w)
        PROVE  OutcomesInv'
    BY <1>6, TurnKeeps
  <1>7. ASSUME NEW w \in Works, Deletes(w) PROVE OutcomesInv'
    BY <1>7, DeletionKeeps
  <1>8. CASE TimePasses \/ UNCHANGED outcomeVars
    <2>1. UNCHANGED <<retrievals, transcript, current, retired, outcomes>> /\ time' \in Nat
      BY <1>0, <1>8 DEF TimePasses, outcomeVars
    <2> QED
      BY <2>1, StillProven
      DEF OutcomesInv, OutcomeTypes, OutcomesTypeOK, RowsTimed, ResultsCalled, OutcomesBacked, Lines
  <1> QED
    BY <1>1, <1>2, <1>3, <1>4, <1>5, <1>6, <1>7, <1>8 DEF OutcomesNext

(* Each helped outcome of a version has a reading of it of its own.         *)
LEMMA OneReadingEach ==
  ASSUME OutcomesInv, NEW w \in Works, NEW v \in Versions
  PROVE  Cardinality(OutcomesOf(w, v, "helped")) <= Cardinality(ReadsOf(w, v))
  <1> DEFINE H == OutcomesOf(w, v, "helped")
             R == ReadsOf(w, v)
             reading == [o \in H |-> CHOOSE n \in R : Proven(n, o)]
  <1>1. ASSUME NEW o \in H PROVE reading[o] \in R /\ Proven(reading[o], o)
    <2>1. \E n \in R : Proven(n, o)
      BY DEF OutcomesInv, OutcomesBacked, OutcomesOf, ReadsOf, Proven, About
    <2> QED
      BY <2>1
  <1>2. ASSUME NEW o \in H, NEW q \in H, reading[o] = reading[q] PROVE o = q
    <2>1. o.ref = q.ref
      BY <1>1, <1>2, OneProof DEF OutcomesInv, Proven
    <2>2. /\ o = OutcomeOf(o, o.outcome, o.ref) /\ q = OutcomeOf(q, q.outcome, q.ref)
          /\ o.work = q.work /\ o.version = q.version /\ o.outcome = q.outcome
      BY DEF OutcomesInv, OutcomesBacked, OutcomesOf
    <2> QED
      BY <2>1, <2>2 DEF OutcomeOf
  <1>3. reading \in Injection(H, R)
    <2>1. reading \in [H -> R]
      BY <1>1
    <2> HIDE DEF reading, H, R
    <2> QED
      BY <1>2, <2>1, Fun_IsInj
  <1>4. IsFiniteSet(R)
    <2>1. DOMAIN retrievals = 1..Len(retrievals) /\ Len(retrievals) \in Nat
      BY DEF OutcomesInv, OutcomeTypes
    <2>2. IsFiniteSet(DOMAIN retrievals)
      BY <2>1, FS_Interval
    <2> QED
      BY <2>2, FS_Subset DEF ReadsOf
  <1> QED
    BY <1>3, <1>4, FS_Injection

(* The outcomes that a session's transcript leaves, read again and again   *)
(* as it grows while notes are edited, superseded and deleted, are earned: *)
(* no more helped outcomes of a version than readings of it, each by a call*)
(* that succeeded after the note was named for it.                         *)
THEOREM OutcomesEarned == OutcomesSpec => []OutcomesAreEarned
  <1>1. OutcomesInv => OutcomesAreEarned
    <2> SUFFICES ASSUME OutcomesInv, NEW w \in Works, NEW v \in Versions
                 PROVE  /\ Cardinality(OutcomesOf(w, v, "helped")) <= Cardinality(ReadsOf(w, v))
                        /\ \A o \in OutcomesOf(w, v, "helped") : \E n \in ReadsOf(w, v) :
                             /\ o.ref[1] < o.ref[2]
                             /\ transcript[o.ref[1]].work = w /\ transcript[o.ref[2]].kind = "ok"
                             /\ transcript[o.ref[1]].task = transcript[o.ref[2]].task
                             /\ transcript[o.ref[1]].timed =>
                                  retrievals[n].actual < transcript[o.ref[1]].at + TickOf
                        /\ Adjustment(w) # "none" => \E n \in DOMAIN retrievals :
                             retrievals[n].work = w /\ retrievals[n].version = current[w]
      BY DEF OutcomesAreEarned
    <2>1. ASSUME NEW o \in OutcomesOf(w, v, "helped")
          PROVE  \E n \in ReadsOf(w, v) :
                   /\ o.ref[1] < o.ref[2]
                   /\ transcript[o.ref[1]].work = w /\ transcript[o.ref[2]].kind = "ok"
                   /\ transcript[o.ref[1]].task = transcript[o.ref[2]].task
                   /\ transcript[o.ref[1]].timed =>
                        retrievals[n].actual < transcript[o.ref[1]].at + TickOf
      <3>1. PICK n \in DOMAIN retrievals : Proven(n, o)
        BY DEF OutcomesInv, OutcomesBacked, OutcomesOf
      <3>2. n \in ReadsOf(w, v)
        BY <3>1 DEF ReadsOf, OutcomesOf, Proven, About
      <3>3. PICK i, j, k \in Lines : ProvesBy(retrievals[n], i, j, k) /\ o.ref = <<i, k>>
        BY <3>1, ProofLines DEF Proven
      <3>4. Attributes(i, retrievals[n]) /\ CallsFor(j, i) /\ SucceedsFor(k, j)
        BY <3>3 DEF ProvesBy, First
      <3>5. /\ i \in Nat /\ j \in Nat /\ k \in Nat
            /\ transcript[i].at \in Nat /\ TickOf \in Nat
            /\ retrievals[n].at \in Nat /\ retrievals[n].actual \in Nat
            /\ retrievals[n].actual < retrievals[n].at + TickOf
        <4>1. transcript[i] \in LineType /\ i \in Nat /\ j \in Nat /\ k \in Nat
          BY <3>3 DEF Lines, OutcomesInv, OutcomeTypes
        <4>2. retrievals[n] \in RowType
          BY <3>1 DEF OutcomesInv, OutcomeTypes
        <4> QED
          BY <4>1, <4>2, OutcomesAssumption DEF LineType, RowType, OutcomesInv, RowsTimed
      <3>6. /\ i < k
            /\ transcript[i].timed => retrievals[n].actual < transcript[i].at + TickOf
        BY <3>4, <3>5 DEF Attributes, CallsFor, SucceedsFor
      <3>7. transcript[i].work = w /\ transcript[k].kind = "ok"
            /\ transcript[i].task = transcript[k].task
        BY <3>2, <3>3, <3>4
        DEF Attributes, CallsFor, SucceedsFor, ReadsOf, OutcomesInv, ResultsCalled
      <3>8. o.ref[1] = i /\ o.ref[2] = k
        BY <3>3
      <3> QED
        BY <3>2, <3>6, <3>7, <3>8
    <2>2. ASSUME Adjustment(w) # "none"
          PROVE  \E n \in DOMAIN retrievals :
                   retrievals[n].work = w /\ retrievals[n].version = current[w]
      <3>1. PICK o \in outcomes : o.work = w /\ o.version = current[w]
        BY <2>2 DEF Adjustment
      <3> QED
        BY <3>1 DEF OutcomesInv, OutcomesBacked, About
    <2> QED
      BY <2>1, <2>2, OneReadingEach
  <1> QED
    BY <1>1, OutcomesBegin, OutcomesStep, PTL DEF OutcomesSpec

-----------------------------------------------------------------------------
(* Migration.                                                              *)

(* A set of positions that has the first and with each the next has all.   *)
LEMMA Upwards ==
  ASSUME NEW N \in Nat, NEW S, S \subseteq 0..N, 0 \in S,
         \A k \in S : k < N => k + 1 \in S
  PROVE  S = 0..N
  <1> DEFINE F == {0..k : k \in (0..N) \ S}
             R == StrictSubsetOrdering(0..N)
  <1>1. IsWellFoundedOn(R, SUBSET (0..N))
    <2>1. IsFiniteSet(0..N)
      BY FS_Interval
    <2> QED
      BY <2>1, FS_FiniteSubsetsOfFinite, FS_StrictSubsetOrderingWellFounded
  <1> SUFFICES ASSUME F # {} PROVE FALSE
    OBVIOUS
  <1>2. F \subseteq SUBSET (0..N)
    OBVIOUS
  <1> HIDE DEF R
  <1>3. \E x \in F : \A y \in F : <<y, x>> \notin R
    BY <1>1, <1>2, WFMin
  <1>4. PICK m \in (0..N) \ S : \A y \in F : <<y, 0..m>> \notin R
    BY <1>3
  <1>5. m # 0 /\ m - 1 \in 0..N /\ m - 1 \notin S
    <2>1. m # 0 /\ m - 1 \in 0..N
      OBVIOUS
    <2> QED
      BY <2>1
  <1>6. 0..(m - 1) \in F
    BY <1>5
  <1>7. <<0..(m - 1), 0..m>> \in R
    <2>1. 0..(m - 1) \subseteq 0..m /\ m \in 0..m /\ m \notin 0..(m - 1)
      BY <1>5
    <2>2. 0..(m - 1) \in SUBSET (0..N) /\ 0..m \in SUBSET (0..N)
      BY <1>5
    <2> QED
      BY <2>1, <2>2 DEF R, StrictSubsetOrdering
  <1> QED
    BY <1>4, <1>6, <1>7

Unplanned == [ops |-> <<>>, seen |-> [b \in Bodies |-> Nothing], files |-> files]

Steps(f, n) == f[0] = Unplanned /\ \A i \in 1..n : f[i] = Planned(f[i - 1], Order[i])

LEMMA PlanSteps == PlanAfter[0] = Unplanned
                   /\ \A i \in 1..Len(Order) : PlanAfter[i] = Planned(PlanAfter[i - 1], Order[i])
  <1> DEFINE N == Len(Order)
             Body(f) == [i \in 0..N |-> IF i = 0 THEN Unplanned ELSE Planned(f[i - 1], Order[i])]
  <1>0. N \in Nat
    BY MigrationAssumption
  <1>1. \E f : f = Body(f)
    <2> DEFINE S == {n \in 0..N : \E f : f = [i \in 0..N |-> f[i]] /\ Steps(f, n)}
    <2>1. 0 \in S
      <3> DEFINE f == [i \in 0..N |-> Unplanned]
      <3>1. f = [i \in 0..N |-> f[i]] /\ Steps(f, 0)
        BY <1>0 DEF Steps
      <3> QED
        BY <1>0, <3>1
    <2>2. ASSUME NEW k \in S, k < N PROVE k + 1 \in S
      <3>1. PICK f : f = [i \in 0..N |-> f[i]] /\ Steps(f, k)
        OBVIOUS
      <3> DEFINE next == Planned(f[k], Order[k + 1])
                 g == [i \in 0..N |-> IF i = k + 1 THEN next ELSE f[i]]
      <3> HIDE DEF next
      <3>2. g = [i \in 0..N |-> g[i]]
        OBVIOUS
      <3>3. \A i \in 0..N : g[i] = IF i = k + 1 THEN next ELSE f[i]
        OBVIOUS
      <3> HIDE DEF g
      <3>4. Steps(g, k + 1)
        <4>1. g[0] = Unplanned
          BY <1>0, <3>1, <3>3 DEF Steps
        <4>2. ASSUME NEW i \in 1..(k + 1) PROVE g[i] = Planned(g[i - 1], Order[i])
          <5>1. i \in 0..N /\ i - 1 \in 0..N /\ i - 1 # k + 1
            BY <1>0, <2>2
          <5>2. g[i - 1] = f[i - 1]
            BY <3>3, <5>1
          <5>3. CASE i = k + 1
            BY <3>3, <5>1, <5>2, <5>3 DEF next
          <5>4. CASE i # k + 1
            <6>1. i \in 1..k /\ g[i] = f[i]
              BY <3>3, <5>1, <5>4
            <6> QED
              BY <3>1, <5>2, <6>1 DEF Steps
          <5> QED
            BY <5>3, <5>4
        <4> QED
          BY <4>1, <4>2 DEF Steps
      <3>5. k + 1 \in 0..N
        BY <1>0, <2>2
      <3> QED
        BY <3>2, <3>4, <3>5
    <2>3. S \subseteq 0..N
      OBVIOUS
    <2> HIDE DEF S
    <2>4. S = 0..N
      BY <1>0, <2>1, <2>2, <2>3, Upwards
    <2>5. N \in S
      BY <1>0, <2>4
    <2>6. PICK f : f = [i \in 0..N |-> f[i]] /\ Steps(f, N)
      BY <2>5 DEF S
    <2>7. \A i \in 0..N : f[i] = IF i = 0 THEN Unplanned ELSE Planned(f[i - 1], Order[i])
      BY <1>0, <2>6 DEF Steps
    <2>8. f = Body(f)
      BY <2>6, <2>7
    <2> QED
      BY <2>8
  <1>2. PlanAfter = Body(PlanAfter)
    BY <1>1 DEF PlanAfter, Unplanned
  <1>3. \A i \in 0..N : PlanAfter[i] = IF i = 0 THEN Unplanned ELSE Planned(PlanAfter[i - 1], Order[i])
    BY <1>2
  <1> QED
    BY <1>0, <1>3

-----------------------------------------------------------------------------
Vault == [VaultPaths -> File \cup {Nothing}]
SourceType == [Notes -> Source]

Has(vault, n, p) == vault[p] # Nothing /\ vault[p].owner = n

(* Nothing in it is the user's, for all that its source tells.             *)
Pristine(f, s, upto) ==
  ~TextOfUser(f, s, upto) /\ \A k \in Fields : ~EntryOfUser(f, k, s, upto)

(* What is written over a file keeps what is the user's.                   *)
Absorbs(g, f, s, upto) ==
  \/ f = g
  \/ /\ ~TextOfUser(f, s, upto)
     /\ \A k \in Fields : f.front[k] # Nothing => g.front[k] = f.front[k]
     /\ f.tags \subseteq g.tags

(* What an operation may take for its own, those changed late apart.       *)
OpOK(op, vault, upto, s) ==
  /\ op.kind \in {"write", "replace"} =>
       op.content.owner = op.note /\ op.out \notin op.remove
  /\ \A p \in op.remove \ upto : Has(vault, op.note, p) => Pristine(vault[p], s, upto)
  /\ op.kind = "replace" /\ op.out \notin upto /\ Has(vault, op.note, op.out) =>
       Absorbs(op.content, vault[op.out], s, upto)

OpsOK(ops, vault, upto, s) ==
  /\ ops \in Seq(Operations)
  /\ \A i, j \in DOMAIN ops : ops[i].note = ops[j].note => i = j
  /\ \A i \in DOMAIN ops : OpOK(ops[i], vault, upto, s)

(* A note of which nothing is taken for the user's, and stays so if what   *)
(* is to be written is.                                                    *)
Calm(n, s, vault) ==
  Plain(s[n]) /\ \A p \in OwnedBy(vault, n) : ~Enriched(s[n], vault[p])

CalmOp(op, s) ==
  op.write => op.content.imported # Nothing /\ ~Enriched(s[op.note], op.content)

Earlier(k) == {Order[i] : i \in 1..k}

Passed(f, k) == f = Nothing \/ f.owner \in Earlier(k)

(* What a plan makes of the vault up to a note: files of the notes so far. *)
PlanOK(plan, vault, k) ==
  /\ plan.files \in Vault
  /\ plan.seen \in [Bodies -> Operations \cup {Nothing}]
  /\ OpsOK(plan.ops, vault, {}, src)
  /\ \A i \in DOMAIN plan.ops : plan.ops[i].note \in Earlier(k)
  /\ \A i \in DOMAIN plan.ops :
       Calm(plan.ops[i].note, src, vault) => CalmOp(plan.ops[i], src)
  /\ \A p \in VaultPaths :
       \/ plan.files[p] = vault[p]
       \/ /\ Passed(vault[p], k)
          /\ plan.files[p] = Nothing \/ (plan.files[p].owner = p[1] /\ p[1] \in Earlier(k))

(* The next note of the order is a new one.                                *)
LEMMA NoteAhead ==
  ASSUME NEW k \in 0..Len(Order), k < Len(Order)
  PROVE  /\ k + 1 \in DOMAIN Order /\ Order[k + 1] \in Notes
         /\ Order[k + 1] \notin Earlier(k)
         /\ Earlier(k + 1) = Earlier(k) \cup {Order[k + 1]}
         /\ Earlier(k) \subseteq Notes
  <1>1. Order \in Seq(Notes) /\ Len(Order) \in Nat /\ DOMAIN Order = 1..Len(Order)
    BY MigrationAssumption
  <1>2. k + 1 \in DOMAIN Order /\ Order[k + 1] \in Notes /\ 1..k \subseteq DOMAIN Order
    BY <1>1
  <1>3. ASSUME NEW i \in 1..k PROVE Order[i] # Order[k + 1] /\ Order[i] \in Notes
    BY <1>1, <1>2, MigrationAssumption
  <1>4. 1..(k + 1) = (1..k) \cup {k + 1}
    BY <1>1
  <1> QED
    BY <1>2, <1>3, <1>4 DEF Earlier

LEMMA OutIsFree ==
  ASSUME src \in SourceType, NEW vault, vault \in Vault, NEW n \in Notes,
         HasRoom(n, vault)
  PROVE  /\ OutOf(n, vault) \in VaultPaths /\ OutOf(n, vault)[1] = n
         /\ vault[OutOf(n, vault)] = Nothing \/ vault[OutOf(n, vault)].owner = n
  <1> DEFINE Free(i) == vault[<<n, src[n].home, i>>] = Nothing
                        \/ vault[<<n, src[n].home, i>>].owner = n
             Leads(i) == Free(i) /\ \A j \in 0..(i - 1) : ~Free(j)
  <1>0. MaxSuffix \in Nat /\ src[n].home \in Homes
    BY MigrationAssumption DEF SourceType, Source
  <1>1. \E i \in 0..MaxSuffix : Leads(i)
    <2> SUFFICES ASSUME \A i \in 0..MaxSuffix : ~Leads(i) PROVE FALSE
      OBVIOUS
    <2> DEFINE S == {k \in 0..MaxSuffix : \A j \in 0..k : ~Free(j)}
    <2>0. \E i \in 0..MaxSuffix : Free(i)
      BY DEF HasRoom
    <2> HIDE DEF Free
    <2>1. 0 \in S
      <3>1. ~Leads(0) /\ 0..(0 - 1) = {} /\ 0..0 = {0}
        BY <1>0
      <3> QED
        BY <1>0, <3>1
    <2>2. ASSUME NEW k \in S, k < MaxSuffix PROVE k + 1 \in S
      <3>1. k + 1 \in 0..MaxSuffix /\ 0..(k + 1) = (0..k) \cup {k + 1} /\ (k + 1) - 1 = k
        BY <1>0, <2>2
      <3>2. ~Leads(k + 1)
        BY <3>1
      <3> QED
        BY <3>1, <3>2
    <2>3. S = 0..MaxSuffix
      <3>1. S \subseteq 0..MaxSuffix
        OBVIOUS
      <3> HIDE DEF S
      <3> QED
        BY <1>0, <2>1, <2>2, <3>1, Upwards
    <2>4. PICK i \in 0..MaxSuffix : Free(i)
      BY <2>0
    <2>5. i \in S /\ i \in 0..i
      BY <1>0, <2>3
    <2> QED
      BY <2>4, <2>5
  <1> DEFINE m == CHOOSE i \in 0..MaxSuffix : Leads(i)
  <1>2. m \in 0..MaxSuffix /\ Leads(m)
    BY <1>1
  <1>3. OutOf(n, vault) = <<n, src[n].home, m>>
    BY DEF OutOf
  <1> HIDE DEF m
  <1> QED
    BY <1>0, <1>2, <1>3 DEF VaultPaths

(* The next note to plan for, with the vault it was read with.             *)
Reached(plan, vault, k, n) ==
  /\ vault \in Vault
  /\ k \in 0..Len(Order) /\ k < Len(Order) /\ n = Order[k + 1]
  /\ PlanOK(plan, vault, k)
  /\ HasRoom(n, vault)

LEMMA ReachedNote ==
  ASSUME NEW plan, NEW vault, NEW k, NEW n, Reached(plan, vault, k, n)
  PROVE  /\ n \in Notes /\ n \notin Earlier(k) /\ Earlier(k + 1) = Earlier(k) \cup {n}
         /\ plan.files \in Vault /\ vault \in Vault
         /\ plan.seen \in [Bodies -> Operations \cup {Nothing}]
  BY NoteAhead DEF Reached, PlanOK

(* The files a plan takes for a note's are those that are.                 *)
LEMMA SameFiles ==
  ASSUME NEW plan, NEW vault, NEW k, NEW n, Reached(plan, vault, k, n), NEW p \in VaultPaths
  PROVE  /\ Has(plan.files, n, p) => plan.files[p] = vault[p]
         /\ Has(vault, n, p) => plan.files[p] = vault[p]
  <1>1. n \notin Earlier(k) /\ n # Nothing
    BY ReachedNote, MigrationAssumption
  <1>2. \/ plan.files[p] = vault[p]
        \/ /\ vault[p] = Nothing \/ vault[p].owner \in Earlier(k)
           /\ plan.files[p] = Nothing \/ plan.files[p].owner \in Earlier(k)
    BY DEF Reached, PlanOK, Passed
  <1> QED
    BY <1>1, <1>2 DEF Has

LEMMA RoomLeft ==
  ASSUME src \in SourceType, NEW plan, NEW vault, NEW k, NEW n, Reached(plan, vault, k, n)
  PROVE  HasRoom(n, plan.files)
  <1>1. PICK i \in 0..MaxSuffix :
          vault[<<n, src[n].home, i>>] = Nothing \/ vault[<<n, src[n].home, i>>].owner = n
    BY DEF Reached, HasRoom
  <1>2. n \in Notes /\ n \notin Earlier(k)
    BY ReachedNote
  <1> DEFINE p == <<n, src[n].home, i>>
  <1>3. p \in VaultPaths /\ p[1] = n
    BY <1>2 DEF VaultPaths, SourceType, Source
  <1> HIDE DEF p
  <1>4. plan.files[p] = vault[p] \/ plan.files[p] = Nothing
    BY <1>2, <1>3 DEF Reached, PlanOK, Passed
  <1>5. plan.files[p] = Nothing \/ plan.files[p].owner = n
    BY <1>1, <1>4 DEF p
  <1> QED
    BY <1>5 DEF p, HasRoom

LEMMA SourceParts ==
  ASSUME src \in SourceType, NEW n \in Notes
  PROVE  /\ src[n] \in Source /\ src[n].home \in Homes /\ src[n].body \in Bodies
         /\ src[n].front \in Front /\ src[n].tags \subseteq Tags
         /\ Parsed[src[n].body].body \in Bodies /\ Parsed[src[n].body].front \in Front
  BY MigrationAssumption DEF SourceType, Source

LEMMA RenderedType ==
  ASSUME src \in SourceType, NEW n \in Notes, NEW prior \in File \cup {Nothing}
  PROVE  /\ Rendered(n, prior) \in File /\ Rendered(n, prior).owner = n
         /\ Rendered(n, prior).imported = src[n].body
         /\ prior # Nothing =>
              /\ \A k \in Fields : prior.front[k] # Nothing =>
                   Rendered(n, prior).front[k] = prior.front[k]
              /\ prior.tags \subseteq Rendered(n, prior).tags
         /\ Plain(src[n]) => UpToDate(src[n], Rendered(n, prior))
         /\ Plain(src[n]) /\ (prior # Nothing => ~Enriched(src[n], prior)) =>
              ~Enriched(src[n], Rendered(n, prior))
  <1> DEFINE note == src[n]
             text == Parsed[note.body]
             fresh == [owner |-> n, home |-> note.home, body |-> note.body,
                       imported |-> note.body, front |-> note.front, tags |-> note.tags]
             front == [k \in Fields |->
                         FirstOf(prior.front[k], FirstOf(note.front[k], text.front[k]))]
             update == [owner |-> n, home |-> note.home, body |-> text.body,
                        imported |-> note.body, front |-> front,
                        tags |-> note.tags \cup prior.tags]
             g == Rendered(n, prior)
  <1>1. /\ note.home \in Homes /\ note.body \in Bodies /\ note.front \in Front
        /\ note.tags \subseteq Tags /\ text.body \in Bodies /\ text.front \in Front
        /\ text.body = note.body => \A k \in Fields : text.front[k] = Nothing
    BY SourceParts, MigrationAssumption
  <1>2. note.body # Nothing
    BY <1>1, MigrationAssumption
  <1>3. CASE prior = Nothing
    <2>1. g = fresh
      BY <1>3 DEF Rendered
    <2> HIDE DEF note, text, g
    <2>2. fresh \in File
      BY <1>1 DEF File
    <2>3. UpToDate(note, fresh) /\ ~Enriched(note, fresh)
      BY <1>2 DEF UpToDate, Enriched, BodyEnriched
    <2> QED
      BY <1>3, <2>1, <2>2, <2>3 DEF g, note
  <1>4. CASE prior # Nothing
    <2>1. g = update
      BY <1>4 DEF Rendered
    <2>2. prior \in File /\ prior.front \in Front /\ prior.tags \subseteq Tags
      BY <1>4 DEF File
    <2> HIDE DEF note, text, g
    <2>3. \A k \in Fields : front[k] = IF prior.front[k] # Nothing THEN prior.front[k]
                                       ELSE IF note.front[k] # Nothing THEN note.front[k]
                                       ELSE text.front[k]
      BY DEF FirstOf
    <2>4. front \in Front
      BY <1>1, <2>2 DEF Front, FirstOf
    <2> HIDE DEF front
    <2>5. update \in File
      BY <1>1, <2>2, <2>4 DEF File
    <2>6. Plain(note) => text.body = note.body
      BY DEF Plain, text
    <2>7. Plain(note) => UpToDate(note, update)
      BY <2>6 DEF UpToDate
    <2>8. ASSUME Plain(note), ~Enriched(note, prior) PROVE ~Enriched(note, update)
      <3>1. ~BodyEnriched(note, update)
        BY <1>2, <2>6, <2>8 DEF BodyEnriched
      <3>2. ASSUME NEW k \in Fields PROVE front[k] \in {Nothing, note.front[k]}
        <4>1. text.front[k] = Nothing
          BY <1>1, <2>6, <2>8
        <4>2. prior.front[k] \in {Nothing, note.front[k]}
          BY <2>8 DEF Enriched
        <4> QED
          BY <2>3, <4>1, <4>2
      <3> QED
        BY <3>1, <3>2 DEF Enriched
    <2> QED
      BY <1>4, <2>1, <2>2, <2>3, <2>5, <2>7, <2>8 DEF g, note
  <1> QED
    BY <1>3, <1>4

LEMMA NotEnriched ==
  ASSUME NEW n \in Notes, NEW f \in File, f.owner = n, NEW upto
  PROVE  /\ ~BodyEnriched(src[n], f) => ~TextOfUser(f, src, upto)
         /\ ~Enriched(src[n], f) => Pristine(f, src, upto)
  BY MigrationAssumption
  DEF BodyEnriched, Enriched, TextOfUser, EntryOfUser, SourceKnown, Pristine, File

LEMMA FirstIsOne ==
  ASSUME NEW F \in Vault, NEW owned \in SUBSET VaultPaths, owned # {}
  PROVE  \E p \in owned : FirstFile(F, owned) = F[p]
  <1> DEFINE noted == {p \in owned : F[p].imported # Nothing}
             Leads(p) == noted # {} => p \in noted
  <1>1. \E p \in owned : Leads(p)
    OBVIOUS
  <1>2. (CHOOSE p \in owned : Leads(p)) \in owned
    BY <1>1
  <1> QED
    BY <1>2 DEF FirstFile

LEMMA PriorType ==
  ASSUME NEW F \in Vault, NEW n \in Notes, NEW out, NEW prior,
         prior = IF out \in OwnedBy(F, n) THEN F[out]
                 ELSE IF OwnedBy(F, n) # {} THEN FirstFile(F, OwnedBy(F, n)) ELSE Nothing
  PROVE  prior \in File \cup {Nothing}
  <1> DEFINE owned == OwnedBy(F, n)
  <1>1. owned \in SUBSET VaultPaths /\ \A p \in owned : F[p] \in File
    BY DEF OwnedBy, Vault
  <1>2. owned # {} => \E p \in owned : FirstFile(F, owned) = F[p]
    BY <1>1, FirstIsOne
  <1> QED
    BY <1>1, <1>2

LEMMA ImportPlanned ==
  ASSUME src \in SourceType, NEW plan, NEW vault, NEW k, NEW n, Reached(plan, vault, k, n),
         NEW op, op = ImportOf(n, plan)
  PROVE  /\ op \in Operations /\ op.note = n
         /\ Mutates(op) => OpOK(op, vault, {}, src)
         /\ Calm(n, src, vault) => CalmOp(op, src)
         /\ op.content.owner = n /\ op.out[1] = n
         /\ plan.files[op.out] = Nothing \/ plan.files[op.out].owner = n
         /\ op.remove = OwnedBy(plan.files, n) \ {op.out}
  <1> DEFINE owned == OwnedBy(plan.files, n)
             out == OutOf(n, plan.files)
             remove == owned \ {out}
             prior == IF out \in owned THEN plan.files[out]
                      ELSE IF owned # {} THEN FirstFile(plan.files, owned) ELSE Nothing
             write == out \notin owned \/ ~UpToDate(src[n], prior)
             kind == IF \/ \E p \in remove : Enriched(src[n], plan.files[p])
                        \/ out \in owned /\ BodyEnriched(src[n], prior) THEN "conflict"
                     ELSE IF ~write /\ remove = {} THEN "skip"
                     ELSE IF owned # {} THEN "replace" ELSE "write"
  <1>1. n \in Notes /\ plan.files \in Vault
    BY ReachedNote
  <1>2. /\ op.kind = kind /\ op.note = n /\ op.out = out /\ op.remove = remove
        /\ op.write = write /\ op.content = Rendered(n, prior)
        /\ op = [kind |-> kind, note |-> n, out |-> out, remove |-> remove, write |-> write,
                 content |-> Rendered(n, prior)]
    BY DEF ImportOf, Operation
  <1>3. /\ out \in VaultPaths /\ out[1] = n
        /\ plan.files[out] = Nothing \/ plan.files[out].owner = n
    <2>1. HasRoom(n, plan.files)
      <3> HIDE DEF owned, out, remove, prior, write, kind
      <3> QED
        BY RoomLeft
    <2> DEFINE room == plan.files
    <2>2. room \in Vault
      BY <1>1
    <2> HIDE DEF room
    <2>3. /\ OutOf(n, room) \in VaultPaths /\ OutOf(n, room)[1] = n
          /\ room[OutOf(n, room)] = Nothing \/ room[OutOf(n, room)].owner = n
      BY <1>1, <2>1, <2>2, OutIsFree DEF room
    <2> QED
      BY <2>3 DEF room
  <1>4. owned = {p \in VaultPaths : Has(plan.files, n, p)}
    BY DEF OwnedBy, Owns, Has
  <1>5. prior \in File \cup {Nothing} /\ (prior # Nothing => \E p \in owned : prior = plan.files[p])
    <2>1. owned \in SUBSET VaultPaths
      BY DEF OwnedBy
    <2>2. CASE out \in owned
      <3>1. prior = plan.files[out]
        BY <2>2
      <3> HIDE DEF owned, out, remove, prior, write, kind
      <3> QED
        BY <1>1, <1>3, <2>2, <3>1 DEF Vault
    <2>3. CASE out \notin owned /\ owned # {}
      <3>1. prior = FirstFile(plan.files, owned)
        BY <2>3
      <3> DEFINE F == plan.files
      <3>2. F \in Vault
        BY <1>1
      <3> HIDE DEF owned, out, remove, prior, write, kind, F
      <3>3. PICK p \in owned : FirstFile(F, owned) = F[p]
        BY <2>1, <2>3, <3>2, FirstIsOne
      <3> QED
        BY <2>1, <3>1, <3>2, <3>3 DEF Vault, F
    <2>4. CASE out \notin owned /\ owned = {}
      BY <2>4
    <2> QED
      BY <2>2, <2>3, <2>4
  <1> DEFINE g == Rendered(n, prior)
  <1>6. /\ g \in File /\ g.owner = n /\ g.imported = src[n].body
        /\ prior # Nothing =>
             /\ \A e \in Fields : prior.front[e] # Nothing => g.front[e] = prior.front[e]
             /\ prior.tags \subseteq g.tags
        /\ Plain(src[n]) /\ (prior # Nothing => ~Enriched(src[n], prior)) => ~Enriched(src[n], g)
    <2> HIDE DEF owned, out, remove, prior, write, kind
    <2> QED
      BY <1>1, <1>5, RenderedType
  <1> HIDE DEF g
  <1>7. kind \in {"conflict", "skip", "replace", "write"} /\ write \in BOOLEAN
    OBVIOUS
  <1>8. op \in Operations
    <2>1. remove \in SUBSET VaultPaths
      BY <1>4
    <2> HIDE DEF owned, out, remove, prior, write, kind
    <2> QED
      BY <1>1, <1>2, <1>3, <1>6, <1>7, <2>1 DEF Operations, g
  <1>9. ASSUME kind # "conflict" PROVE OpOK(op, vault, {}, src)
    <2>1. ASSUME NEW p \in remove, Has(vault, n, p) PROVE Pristine(vault[p], src, {})
      <3>1. p \in VaultPaths /\ plan.files[p] = vault[p] /\ plan.files[p] \in File /\ plan.files[p].owner = n
        BY <1>1, <1>4, <2>1, SameFiles DEF Vault, Has
      <3>2. ~Enriched(src[n], plan.files[p])
        BY <1>9
      <3> QED
        BY <1>1, <3>1, <3>2, NotEnriched
    <2>2. ASSUME Has(vault, n, out)
          PROVE  Absorbs(g, vault[out], src, {})
      <3>1. plan.files[out] = vault[out] /\ plan.files[out] \in File /\ plan.files[out].owner = n
        <4> HIDE DEF owned, out, remove, prior, write, kind
        <4>1. plan.files[out] = vault[out]
          BY <1>3, <2>2, SameFiles
        <4> QED
          BY <1>1, <1>3, <2>2, <4>1 DEF Vault, Has
      <3>2. out \in owned /\ prior = vault[out] /\ prior # Nothing
        BY <1>3, <1>4, <2>2, <3>1 DEF Has
      <3>3. ~BodyEnriched(src[n], prior)
        BY <1>9, <3>2
      <3> HIDE DEF owned, out, remove, prior, write, kind
      <3>4. ~TextOfUser(prior, src, {})
        BY <1>1, <3>1, <3>2, <3>3, NotEnriched
      <3> QED
        BY <1>6, <3>2, <3>4 DEF Absorbs
    <2>3. out \notin remove
      OBVIOUS
    <2> HIDE DEF owned, out, remove, prior, write, kind
    <2> QED
      BY <1>2, <1>6, <2>1, <2>2, <2>3 DEF OpOK, g
  <1>11. ASSUME Calm(n, src, vault) PROVE ~Enriched(src[n], g)
    <2>1. ASSUME prior # Nothing PROVE ~Enriched(src[n], prior)
      <3>1. PICK p \in owned : prior = plan.files[p]
        BY <1>5, <2>1
      <3>2. p \in VaultPaths /\ Has(plan.files, n, p)
        BY <1>4, <3>1
      <3> HIDE DEF owned, out, remove, prior, write, kind
      <3>3. plan.files[p] = vault[p] /\ p \in OwnedBy(vault, n)
        <4>1. plan.files[p] = vault[p]
          BY <3>2, SameFiles
        <4> QED
          BY <3>2, <4>1 DEF OwnedBy, Has
      <3> QED
        BY <1>11, <3>1, <3>3 DEF Calm
    <2> HIDE DEF prior
    <2> QED
      BY <1>6, <1>11, <2>1 DEF Calm
  <1>12. Calm(n, src, vault) => CalmOp(op, src)
    <2>1. g.imported # Nothing
      BY <1>1, <1>6, SourceParts, MigrationAssumption
    <2> HIDE DEF owned, out, remove, prior, write, kind
    <2> QED
      BY <1>2, <1>11, <2>1 DEF CalmOp, g
  <1> HIDE DEF owned, out, remove, prior, write, kind
  <1>10. op.kind = "conflict" => ~Mutates(op)
    BY DEF Mutates
  <1> QED
    BY <1>2, <1>3, <1>6, <1>8, <1>9, <1>10, <1>12 DEF owned, out, remove, g

LEMMA DuplicatePlanned ==
  ASSUME src \in SourceType, NEW plan, NEW vault, NEW k, NEW n, Reached(plan, vault, k, n),
         plan.seen[src[n].body] # Nothing,
         NEW op, op = DuplicateOf(n, plan)
  PROVE  /\ op \in Operations /\ op.note = n /\ ~op.write
         /\ Mutates(op) => OpOK(op, vault, {}, src)
         /\ op.remove \subseteq OwnedBy(plan.files, n)
  <1> DEFINE survivor == plan.seen[src[n].body]
             remove == OwnedBy(plan.files, n) \ {survivor.out}
             kind == IF \E p \in remove : Enriched(src[n], plan.files[p]) THEN "conflict"
                     ELSE IF remove # {} THEN "collapse" ELSE "duplicate"
  <1>1. n \in Notes /\ plan.files \in Vault
    BY ReachedNote
  <1>2. survivor \in Operations
    BY <1>1, ReachedNote DEF SourceType, Source
  <1>3. op = [kind |-> kind, note |-> n, out |-> survivor.out, remove |-> remove,
              write |-> FALSE, content |-> survivor.content]
    BY DEF DuplicateOf, Operation
  <1>4. /\ remove \subseteq VaultPaths /\ remove \subseteq OwnedBy(plan.files, n)
        /\ \A p \in remove : Has(plan.files, n, p)
    BY DEF OwnedBy, Has
  <1>5. kind \in {"conflict", "collapse", "duplicate"}
    OBVIOUS
  <1>6. ASSUME kind # "conflict", NEW p \in remove, Has(vault, n, p) PROVE Pristine(vault[p], src, {})
    <2>1. p \in VaultPaths /\ Has(plan.files, n, p)
      BY <1>4
    <2>2. ~Enriched(src[n], plan.files[p])
      BY <1>6
    <2> HIDE DEF survivor, remove, kind
    <2>3. plan.files[p] = vault[p]
      BY <2>1, <1>6, SameFiles
    <2>4. plan.files[p] \in File /\ plan.files[p].owner = n
      BY <1>1, <2>1 DEF Vault, Has
    <2>5. ~Enriched(src[n], vault[p]) /\ vault[p] \in File /\ vault[p].owner = n
      BY <2>2, <2>3, <2>4
    <2> QED
      BY <1>1, <2>5, NotEnriched
  <1> HIDE DEF survivor, remove, kind
  <1>7. op \in Operations
    BY <1>1, <1>2, <1>3, <1>4, <1>5 DEF Operations
  <1>8. Mutates(op) => OpOK(op, vault, {}, src)
    BY <1>3, <1>5, <1>6 DEF OpOK, Mutates
  <1> QED
    BY <1>3, <1>4, <1>7, <1>8

(* One more note leaves the plan in order.                                 *)
LEMMA PlannedStep ==
  ASSUME src \in SourceType, NEW plan, NEW vault, NEW k, NEW n, Reached(plan, vault, k, n)
  PROVE  PlanOK(Planned(plan, n), vault, k + 1)
  <1> DEFINE new == plan.seen[src[n].body] = Nothing
             op == IF new THEN ImportOf(n, plan) ELSE DuplicateOf(n, plan)
             kept == [p \in VaultPaths |-> IF p \in op.remove THEN Nothing ELSE plan.files[p]]
             seen == IF new /\ op.kind # "conflict" THEN [plan.seen EXCEPT ![src[n].body] = op]
                     ELSE plan.seen
             made == IF op.kind = "conflict" THEN plan.files
                     ELSE IF op.write THEN [kept EXCEPT ![op.out] = op.content] ELSE kept
             ops == Due(plan.ops, op)
  <1>1. Planned(plan, n) = [ops |-> ops, seen |-> seen, files |-> made]
    BY DEF Planned
  <1>2. /\ n \in Notes /\ n \notin Earlier(k) /\ Earlier(k + 1) = Earlier(k) \cup {n}
    BY ReachedNote
  <1>3. plan.files \in Vault /\ plan.seen \in [Bodies -> Operations \cup {Nothing}]
    BY ReachedNote
  <1>0. PlanOK(plan, vault, k)
    BY DEF Reached
  <1>4. /\ op \in Operations /\ op.note = n
        /\ Mutates(op) => OpOK(op, vault, {}, src)
        /\ Calm(n, src, vault) => CalmOp(op, src)
        /\ op.write => new
        /\ op.remove \subseteq OwnedBy(plan.files, n)
    <2>1. CASE new
      <3>1. op = ImportOf(n, plan)
        BY <2>1
      <3> HIDE DEF op
      <3> QED
        BY <2>1, <3>1, ImportPlanned
    <2>2. CASE ~new
      <3>1. op = DuplicateOf(n, plan) /\ plan.seen[src[n].body] # Nothing
        BY <2>2
      <3> HIDE DEF op
      <3> QED
        BY <3>1, DuplicatePlanned DEF CalmOp
    <2> QED
      BY <2>1, <2>2
  <1>5. new => /\ op.content.owner = n /\ op.out[1] = n
               /\ plan.files[op.out] = Nothing \/ plan.files[op.out].owner = n
    <2> SUFFICES ASSUME new
                 PROVE  /\ op.content.owner = n /\ op.out[1] = n
                        /\ plan.files[op.out] = Nothing \/ plan.files[op.out].owner = n
      OBVIOUS
    <2>1. op = ImportOf(n, plan)
      OBVIOUS
    <2> HIDE DEF op
    <2> QED
      BY <2>1, ImportPlanned
  <1> HIDE DEF op
  <1>6. ops \in Seq(Operations) /\ \A i \in DOMAIN ops :
          \/ i \in DOMAIN plan.ops /\ ops[i] = plan.ops[i]
          \/ i = Len(plan.ops) + 1 /\ ops[i] = op /\ Mutates(op)
    <2>1. plan.ops \in Seq(Operations)
      BY <1>0 DEF PlanOK, OpsOK
    <2>2. CASE Mutates(op)
      BY <1>4, <2>1, <2>2 DEF Due
    <2>3. CASE ~Mutates(op)
      BY <2>1, <2>3 DEF Due
    <2> QED
      BY <2>2, <2>3
  <1>7. made \in Vault
    BY <1>3, <1>4 DEF Vault, Operations
  <1>8. seen \in [Bodies -> Operations \cup {Nothing}]
    BY <1>3, <1>4
  <1>9. ASSUME NEW p \in VaultPaths
        PROVE  \/ made[p] = vault[p]
               \/ /\ Passed(vault[p], k + 1)
                  /\ made[p] = Nothing \/ (made[p].owner = p[1] /\ p[1] \in Earlier(k + 1))
    <2>0. Passed(vault[p], k) => Passed(vault[p], k + 1)
      BY <1>2 DEF Passed
    <2>1. \/ plan.files[p] = vault[p]
          \/ /\ Passed(vault[p], k)
             /\ plan.files[p] = Nothing \/ (plan.files[p].owner = p[1] /\ p[1] \in Earlier(k))
      BY <1>0 DEF PlanOK
    <2>2. CASE made[p] = plan.files[p]
      BY <1>2, <2>0, <2>1, <2>2
    <2>3. CASE made[p] # plan.files[p]
      <3>1. \/ p \in op.remove /\ made[p] = Nothing
            \/ new /\ p = op.out /\ made[p] = op.content
        BY <1>3, <1>4, <2>3 DEF Vault, Operations
      <3>2. plan.files[p] = Nothing \/ plan.files[p].owner = n
        BY <1>4, <1>5, <3>1 DEF OwnedBy
      <3>3. Passed(vault[p], k + 1)
        BY <1>2, <2>0, <2>1, <3>2 DEF Passed
      <3>4. made[p] = Nothing \/ (made[p].owner = p[1] /\ p[1] \in Earlier(k + 1))
        BY <1>2, <1>5, <3>1
      <3> QED
        BY <3>3, <3>4
    <2> QED
      BY <2>2, <2>3
  <1> HIDE DEF ops, seen, made, kept, new
  <1>10. \A i \in DOMAIN plan.ops : plan.ops[i].note \in Earlier(k)
    BY <1>0 DEF PlanOK
  <1>11. \A i \in DOMAIN ops : ops[i].note \in Earlier(k + 1)
    BY <1>2, <1>4, <1>6, <1>10
  <1>15. \A i \in DOMAIN ops : Calm(ops[i].note, src, vault) => CalmOp(ops[i], src)
    <2>1. \A i \in DOMAIN plan.ops : Calm(plan.ops[i].note, src, vault) => CalmOp(plan.ops[i], src)
      BY <1>0 DEF PlanOK
    <2> QED
      BY <1>4, <1>6, <2>1
  <1>12. OpsOK(ops, vault, {}, src)
    <2>1. /\ \A i, j \in DOMAIN plan.ops : plan.ops[i].note = plan.ops[j].note => i = j
          /\ \A i \in DOMAIN plan.ops : OpOK(plan.ops[i], vault, {}, src)
      BY <1>0 DEF PlanOK, OpsOK
    <2>2. \A i, j \in DOMAIN ops : ops[i].note = ops[j].note => i = j
      BY <1>2, <1>4, <1>6, <1>10, <2>1
    <2>3. \A i \in DOMAIN ops : OpOK(ops[i], vault, {}, src)
      BY <1>4, <1>6, <2>1
    <2> QED
      BY <1>6, <2>2, <2>3 DEF OpsOK
  <1> DEFINE next == Planned(plan, n)
  <1>13. next.ops = ops /\ next.seen = seen /\ next.files = made
    BY <1>1
  <1> HIDE DEF next
  <1>14. PlanOK(next, vault, k + 1)
    BY <1>7, <1>8, <1>9, <1>11, <1>12, <1>13, <1>15 DEF PlanOK
  <1> QED
    BY <1>14 DEF next

(* The operations a run starts with.                                       *)
LEMMA PlanInOrder ==
  ASSUME src \in SourceType, files \in Vault, \A n \in Notes : HasRoom(n, files)
  PROVE  /\ OpsOK(PlanNotes, files, {}, src)
         /\ \A i \in DOMAIN PlanNotes :
              Calm(PlanNotes[i].note, src, files) => CalmOp(PlanNotes[i], src)
  <1> DEFINE N == Len(Order)
             S == {k \in 0..N : PlanOK(PlanAfter[k], files, k)}
  <1>0. N \in Nat
    BY MigrationAssumption
  <1>1. 0 \in S
    <2>1. PlanAfter[0] = Unplanned
      BY PlanSteps
    <2>2. OpsOK(<<>>, files, {}, src)
      BY DEF OpsOK
    <2>3. PlanOK(Unplanned, files, 0)
      BY <2>2 DEF PlanOK, Unplanned
    <2> QED
      BY <1>0, <2>1, <2>3
  <1>2. ASSUME NEW k \in S, k < N PROVE k + 1 \in S
    <2>1. k + 1 \in 0..N /\ k + 1 \in 1..N /\ (k + 1) - 1 = k
      BY <1>0, <1>2
    <2>2. PlanAfter[k + 1] = Planned(PlanAfter[k], Order[k + 1])
      BY <2>1, PlanSteps
    <2>3. Order[k + 1] \in Notes
      BY <1>2, NoteAhead
    <2> DEFINE n == Order[k + 1]
               plan == PlanAfter[k]
    <2>4. HasRoom(n, files)
      BY <2>3
    <2>5. Reached(plan, files, k, n)
      BY <1>2, <2>4 DEF Reached
    <2> HIDE DEF n, plan
    <2>6. PlanOK(Planned(plan, n), files, k + 1)
      BY <2>5, PlannedStep
    <2> QED
      BY <2>1, <2>2, <2>6 DEF n, plan
  <1>3. S = 0..N
    <2>1. S \subseteq 0..N
      OBVIOUS
    <2> HIDE DEF S
    <2> QED
      BY <1>0, <1>1, <1>2, <2>1, Upwards
  <1>4. PlanOK(PlanAfter[N], files, N)
    BY <1>0, <1>3
  <1> QED
    BY <1>4 DEF PlanNotes, PlanOK

-----------------------------------------------------------------------------
JobOK(j, vault, upto, s) ==
  /\ j \in [at : {"idle", "next", "create", "overwrite", "remove", "unlink"},
            ops : Seq(Operations), path : VaultPaths \cup {Nothing}]
  /\ OpsOK(j.ops, vault, upto, s)
  /\ j.at \in {"create", "overwrite"} =>
       j.ops # <<>> /\ j.ops[1].kind \in {"write", "replace"}
  /\ j.at = "overwrite" =>
       /\ j.ops[1].kind = "replace"
       /\ j.ops[1].out \in upto \/ Has(vault, j.ops[1].note, j.ops[1].out)
  /\ j.at = "unlink" =>
       /\ j.path \in VaultPaths
       /\ j.path \in upto \/ vault[j.path] = Nothing \/ Pristine(vault[j.path], s, upto)

MigrationInv ==
  /\ src \in SourceType
  /\ files \in Vault
  /\ edits \in Nat
  /\ JobOK(job, files, late, src)

LEMMA IdleOK ==
  ASSUME NEW vault, NEW upto, NEW s
  PROVE  JobOK(NoJob, vault, upto, s)
  BY DEF JobOK, NoJob, OpsOK

(* What is not the user's does not become it by a change elsewhere.        *)
LEMMA PristineKept ==
  ASSUME NEW f, NEW s, NEW t, NEW L, NEW M, L \subseteq M,
         <<"source", f.owner>> \notin M => t[f.owner] = s[f.owner]
  PROVE  /\ ~TextOfUser(f, s, L) => ~TextOfUser(f, t, M)
         /\ Pristine(f, s, L) => Pristine(f, t, M)
         /\ \A g : Absorbs(g, f, s, L) => Absorbs(g, f, t, M)
  <1>1. SourceKnown(f, M) => SourceKnown(f, L) /\ t[f.owner] = s[f.owner]
    BY DEF SourceKnown
  <1>2. ~TextOfUser(f, s, L) => ~TextOfUser(f, t, M)
    BY <1>1 DEF TextOfUser
  <1>3. \A k \in Fields : EntryOfUser(f, k, t, M) => EntryOfUser(f, k, s, L)
    BY <1>1 DEF EntryOfUser
  <1> QED
    BY <1>2, <1>3 DEF Pristine, Absorbs

(* What an operation may take stays its to take while no file becomes its  *)
(* note's but those it is told of.                                         *)
LEMMA OpKept ==
  ASSUME NEW op \in Operations, NEW F, NEW L, NEW G, NEW M, NEW s, NEW t,
         OpOK(op, F, L, s), L \subseteq M,
         <<"source", op.note>> \notin M => t[op.note] = s[op.note],
         \A p \in VaultPaths \ M : Has(G, op.note, p) => Has(F, op.note, p) /\ G[p] = F[p]
  PROVE  OpOK(op, G, M, t)
  <1>1. op.out \in VaultPaths /\ op.remove \subseteq VaultPaths
    BY DEF Operations
  <1>2. ASSUME NEW p \in op.remove \ M, Has(G, op.note, p) PROVE Pristine(G[p], t, M)
    <2>1. p \in VaultPaths \ M /\ p \in op.remove \ L
      BY <1>1
    <2>2. Pristine(F[p], s, L) /\ G[p] = F[p] /\ F[p].owner = op.note
      BY <1>2, <2>1 DEF OpOK, Has
    <2> QED
      BY <2>2, PristineKept
  <1>3. ASSUME op.kind = "replace", op.out \notin M, Has(G, op.note, op.out)
        PROVE  Absorbs(op.content, G[op.out], t, M)
    <2>1. op.out \in VaultPaths \ M /\ op.out \notin L
      BY <1>1, <1>3
    <2>2. Absorbs(op.content, F[op.out], s, L) /\ G[op.out] = F[op.out] /\ F[op.out].owner = op.note
      BY <1>3, <2>1 DEF OpOK, Has
    <2> QED
      BY <2>2, PristineKept
  <1> QED
    BY <1>2, <1>3 DEF OpOK

LEMMA OpsKept ==
  ASSUME NEW ops, NEW F, NEW L, NEW G, NEW M, NEW s, NEW t, OpsOK(ops, F, L, s), L \subseteq M,
         \A n \in Notes : <<"source", n>> \notin M => t[n] = s[n],
         \A i \in DOMAIN ops : \A p \in VaultPaths \ M :
           Has(G, ops[i].note, p) => Has(F, ops[i].note, p) /\ G[p] = F[p]
  PROVE  OpsOK(ops, G, M, t)
  <1>1. ASSUME NEW i \in DOMAIN ops PROVE OpOK(ops[i], G, M, t)
    <2>1. ops[i] \in Operations /\ OpOK(ops[i], F, L, s)
      BY DEF OpsOK
    <2>2. ops[i].note \in Notes
      BY <2>1 DEF Operations
    <2> QED
      BY <2>1, <2>2, OpKept
  <1> QED
    BY <1>1 DEF OpsOK

LEMMA JobKept ==
  ASSUME NEW j, NEW F \in Vault, NEW L, NEW G, NEW M, NEW s, NEW t, JobOK(j, F, L, s),
         L \subseteq M,
         \A n \in Notes : <<"source", n>> \notin M => t[n] = s[n],
         \A p \in VaultPaths \ M : G[p] = F[p]
  PROVE  JobOK(j, G, M, t)
  <1>1. OpsOK(j.ops, G, M, t)
    <2>1. OpsOK(j.ops, F, L, s)
      BY DEF JobOK
    <2>2. \A i \in DOMAIN j.ops : \A p \in VaultPaths \ M :
            Has(G, j.ops[i].note, p) => Has(F, j.ops[i].note, p) /\ G[p] = F[p]
      BY DEF Has
    <2> QED
      BY <2>1, <2>2, OpsKept
  <1>2. ASSUME j.at = "overwrite"
        PROVE  j.ops[1].out \in M \/ Has(G, j.ops[1].note, j.ops[1].out)
    <2>1. j.ops \in Seq(Operations) /\ j.ops # <<>>
      BY <1>2 DEF JobOK
    <2>2. j.ops[1] \in Operations
      BY <2>1
    <2>3. j.ops[1].out \in VaultPaths
      BY <2>2 DEF Operations
    <2> QED
      BY <1>2, <2>3 DEF JobOK, Has
  <1>3. ASSUME j.at = "unlink"
        PROVE  j.path \in M \/ G[j.path] = Nothing \/ Pristine(G[j.path], t, M)
    <2>1. j.path \in VaultPaths
      BY <1>3 DEF JobOK
    <2>2. CASE j.path \notin M /\ G[j.path] # Nothing
      <3>1. G[j.path] = F[j.path] /\ Pristine(F[j.path], s, L)
        BY <1>3, <2>1, <2>2 DEF JobOK
      <3>2. F[j.path].owner \in Notes
        BY <2>1, <2>2, <3>1 DEF Vault, File, Pristine, TextOfUser
      <3> QED
        BY <3>1, <3>2, PristineKept
    <2> QED
      BY <2>2
  <1> QED
    BY <1>1, <1>2, <1>3 DEF JobOK

(* An operation writes to its own path, and what it leaves is its note's.  *)
LEMMA HeadWritten ==
  ASSUME NEW ops, NEW F \in Vault, NEW L, NEW s, OpsOK(ops, F, L, s), ops # <<>>,
         ops[1].kind \in {"write", "replace"}
  PROVE  /\ [F EXCEPT ![ops[1].out] = ops[1].content] \in Vault
         /\ OpsOK(ops, [F EXCEPT ![ops[1].out] = ops[1].content], L, s)
  <1> DEFINE op == ops[1]
             G == [F EXCEPT ![op.out] = op.content]
  <1>1. /\ ops \in Seq(Operations) /\ 1 \in DOMAIN ops /\ op \in Operations
        /\ OpOK(op, F, L, s)
        /\ \A i \in DOMAIN ops : ops[i].note = op.note => i = 1
    BY DEF OpsOK
  <1>2. /\ op.out \in VaultPaths /\ op.content \in File /\ op.content # Nothing
        /\ op.remove \subseteq VaultPaths
    BY <1>1, MigrationAssumption DEF Operations
  <1>3. op.content.owner = op.note /\ op.out \notin op.remove
    BY <1>1 DEF OpOK
  <1> HIDE DEF op
  <1>4. G \in Vault
    BY <1>2 DEF Vault
  <1>5. G[op.out] = op.content /\ \A p \in VaultPaths : p # op.out => G[p] = F[p]
    BY <1>2 DEF Vault
  <1> HIDE DEF G
  <1>6. OpOK(op, G, L, s)
    BY <1>1, <1>2, <1>3, <1>5 DEF OpOK, Has, Absorbs
  <1>7. ASSUME NEW i \in DOMAIN ops, i # 1 PROVE OpOK(ops[i], G, L, s)
    <2>1. ops[i] \in Operations /\ OpOK(ops[i], F, L, s) /\ ops[i].note # op.note
      BY <1>1, <1>7 DEF OpsOK
    <2>2. \A p \in VaultPaths \ L :
            Has(G, ops[i].note, p) => Has(F, ops[i].note, p) /\ G[p] = F[p]
      BY <1>3, <1>5, <2>1 DEF Has
    <2> QED
      BY <2>1, <2>2, OpKept
  <1>8. OpsOK(ops, G, L, s)
    BY <1>1, <1>6, <1>7 DEF OpsOK, op
  <1> QED
    BY <1>4, <1>8 DEF G, op

LEMMA FileRemoved ==
  ASSUME NEW ops, NEW F \in Vault, NEW L, NEW s, OpsOK(ops, F, L, s), NEW q \in VaultPaths
  PROVE  /\ [F EXCEPT ![q] = Nothing] \in Vault
         /\ OpsOK(ops, [F EXCEPT ![q] = Nothing], L, s)
  <1> DEFINE G == [F EXCEPT ![q] = Nothing]
  <1>1. G \in Vault
    BY DEF Vault
  <1>2. \A p \in VaultPaths : G[p] = Nothing \/ G[p] = F[p]
    BY DEF Vault
  <1> HIDE DEF G
  <1>3. OpsOK(ops, G, L, s)
    <2>1. \A i \in DOMAIN ops : \A p \in VaultPaths \ L :
            Has(G, ops[i].note, p) => Has(F, ops[i].note, p) /\ G[p] = F[p]
      BY <1>2 DEF Has
    <2> QED
      BY <2>1, OpsKept
  <1> QED
    BY <1>1, <1>3 DEF G

LEMMA RemovalTaken ==
  ASSUME NEW ops, NEW F, NEW L, NEW s, OpsOK(ops, F, L, s), ops # <<>>, NEW q
  PROVE  OpsOK([ops EXCEPT ![1].remove = @ \ {q}], F, L, s)
  <1> DEFINE op == ops[1]
             less == [op EXCEPT !.remove = @ \ {q}]
             new == [ops EXCEPT ![1] = less]
  <1>1. ops \in Seq(Operations) /\ 1 \in DOMAIN ops /\ op \in Operations /\ OpOK(op, F, L, s)
    BY DEF OpsOK
  <1> HIDE DEF op
  <1>2. /\ less \in Operations /\ less.note = op.note /\ less.kind = op.kind
        /\ less.content = op.content /\ less.out = op.out /\ less.remove = op.remove \ {q}
    BY <1>1 DEF Operations
  <1> HIDE DEF less
  <1>3. OpOK(less, F, L, s)
    BY <1>1, <1>2 DEF OpOK
  <1>4. /\ new \in Seq(Operations) /\ DOMAIN new = DOMAIN ops /\ new[1] = less
        /\ \A i \in DOMAIN ops : i # 1 => new[i] = ops[i]
    BY <1>1, <1>2
  <1>5. new = [ops EXCEPT ![1].remove = @ \ {q}]
    BY DEF new, less, op
  <1> HIDE DEF new
  <1>6. \A i \in DOMAIN new : new[i].note = ops[i].note /\ OpOK(new[i], F, L, s)
    BY <1>2, <1>3, <1>4 DEF OpsOK, op
  <1>7. OpsOK(new, F, L, s)
    BY <1>4, <1>6 DEF OpsOK
  <1> QED
    BY <1>5, <1>7

LEMMA TailInOrder ==
  ASSUME NEW ops, NEW F, NEW L, NEW s, OpsOK(ops, F, L, s), ops # <<>>
  PROVE  OpsOK(Tail(ops), F, L, s)
  <1>1. ops \in Seq(Operations)
    BY DEF OpsOK
  <1>2. Tail(ops) \in Seq(Operations) /\ DOMAIN Tail(ops) = 1..(Len(ops) - 1)
    BY <1>1
  <1>3. ASSUME NEW i \in DOMAIN Tail(ops)
        PROVE  Tail(ops)[i] = ops[i + 1] /\ i + 1 \in DOMAIN ops /\ i \in Nat
    BY <1>1, <1>2
  <1>4. \A i, j \in DOMAIN Tail(ops) : Tail(ops)[i].note = Tail(ops)[j].note => i = j
    <2> SUFFICES ASSUME NEW i \in DOMAIN Tail(ops), NEW j \in DOMAIN Tail(ops),
                        Tail(ops)[i].note = Tail(ops)[j].note
                 PROVE  i = j
      OBVIOUS
    <2>1. i + 1 = j + 1
      BY <1>3 DEF OpsOK
    <2> QED
      BY <1>3, <2>1
  <1>5. \A i \in DOMAIN Tail(ops) : OpOK(Tail(ops)[i], F, L, s)
    BY <1>3 DEF OpsOK
  <1> QED
    BY <1>2, <1>4, <1>5 DEF OpsOK

LEMMA StageOK ==
  ASSUME NEW j, NEW F, NEW L, NEW s, JobOK(j, F, L, s),
         NEW at \in {"create", "overwrite", "remove"}, NEW path \in VaultPaths \cup {Nothing},
         at \in {"create", "overwrite"} => j.ops # <<>> /\ j.ops[1].kind \in {"write", "replace"},
         at = "overwrite" =>
           j.ops[1].kind = "replace" /\ Has(F, j.ops[1].note, j.ops[1].out)
  PROVE  JobOK([j EXCEPT !.at = at, !.path = path], F, L, s)
  <1> DEFINE new == [j EXCEPT !.at = at, !.path = path]
  <1>1. /\ new \in [at : {"idle", "next", "create", "overwrite", "remove", "unlink"},
                    ops : Seq(Operations), path : VaultPaths \cup {Nothing}]
        /\ new.at = at /\ new.ops = j.ops /\ new.path = path
    BY DEF JobOK
  <1> HIDE DEF new
  <1>2. JobOK(new, F, L, s)
    BY <1>1 DEF JobOK
  <1> QED
    BY <1>2 DEF new

LEMMA ChangedFile ==
  ASSUME NEW f \in File, NEW g \in Changed(f)
  PROVE  g \in File /\ g.owner = f.owner
  <1>1. CASE \E b \in Bodies : g = [f EXCEPT !.body = b]
    BY <1>1 DEF File
  <1>2. CASE \E h \in Homes : g = [f EXCEPT !.home = h]
    BY <1>2 DEF File
  <1>3. CASE \E k \in Fields, v \in Values \cup {Nothing} :
               g = [f EXCEPT !.front = [@ EXCEPT ![k] = v]]
    <2>1. PICK k \in Fields, v \in Values \cup {Nothing} :
            g = [f EXCEPT !.front = [f.front EXCEPT ![k] = v]]
      BY <1>3 DEF File
    <2>2. [f.front EXCEPT ![k] = v] \in Front
      BY DEF File, Front
    <2> QED
      BY <2>1, <2>2 DEF File
  <1>4. CASE \E t \in SUBSET Tags : g = [f EXCEPT !.tags = t]
    BY <1>4 DEF File
  <1> QED
    BY <1>1, <1>2, <1>3, <1>4 DEF Changed

LEMMA ChangedSource ==
  ASSUME NEW f \in Source, NEW g \in Changed(f)
  PROVE  g \in Source
  <1>1. CASE \E b \in Bodies : g = [f EXCEPT !.body = b]
    BY <1>1 DEF Source
  <1>2. CASE \E h \in Homes : g = [f EXCEPT !.home = h]
    BY <1>2 DEF Source
  <1>3. CASE \E k \in Fields, v \in Values \cup {Nothing} :
               g = [f EXCEPT !.front = [@ EXCEPT ![k] = v]]
    <2>1. PICK k \in Fields, v \in Values \cup {Nothing} :
            g = [f EXCEPT !.front = [f.front EXCEPT ![k] = v]]
      BY <1>3 DEF Source
    <2>2. [f.front EXCEPT ![k] = v] \in Front
      BY DEF Source, Front
    <2> QED
      BY <2>1, <2>2 DEF Source
  <1>4. CASE \E t \in SUBSET Tags : g = [f EXCEPT !.tags = t]
    BY <1>4 DEF Source
  <1> QED
    BY <1>1, <1>2, <1>3, <1>4 DEF Changed

LEMMA EditTypes ==
  ASSUME files \in Vault, NEW p \in VaultPaths, NEW f \in Edited(p)
  PROVE  /\ f \in File \cup {Nothing}
         /\ f # Nothing => f.owner = Nothing \/ (files[p] # Nothing /\ f.owner = files[p].owner)
  <1>1. p[2] \in Homes
    BY DEF VaultPaths
  <1>2. CASE files[p] = Nothing
    <2>1. PICK b \in Bodies : f = UsersNote(p[2], b)
      BY <1>2 DEF Edited
    <2>2. [k \in Fields |-> Nothing] \in Front
      BY DEF Front
    <2> QED
      BY <1>1, <2>1, <2>2, MigrationAssumption DEF UsersNote, File
  <1>3. CASE files[p] # Nothing
    <2>1. files[p] \in File
      BY <1>3 DEF Vault
    <2>2. [files[p] EXCEPT !.owner = Nothing, !.imported = Nothing] \in File
      BY <2>1 DEF File
    <2>3. [files[p] EXCEPT !.owner = Nothing, !.imported = Nothing].owner = Nothing
      BY <2>1 DEF File
    <2>4. f = Nothing \/ f \in Changed(files[p])
          \/ f = [files[p] EXCEPT !.owner = Nothing, !.imported = Nothing]
      BY <1>3 DEF Edited
    <2> QED
      BY <1>3, <2>1, <2>2, <2>3, <2>4, ChangedFile
  <1> QED
    BY <1>2, <1>3

(* What a run has left to do takes no file for its own but that of a note  *)
(* as it is given, so that a step keeps it, and loses nothing.             *)
LEMMA MigrationInductive ==
  ASSUME MigrationInv, [MigrationNext]_migrationVars
  PROVE  MigrationInv'
  <1>0. /\ src \in SourceType /\ files \in Vault /\ edits \in Nat
        /\ JobOK(job, files, late, src) /\ OpsOK(job.ops, files, late, src)
        /\ job.ops # <<>> => Op = job.ops[1] /\ Op \in Operations
    <2>1. job.ops \in Seq(Operations)
      BY DEF MigrationInv, JobOK
    <2>2. job.ops # <<>> => Op = job.ops[1] /\ Op \in Operations
      BY <2>1 DEF Op
    <2> QED
      BY <2>2 DEF MigrationInv, JobOK
  <1>1. CASE PlansMigration
    <2>1. OpsOK(PlanNotes, files, {}, src)
      BY <1>0, <1>1, PlanInOrder DEF PlansMigration
    <2> DEFINE plan == PlanNotes
               new == [NoJob EXCEPT !.at = "next", !.ops = plan]
    <2>2. job' = new /\ late' = {} /\ UNCHANGED <<src, files, edits>>
      BY <1>1 DEF PlansMigration
    <2>3. OpsOK(plan, files, {}, src)
      BY <2>1
    <2> HIDE DEF plan
    <2>4. plan \in Seq(Operations)
      BY <2>3 DEF OpsOK
    <2>5. new.at = "next" /\ new.ops = plan /\ new.path = Nothing
          /\ new \in [at : {"idle", "next", "create", "overwrite", "remove", "unlink"},
                      ops : Seq(Operations), path : VaultPaths \cup {Nothing}]
      BY <2>4 DEF NoJob
    <2> HIDE DEF new
    <2>6. JobOK(new, files, {}, src)
      BY <2>3, <2>5 DEF JobOK
    <2> QED
      BY <1>0, <2>2, <2>6 DEF MigrationInv
  <1>2. CASE ChecksOp
    <2>1. UNCHANGED <<src, files, late, edits>> /\ job.ops # <<>>
      BY <1>2 DEF ChecksOp, Running, At
    <2>2. Op = job.ops[1] /\ Op.out \in VaultPaths
      BY <1>0, <2>1 DEF Operations
    <2>3. \/ job' = NoJob
          \/ job' = [job EXCEPT !.at = "create", !.path = Op.out]
             /\ Op.kind \in {"write", "replace"}
          \/ job' = [job EXCEPT !.at = "overwrite", !.path = Op.out]
             /\ Op.kind = "replace" /\ Owns(Op.note, Op.out)
          \/ job' = [job EXCEPT !.at = "remove", !.path = Nothing]
      <3> DEFINE op == Op
      <3> HIDE DEF op
      <3>1. CASE op.kind = "write"
        BY <1>2, <3>1 DEF ChecksOp, Goes, op
      <3>2. CASE op.kind # "write" /\ op.kind = "replace" /\ op.write
        BY <1>2, <3>2 DEF ChecksOp, Goes, Throws, op
      <3>3. CASE op.kind # "write" /\ ~(op.kind = "replace" /\ op.write)
        BY <1>2, <3>3 DEF ChecksOp, Goes, Throws, op
      <3> QED
        BY <3>1, <3>2, <3>3 DEF op
    <2>4. JobOK(job', files, late, src)
      <3> DEFINE op == job.ops[1]
                 out == op.out
      <3>0. op = Op /\ out = Op.out /\ out \in VaultPaths
        BY <2>2
      <3> HIDE DEF out
      <3>1. CASE job' = NoJob
        BY <3>1, IdleOK
      <3>2. CASE job' = [job EXCEPT !.at = "create", !.path = out] /\ op.kind \in {"write", "replace"}
        <4>1. JobOK([job EXCEPT !.at = "create", !.path = out], files, late, src)
          BY <1>0, <2>1, <3>0, <3>2, StageOK
        <4> QED
          BY <3>2, <4>1
      <3>3. CASE /\ job' = [job EXCEPT !.at = "overwrite", !.path = out]
                 /\ op.kind = "replace" /\ Owns(op.note, op.out)
        <4>1. JobOK([job EXCEPT !.at = "overwrite", !.path = out], files, late, src)
          BY <1>0, <2>1, <3>0, <3>3, StageOK DEF Owns, Has
        <4> QED
          BY <3>3, <4>1
      <3>4. CASE job' = [job EXCEPT !.at = "remove", !.path = Nothing]
        <4>1. JobOK([job EXCEPT !.at = "remove", !.path = Nothing], files, late, src)
          BY <1>0, StageOK
        <4> QED
          BY <3>4, <4>1
      <3> QED
        BY <2>3, <3>0, <3>1, <3>2, <3>3, <3>4 DEF out
    <2> QED
      BY <1>0, <2>1, <2>4 DEF MigrationInv
  <1>3. CASE CreatesNote
    <2>1. UNCHANGED <<src, late, edits>> /\ job.ops # <<>> /\ job.at = "create"
      BY <1>3 DEF CreatesNote, Running, At
    <2>2. CASE job' = NoJob /\ UNCHANGED files
      BY <1>0, <2>1, <2>2, IdleOK DEF MigrationInv
    <2>3. CASE /\ files' = [files EXCEPT ![Op.out] = Op.content]
               /\ job' = [job EXCEPT !.at = "remove", !.path = Nothing]
      <3>1. Op = job.ops[1] /\ Op.kind \in {"write", "replace"}
        BY <1>0, <2>1 DEF JobOK
      <3>2. files' \in Vault /\ OpsOK(job.ops, files', late, src)
        BY <1>0, <2>1, <2>3, <3>1, HeadWritten
      <3>3. /\ job' \in [at : {"idle", "next", "create", "overwrite", "remove", "unlink"},
                    ops : Seq(Operations), path : VaultPaths \cup {Nothing}]
            /\ job'.at = "remove" /\ job'.ops = job.ops
        BY <1>0, <2>3 DEF JobOK
      <3>4. JobOK(job', files', late, src)
        BY <3>2, <3>3 DEF JobOK
      <3> QED
        BY <1>0, <2>1, <3>2, <3>4 DEF MigrationInv
    <2> QED
      BY <1>3, <2>2, <2>3 DEF CreatesNote, Throws, Goes
  <1>4. CASE OverwritesNote
    <2>1. /\ UNCHANGED <<src, late, edits>> /\ job.ops # <<>> /\ job.at = "overwrite"
          /\ files' = [files EXCEPT ![Op.out] = Op.content]
          /\ job' = [job EXCEPT !.at = "remove", !.path = Nothing]
      BY <1>4 DEF OverwritesNote, Running, At, Goes
    <2>2. Op = job.ops[1] /\ Op.kind \in {"write", "replace"}
      BY <1>0, <2>1 DEF JobOK
    <2>3. files' \in Vault /\ OpsOK(job.ops, files', late, src)
      BY <1>0, <2>1, <2>2, HeadWritten
    <2>4. /\ job' \in [at : {"idle", "next", "create", "overwrite", "remove", "unlink"},
                  ops : Seq(Operations), path : VaultPaths \cup {Nothing}]
          /\ job'.at = "remove" /\ job'.ops = job.ops
      BY <1>0, <2>1 DEF JobOK
    <2>5. JobOK(job', files', late, src)
      BY <2>3, <2>4 DEF JobOK
    <2> QED
      BY <1>0, <2>1, <2>3, <2>5 DEF MigrationInv
  <1>5. CASE ChecksRemoval
    <2>1. UNCHANGED <<src, files, late, edits>> /\ job.ops # <<>>
      BY <1>5 DEF ChecksRemoval, Running, At
    <2>2. PICK p \in Op.remove :
            IF Owns(Op.note, p)
            THEN job' = [job EXCEPT !.at = "unlink", !.path = p, !.ops[1].remove = @ \ {p}]
            ELSE job' = NoJob
      BY <1>5 DEF ChecksRemoval, Throws
    <2>3. CASE job' = NoJob
      BY <1>0, <2>1, <2>3, IdleOK DEF MigrationInv
    <2>4. CASE Owns(Op.note, p) /\
               job' = [job EXCEPT !.at = "unlink", !.path = p, !.ops[1].remove = @ \ {p}]
      <3>1. Op = job.ops[1] /\ OpOK(Op, files, late, src) /\ p \in VaultPaths
        BY <1>0, <2>1, <2>2 DEF OpsOK, Operations
      <3>2. p \in late \/ Pristine(files[p], src, late)
        BY <2>2, <2>4, <3>1 DEF OpOK, Owns, Has
      <3> DEFINE ops == [job.ops EXCEPT ![1].remove = @ \ {p}]
      <3>3. OpsOK(ops, files, late, src)
        BY <1>0, <2>1, RemovalTaken
      <3>4. job' = [job EXCEPT !.at = "unlink", !.path = p, !.ops = ops]
        BY <1>0, <2>4 DEF JobOK
      <3> HIDE DEF ops
      <3>5. ops \in Seq(Operations)
        BY <3>3 DEF OpsOK
      <3>6. /\ job' \in [at : {"idle", "next", "create", "overwrite", "remove", "unlink"},
                    ops : Seq(Operations), path : VaultPaths \cup {Nothing}]
            /\ job'.at = "unlink" /\ job'.ops = ops /\ job'.path = p
        BY <1>0, <3>1, <3>4, <3>5 DEF JobOK
      <3>7. JobOK(job', files, late, src)
        BY <3>1, <3>2, <3>3, <3>6 DEF JobOK
      <3> QED
        BY <1>0, <2>1, <3>7 DEF MigrationInv
    <2> QED
      BY <2>2, <2>3, <2>4
  <1>6. CASE RemovesNote
    <2>1. /\ UNCHANGED <<src, late, edits>> /\ job.ops # <<>> /\ job.at = "unlink"
          /\ files' = [files EXCEPT ![job.path] = Nothing]
          /\ job' = NoJob \/ job' = [job EXCEPT !.at = "remove", !.path = Nothing]
      BY <1>6 DEF RemovesNote, Running, At, Goes, Throws
    <2>2. job.path \in VaultPaths
      BY <1>0, <2>1 DEF JobOK
    <2>3. files' \in Vault /\ OpsOK(job.ops, files', late, src)
      BY <1>0, <2>1, <2>2, FileRemoved
    <2>4. CASE job' = NoJob
      BY <1>0, <2>1, <2>3, <2>4, IdleOK DEF MigrationInv
    <2>5. CASE job' = [job EXCEPT !.at = "remove", !.path = Nothing]
      <3>1. /\ job' \in [at : {"idle", "next", "create", "overwrite", "remove", "unlink"},
                    ops : Seq(Operations), path : VaultPaths \cup {Nothing}]
            /\ job'.at = "remove" /\ job'.ops = job.ops
        BY <1>0, <2>5 DEF JobOK
      <3>2. JobOK(job', files', late, src)
        BY <2>3, <3>1 DEF JobOK
      <3> QED
        BY <1>0, <2>1, <2>3, <3>2 DEF MigrationInv
    <2> QED
      BY <2>1, <2>4, <2>5
  <1>7. CASE EndsOp
    <2>1. /\ UNCHANGED <<src, files, late, edits>> /\ job.ops # <<>>
          /\ job' = [NoJob EXCEPT !.at = "next", !.ops = Tail(job.ops)]
      BY <1>7 DEF EndsOp, Running, At, NextOp
    <2> DEFINE ops == Tail(job.ops)
    <2>2. OpsOK(ops, files, late, src)
      BY <1>0, <2>1, TailInOrder
    <2> HIDE DEF ops
    <2>3. ops \in Seq(Operations)
      BY <2>2 DEF OpsOK
    <2>4. /\ job' \in [at : {"idle", "next", "create", "overwrite", "remove", "unlink"},
                  ops : Seq(Operations), path : VaultPaths \cup {Nothing}]
          /\ job'.at = "next" /\ job'.ops = ops
      BY <2>1, <2>3 DEF NoJob, ops
    <2>5. JobOK(job', files, late, src)
      BY <2>2, <2>4 DEF JobOK
    <2> QED
      BY <1>0, <2>1, <2>5 DEF MigrationInv
  <1>8. CASE CompletesMigration \/ StopsMigration
    <2>1. UNCHANGED <<src, files, late, edits>> /\ job' = NoJob
      BY <1>8 DEF CompletesMigration, StopsMigration
    <2> QED
      BY <1>0, <2>1, IdleOK DEF MigrationInv
  <1>9. ASSUME NEW what, ByHand(what), src' \in SourceType, files' \in Vault,
               \A q \in VaultPaths : q # what => files'[q] = files[q],
               \A n \in Notes : <<"source", n>> # what => src'[n] = src[n]
        PROVE  MigrationInv'
    <2>1. UNCHANGED job /\ edits' \in Nat
      BY <1>0, <1>9 DEF ByHand
    <2>2. CASE job = NoJob
      BY <1>9, <2>1, <2>2, IdleOK DEF MigrationInv
    <2>3. CASE job # NoJob
      <3>1. late' = late \cup {what}
        BY <1>9, <2>3 DEF ByHand
      <3>2. JobOK(job, files', late', src')
        <4>1. /\ late \subseteq late' /\ \A q \in VaultPaths \ late' : files'[q] = files[q]
              /\ \A n \in Notes : <<"source", n>> \notin late' => src'[n] = src[n]
          BY <1>9, <3>1
        <4> QED
          BY <1>0, <4>1, JobKept
      <3> QED
        BY <1>9, <2>1, <3>2 DEF MigrationInv
    <2> QED
      BY <2>2, <2>3
  <1>10. ASSUME NEW p \in VaultPaths, UserEdits(p) PROVE MigrationInv'
    <2>1. PICK f \in Edited(p) : files' = [files EXCEPT ![p] = f]
      BY <1>10 DEF UserEdits
    <2>2. files' \in Vault
      <3>1. f \in File \cup {Nothing}
        BY <1>0, EditTypes
      <3> QED
        BY <1>0, <2>1, <3>1 DEF Vault
    <2>3. \A q \in VaultPaths : q # p => files'[q] = files[q]
      BY <1>0, <2>1 DEF Vault
    <2>4. ByHand(p) /\ src' \in SourceType /\ src' = src
      BY <1>0, <1>10 DEF UserEdits
    <2> QED
      BY <1>9, <2>2, <2>3, <2>4
  <1>11. ASSUME NEW n \in Notes, SourceEdits(n) PROVE MigrationInv'
    <2>1. ByHand(<<"source", n>>) /\ files' = files
      BY <1>11 DEF SourceEdits
    <2>2. PICK note \in Changed(src[n]) : src' = [src EXCEPT ![n] = note]
      BY <1>11 DEF SourceEdits
    <2>3. src[n] \in Source
      BY <1>0 DEF SourceType
    <2>4. note \in Source
      BY <2>3, ChangedSource
    <2>5. src' \in SourceType
      BY <1>0, <2>2, <2>4 DEF SourceType
    <2>6. \A m \in Notes : <<"source", m>> # <<"source", n>> => src'[m] = src[m]
      BY <1>0, <2>2 DEF SourceType
    <2> QED
      BY <1>0, <1>9, <2>1, <2>5, <2>6
  <1>12. CASE UNCHANGED migrationVars
    BY <1>12 DEF migrationVars, MigrationInv
  <1> QED
    BY <1>1, <1>2, <1>3, <1>4, <1>5, <1>6, <1>7, <1>8, <1>10, <1>11, <1>12 DEF MigrationNext

(* What a step that is not the user's may make of a file.                  *)
Keeps(g, f, s, upto) ==
  /\ TextOfUser(f, s, upto) => g = f
  /\ \A k \in Fields : EntryOfUser(f, k, s, upto) => g # Nothing /\ g.front[k] = f.front[k]
  /\ g # Nothing => f.tags \subseteq g.tags

LEMMA StepKeepsEdits ==
  ASSUME MigrationInv, [MigrationNext]_migrationVars, edits' = edits,
         NEW p \in VaultPaths \ late, files[p] # Nothing
  PROVE  Keeps(files'[p], files[p], src, late)
  <1>0. /\ files \in Vault /\ edits \in Nat /\ p \in VaultPaths /\ p \notin late
        /\ JobOK(job, files, late, src) /\ OpsOK(job.ops, files, late, src)
        /\ job.ops # <<>> => Op = job.ops[1] /\ Op \in Operations /\ OpOK(Op, files, late, src)
    <2>1. job.ops \in Seq(Operations) /\ OpsOK(job.ops, files, late, src)
      BY DEF MigrationInv, JobOK
    <2>2. job.ops # <<>> => Op = job.ops[1] /\ 1 \in DOMAIN job.ops
      BY <2>1 DEF Op
    <2> QED
      BY <2>1, <2>2 DEF MigrationInv, OpsOK
  <1>1. CASE files'[p] = files[p]
    BY <1>1 DEF Keeps, EntryOfUser
  <1>2. CASE CreatesNote /\ files'[p] # files[p]
    <2>1. files[Op.out] = Nothing /\ files' = [files EXCEPT ![Op.out] = Op.content]
      BY <1>2 DEF CreatesNote
    <2> QED
      BY <1>0, <1>2, <2>1 DEF Vault
  <1>3. CASE OverwritesNote /\ files'[p] # files[p]
    <2>1. job.ops # <<>> /\ job.at = "overwrite" /\ files' = [files EXCEPT ![Op.out] = Op.content]
      BY <1>3 DEF OverwritesNote, At
    <2>2. p = Op.out /\ files'[p] = Op.content
      BY <1>0, <1>3, <2>1 DEF Vault
    <2>3. Op.kind = "replace" /\ Has(files, Op.note, p)
      BY <1>0, <2>1, <2>2 DEF JobOK
    <2>4. Absorbs(Op.content, files[p], src, late)
      BY <1>0, <2>1, <2>2, <2>3 DEF OpOK
    <2>5. Op.content # Nothing
      BY <1>0, <2>1, MigrationAssumption DEF Operations
    <2> QED
      BY <1>3, <2>2, <2>4, <2>5 DEF Absorbs, Keeps, EntryOfUser
  <1>4. CASE RemovesNote /\ files'[p] # files[p]
    <2>1. job.at = "unlink" /\ files' = [files EXCEPT ![job.path] = Nothing]
      BY <1>4 DEF RemovesNote, At
    <2>2. p = job.path
      BY <1>0, <1>4, <2>1 DEF Vault
    <2>3. Pristine(files[p], src, late)
      BY <1>0, <2>1, <2>2 DEF JobOK
    <2>4. files'[p] = Nothing
      BY <1>0, <2>1, <2>2 DEF Vault
    <2> QED
      BY <2>3, <2>4 DEF Pristine, Keeps
  <1>5. ASSUME NEW what, ByHand(what) PROVE FALSE
    BY <1>0, <1>5 DEF ByHand
  <1>6. \/ files' = files \/ CreatesNote \/ OverwritesNote \/ RemovesNote
        \/ \E what : ByHand(what)
    BY DEF MigrationNext, migrationVars, PlansMigration, ChecksOp, ChecksRemoval, EndsOp,
           CompletesMigration, StopsMigration, UserEdits, SourceEdits
  <1> QED
    BY <1>1, <1>2, <1>3, <1>4, <1>5, <1>6

LEMMA MigrationInvariant == MigrationSpec => []MigrationInv
  <1>1. MigrationInit => MigrationInv
    <2> SUFFICES ASSUME MigrationInit PROVE MigrationInv
      OBVIOUS
    <2>1. src \in SourceType /\ files \in Vault
      BY MigrationAssumption DEF MigrationInit, SourceType, Source, Vault
    <2> QED
      BY <2>1, IdleOK DEF MigrationInit, MigrationInv
  <1>2. MigrationInv /\ [MigrationNext]_migrationVars => MigrationInv'
    BY MigrationInductive
  <1> QED
    BY <1>1, <1>2, PTL DEF MigrationSpec

(* What the user wrote before a run planned is not lost to it, whatever    *)
(* steps the run has taken, however many died before, and whatever he      *)
(* changes elsewhere meanwhile: his own notes and his text stay as they    *)
(* are, and an entry or a tag of his with the note that it is of.  Title,  *)
(* type, dates and project are not among what is kept.                     *)
THEOREM MigrationsKeepEdits == MigrationSpec => EditsKept
  <1>1. ASSUME MigrationInv, [MigrationNext]_migrationVars
        PROVE  [edits' = edits =>
                  \A p \in VaultPaths \ late :
                    files[p] # Nothing =>
                      /\ TextOfUser(files[p], src, late) => files'[p] = files[p]
                      /\ \A k \in Fields : EntryOfUser(files[p], k, src, late) =>
                           files'[p] # Nothing /\ files'[p].front[k] = files[p].front[k]
                      /\ files'[p] # Nothing => files[p].tags \subseteq files'[p].tags]_migrationVars
    BY <1>1, StepKeepsEdits DEF Keeps
  <1> QED
    BY <1>1, MigrationInvariant, PTL DEF MigrationSpec, EditsKept

-----------------------------------------------------------------------------
(* What a run that nobody interfered with leaves, and a run begins with: a *)
(* choice of the notes that have a file, and for each other a reason.      *)

FreeFor(n, vault, i) ==
  vault[<<n, src[n].home, i>>] = Nothing \/ vault[<<n, src[n].home, i>>].owner = n

IsOut(n, p, vault) ==
  \E i \in 0..MaxSuffix : /\ p = <<n, src[n].home, i>> /\ FreeFor(n, vault, i)
                          /\ \A j \in 0..(i - 1) : ~FreeFor(n, vault, j)

Before(m, n) == \E i, j \in DOMAIN Order : i < j /\ Order[i] = m /\ Order[j] = n

(* One of these says the same and comes before.                            *)
SaidBy(I, n) == \E m \in I : Before(m, n) /\ src[m].body = src[n].body

(* A note that has the file it should have, and no other.                  *)
Imported(n, p, vault) ==
  /\ OwnedBy(vault, n) = {p} /\ IsOut(n, p, vault)
  /\ Plain(src[n]) => UpToDate(src[n], vault[p])

(* One that is not imported for what the user did to its files.            *)
Disputed(n, p, vault) ==
  /\ IsOut(n, p, vault)
  /\ \/ \E q \in OwnedBy(vault, n) \ {p} : Enriched(src[n], vault[q])
     \/ p \in OwnedBy(vault, n) /\ BodyEnriched(src[n], vault[p])

(* One that another stands for.                                            *)
Doubled(n, vault) ==
  OwnedBy(vault, n) = {} \/ \E p \in OwnedBy(vault, n) : Enriched(src[n], vault[p])

Placed(I, n, vault) ==
  /\ SaidBy(I, n) => n \notin I /\ Doubled(n, vault)
  /\ ~SaidBy(I, n) => \E p \in VaultPaths : /\ n \in I => Imported(n, p, vault)
                                            /\ n \notin I => Disputed(n, p, vault)

Finished(vault) == \E I \in SUBSET Notes : \A n \in Notes : Placed(I, n, vault)

(* Files of a note are at its own paths.                                   *)
LEMMA OwnPaths ==
  ASSUME NEW vault, AtHome(vault), NEW n \in Notes, NEW p \in OwnedBy(vault, n)
  PROVE  p \in VaultPaths /\ p[1] = n /\ Has(vault, n, p)
BY MigrationAssumption DEF AtHome, OwnedBy, Has

LEMMA SamePath ==
  ASSUME src \in SourceType, NEW n \in Notes, NEW i \in 0..MaxSuffix
  PROVE  <<n, src[n].home, i>> \in VaultPaths /\ <<n, src[n].home, i>>[1] = n
BY DEF SourceType, Source, VaultPaths

(* There is one such path, the one that OutOf finds.                       *)
LEMMA OutIsOne ==
  ASSUME NEW n \in Notes, NEW vault, NEW p, IsOut(n, p, vault)
  PROVE  OutOf(n, vault) = p
  <1>0. MaxSuffix \in Nat
    BY MigrationAssumption
  <1> DEFINE Leads(i) == FreeFor(n, vault, i) /\ \A j \in 0..(i - 1) : ~FreeFor(n, vault, j)
  <1>1. PICK i \in 0..MaxSuffix : p = <<n, src[n].home, i>> /\ Leads(i)
    BY DEF IsOut
  <1>2. ASSUME NEW j \in 0..MaxSuffix, Leads(j) PROVE j = i
    <2>1. ~(j < i) /\ ~(i < j)
      BY <1>0, <1>1, <1>2
    <2> QED
      BY <1>0, <2>1
  <1> DEFINE m == CHOOSE j \in 0..MaxSuffix : Leads(j)
  <1>3. m = i
    BY <1>1, <1>2
  <1>4. OutOf(n, vault) = <<n, src[n].home, m>>
    BY DEF OutOf, FreeFor
  <1> QED
    BY <1>1, <1>3, <1>4

LEMMA OutIsOut ==
  ASSUME src \in SourceType, NEW vault, vault \in Vault, NEW n \in Notes,
         HasRoom(n, vault)
  PROVE  IsOut(n, OutOf(n, vault), vault)
  <1> DEFINE Leads(i) == FreeFor(n, vault, i) /\ \A j \in 0..(i - 1) : ~FreeFor(n, vault, j)
  <1>0. MaxSuffix \in Nat
    BY MigrationAssumption
  <1>1. \E i \in 0..MaxSuffix : Leads(i)
    <2> SUFFICES ASSUME \A i \in 0..MaxSuffix : ~Leads(i) PROVE FALSE
      OBVIOUS
    <2> DEFINE S == {k \in 0..MaxSuffix : \A j \in 0..k : ~FreeFor(n, vault, j)}
    <2>0. \E i \in 0..MaxSuffix : FreeFor(n, vault, i)
      BY DEF HasRoom, FreeFor
    <2>1. 0 \in S
      <3>1. ~Leads(0) /\ 0..(0 - 1) = {} /\ 0..0 = {0}
        BY <1>0
      <3> QED
        BY <1>0, <3>1
    <2>2. ASSUME NEW k \in S, k < MaxSuffix PROVE k + 1 \in S
      <3>1. k + 1 \in 0..MaxSuffix /\ 0..(k + 1) = (0..k) \cup {k + 1} /\ (k + 1) - 1 = k
        BY <1>0, <2>2
      <3>2. ~Leads(k + 1)
        BY <3>1
      <3> QED
        BY <3>1, <3>2
    <2>3. S = 0..MaxSuffix
      <3>1. S \subseteq 0..MaxSuffix
        OBVIOUS
      <3> HIDE DEF S
      <3> QED
        BY <1>0, <2>1, <2>2, <3>1, Upwards
    <2>4. PICK i \in 0..MaxSuffix : FreeFor(n, vault, i)
      BY <2>0
    <2>5. i \in S /\ i \in 0..i
      BY <1>0, <2>3
    <2> QED
      BY <2>4, <2>5
  <1> DEFINE m == CHOOSE i \in 0..MaxSuffix : Leads(i)
  <1>2. m \in 0..MaxSuffix /\ Leads(m)
    BY <1>1
  <1>3. OutOf(n, vault) = <<n, src[n].home, m>>
    BY DEF OutOf, FreeFor
  <1> HIDE DEF m
  <1> QED
    BY <1>2, <1>3 DEF IsOut

LEMMA OutThere ==
  ASSUME src \in SourceType, NEW n \in Notes, NEW vault, NEW p, IsOut(n, p, vault)
  PROVE  p \in VaultPaths /\ p[1] = n /\ (vault[p] = Nothing \/ vault[p].owner = n)
BY SamePath DEF IsOut, FreeFor

(* Where a note stands is a matter of its own paths alone.                 *)
LEMMA SameOwned ==
  ASSUME NEW F, AtHome(F), NEW G, AtHome(G), NEW n \in Notes,
         \A p \in VaultPaths : p[1] = n => G[p] = F[p]
  PROVE  OwnedBy(G, n) = OwnedBy(F, n)
  <1>1. \A p \in OwnedBy(F, n) : p \in OwnedBy(G, n)
    BY OwnPaths DEF OwnedBy
  <1>2. \A p \in OwnedBy(G, n) : p \in OwnedBy(F, n)
    BY OwnPaths DEF OwnedBy
  <1> QED
    BY <1>1, <1>2

LEMMA SameOut ==
  ASSUME src \in SourceType, NEW F, NEW G, NEW n \in Notes, NEW p, IsOut(n, p, F),
         \A q \in VaultPaths : q[1] = n => G[q] = F[q]
  PROVE  IsOut(n, p, G)
  <1>0. MaxSuffix \in Nat
    BY MigrationAssumption
  <1>1. \A i \in 0..MaxSuffix : FreeFor(n, G, i) <=> FreeFor(n, F, i)
    BY SamePath DEF FreeFor
  <1>2. \A i \in 0..MaxSuffix : \A j \in 0..(i - 1) : j \in 0..MaxSuffix
    BY <1>0
  <1> QED
    BY <1>1, <1>2 DEF IsOut

LEMMA StaysPlaced ==
  ASSUME src \in SourceType, NEW F, AtHome(F), NEW G, AtHome(G), NEW n \in Notes,
         NEW I, NEW J, Placed(I, n, F),
         \A p \in VaultPaths : p[1] = n => G[p] = F[p],
         SaidBy(J, n) <=> SaidBy(I, n), n \in J <=> n \in I
  PROVE  Placed(J, n, G)
  <1>1. OwnedBy(G, n) = OwnedBy(F, n)
    BY SameOwned
  <1>2. \A p \in OwnedBy(F, n) : G[p] = F[p]
    BY OwnPaths
  <1>3. Doubled(n, F) => Doubled(n, G)
    BY <1>1, <1>2 DEF Doubled
  <1>4. ASSUME NEW p \in VaultPaths, Imported(n, p, F) PROVE Imported(n, p, G)
    <2>1. IsOut(n, p, G)
      BY <1>4, SameOut DEF Imported
    <2>2. p \in OwnedBy(F, n) /\ G[p] = F[p]
      BY <1>2, <1>4 DEF Imported
    <2> QED
      BY <1>1, <1>4, <2>1, <2>2 DEF Imported
  <1>5. ASSUME NEW p \in VaultPaths, Disputed(n, p, F) PROVE Disputed(n, p, G)
    <2>1. IsOut(n, p, G)
      BY <1>5, SameOut DEF Disputed
    <2>2. \/ \E q \in OwnedBy(F, n) \ {p} : Enriched(src[n], F[q])
          \/ p \in OwnedBy(F, n) /\ BodyEnriched(src[n], F[p])
      BY <1>5 DEF Disputed
    <2>3. \/ \E q \in OwnedBy(G, n) \ {p} : Enriched(src[n], G[q])
          \/ p \in OwnedBy(G, n) /\ BodyEnriched(src[n], G[p])
      BY <1>1, <1>2, <2>2
    <2> QED
      BY <2>1, <2>3 DEF Disputed
  <1> QED
    BY <1>3, <1>4, <1>5 DEF Placed

(* A completed run has imported all, and each note to one path at most.    *)
LEMMA FinishedMeans ==
  ASSUME src \in SourceType, NEW vault, Finished(vault), NEW n \in Notes
  PROVE  /\ \/ ~Plain(src[n])
            \/ \E p \in OwnedBy(vault, n) : Enriched(src[n], vault[p])
            \/ \E m \in Notes : \E p \in OwnedBy(vault, m) :
                 vault[p].body = src[n].body /\ (m = n \/ OwnedBy(vault, n) = {})
         /\ \/ Cardinality(OwnedBy(vault, n)) <= 1
            \/ \E p \in OwnedBy(vault, n) : Enriched(src[n], vault[p])
  <1>1. PICK I \in SUBSET Notes : \A m \in Notes : Placed(I, m, vault)
    BY DEF Finished
  <1>2. ASSUME NEW m \in I
        PROVE  \E p \in VaultPaths : /\ OwnedBy(vault, m) = {p}
                                     /\ Plain(src[m]) => vault[p].body = src[m].body
    <2>1. m \in Notes /\ Placed(I, m, vault)
      BY <1>1
    <2>2. PICK p \in VaultPaths : Imported(m, p, vault)
      BY <2>1 DEF Placed
    <2> QED
      BY <2>2 DEF Imported, UpToDate
  <1>3. CASE n \in I
    <2>1. PICK p \in VaultPaths : /\ OwnedBy(vault, n) = {p}
                                  /\ Plain(src[n]) => vault[p].body = src[n].body
      BY <1>2, <1>3
    <2> DEFINE owned == OwnedBy(vault, n)
    <2>2. owned = {p} /\ (Plain(src[n]) => vault[p].body = src[n].body)
      BY <2>1
    <2>3. Plain(src[n]) => \E m \in Notes : \E q \in OwnedBy(vault, m) :
            vault[q].body = src[n].body /\ (m = n \/ OwnedBy(vault, n) = {})
      <3>1. p \in OwnedBy(vault, n)
        BY <2>2
      <3> QED
        BY <2>2, <3>1
    <2> HIDE DEF owned
    <2>4. Cardinality(owned) = 1
      BY <2>2, FS_Singleton
    <2>5. Cardinality(owned) <= 1
      BY <2>4
    <2> QED
      BY <2>3, <2>5 DEF owned
  <1>4. CASE \E p \in OwnedBy(vault, n) : Enriched(src[n], vault[p])
    BY <1>4
  <1>5. CASE n \notin I /\ ~\E p \in OwnedBy(vault, n) : Enriched(src[n], vault[p])
    <2>1. SaidBy(I, n) /\ OwnedBy(vault, n) = {}
      BY <1>1, <1>5 DEF Placed, Disputed, Doubled, Enriched
    <2>2. PICK m \in I : src[m].body = src[n].body
      BY <2>1 DEF SaidBy
    <2>3. Plain(src[n]) => \E q \in OwnedBy(vault, m) : vault[q].body = src[n].body
      BY <1>2, <2>2 DEF Plain
    <2>4. Cardinality(OwnedBy(vault, n)) = 0
      BY <2>1, FS_EmptySet
    <2> QED
      BY <2>1, <2>3, <2>4
  <1> QED
    BY <1>3, <1>4, <1>5

(* A note planned for comes before the next, which comes before none.      *)
LEMMA Positions ==
  ASSUME NEW k \in 0..Len(Order), k < Len(Order), NEW n, n = Order[k + 1]
  PROVE  /\ \A m \in Earlier(k) : Before(m, n) /\ ~Before(n, m)
         /\ ~Before(n, n)
  <1>1. /\ DOMAIN Order = 1..Len(Order) /\ Len(Order) \in Nat /\ k + 1 \in DOMAIN Order
        /\ \A i, j \in DOMAIN Order : Order[i] = Order[j] => i = j
    BY MigrationAssumption
  <1>2. ASSUME NEW i \in DOMAIN Order, Before(n, Order[i]) PROVE k + 1 < i
    BY <1>1, <1>2 DEF Before
  <1>3. ASSUME NEW i \in 1..k PROVE i \in DOMAIN Order /\ i < k + 1 /\ ~(k + 1 < i)
    BY <1>1
  <1>4. ASSUME NEW m \in Earlier(k) PROVE Before(m, n) /\ ~Before(n, m)
    <2>1. PICK i \in 1..k : m = Order[i]
      BY DEF Earlier
    <2> QED
      BY <1>1, <1>2, <1>3, <2>1 DEF Before
  <1> QED
    BY <1>1, <1>2, <1>4

(* What an operation changes, and what is to come of it.                   *)
Touches(op, p) == p \in op.remove \/ (op.write /\ p = op.out)

Wants(op, vault) ==
  /\ \A p \in op.remove : vault[p] = Nothing
  /\ op.write => vault[op.out] = op.content

Shaped(op) ==
  /\ op.kind = "write" => op.write
  /\ op.write => op.kind \in {"write", "replace"} /\ op.out[1] = op.note
  /\ \A p \in op.remove : p[1] = op.note

(* The vault before a note is planned for, and after.                      *)
OneMade(op, n, F, G) ==
  /\ AtHome(G)
  /\ \A p \in VaultPaths : p[1] # n => G[p] = F[p]
  /\ \A p \in VaultPaths : G[p] = F[p] \/ (Mutates(op) /\ Touches(op, p))
  /\ Mutates(op) => Wants(op, G) /\ Shaped(op)

(* The plan for the notes so far leads to a vault where each is placed.    *)
PlanMade(plan, vault, k, I) ==
  /\ I \subseteq Earlier(k)
  /\ AtHome(plan.files)
  /\ \A m \in Earlier(k) : Placed(I, m, plan.files)
  /\ \A p \in VaultPaths : p[1] \notin Earlier(k) => plan.files[p] = vault[p]
  /\ \A b \in Bodies : plan.seen[b] # Nothing <=> \E m \in I : src[m].body = b
  /\ \A b \in Bodies : plan.seen[b] # Nothing => plan.seen[b].out[1] \in Earlier(k)
  /\ \A p \in VaultPaths :
       \/ plan.files[p] = vault[p]
       \/ \E i \in DOMAIN plan.ops : Touches(plan.ops[i], p)
  /\ \A i \in DOMAIN plan.ops : Wants(plan.ops[i], plan.files) /\ Shaped(plan.ops[i])

(* The note that is next, and those it follows.                            *)
Comes(plan, vault, k, I, n) == Reached(plan, vault, k, n) /\ PlanMade(plan, vault, k, I)

LEMMA ComesNote ==
  ASSUME NEW plan, NEW vault, NEW k, NEW I, NEW n, Comes(plan, vault, k, I, n)
  PROVE  /\ n \in Notes /\ n \notin Earlier(k) /\ n \notin I
         /\ plan.files \in Vault /\ AtHome(plan.files)
         /\ plan.seen \in [Bodies -> Operations \cup {Nothing}]
         /\ \A m \in I : Before(m, n)
BY ReachedNote, Positions DEF Comes, PlanMade, Reached

(* What the plan becomes with it.                                          *)
Becomes(plan, k, n, op, G, J, next) ==
  /\ op \in Operations /\ op.note = n
  /\ OneMade(op, n, plan.files, G) /\ Placed(J, n, G)
  /\ next.ops = Due(plan.ops, op) /\ next.files = G
  /\ \A b \in Bodies : next.seen[b] # Nothing <=> \E m \in J : src[m].body = b
  /\ \A b \in Bodies : next.seen[b] # Nothing => next.seen[b].out[1] \in Earlier(k + 1)

LEMMA PlanGrows ==
  ASSUME src \in SourceType,
         NEW plan, NEW vault, NEW k, NEW I, NEW n, Comes(plan, vault, k, I, n),
         NEW op, NEW G, NEW J, NEW next, Becomes(plan, k, n, op, G, J, next),
         J = I \/ J = I \cup {n}
  PROVE  PlanMade(next, vault, k + 1, J)
  <1>0. /\ op \in Operations /\ op.note = n
        /\ OneMade(op, n, plan.files, G) /\ Placed(J, n, G)
        /\ next.ops = Due(plan.ops, op) /\ next.files = G
        /\ \A b \in Bodies : next.seen[b] # Nothing <=> \E m \in J : src[m].body = b
        /\ \A b \in Bodies : next.seen[b] # Nothing => next.seen[b].out[1] \in Earlier(k + 1)
    BY DEF Becomes
  <1>1. /\ n \in Notes /\ n \notin Earlier(k) /\ Earlier(k + 1) = Earlier(k) \cup {n}
        /\ Earlier(k) \subseteq Notes /\ AtHome(plan.files) /\ AtHome(G)
        /\ I \subseteq Earlier(k)
    BY <1>0, ReachedNote, NoteAhead DEF Comes, Reached, PlanMade, OneMade
  <1>2. \A m \in Earlier(k) : ~Before(n, m)
    BY Positions DEF Comes, Reached
  <1>3. ASSUME NEW m \in Earlier(k) PROVE Placed(J, m, G)
    <2>1. SaidBy(J, m) <=> SaidBy(I, m)
      BY <1>2 DEF SaidBy
    <2>2. m # n /\ (m \in J <=> m \in I)
      BY <1>1
    <2>3. Placed(I, m, plan.files) /\ \A p \in VaultPaths : p[1] = m => G[p] = plan.files[p]
      BY <1>0, <2>2 DEF Comes, PlanMade, OneMade
    <2> QED
      BY <1>1, <2>1, <2>2, <2>3, StaysPlaced
  <1>4. /\ plan.ops \in Seq(Operations)
        /\ \A i \in DOMAIN plan.ops : plan.ops[i].note \in Earlier(k)
    BY DEF Comes, Reached, PlanOK, OpsOK
  <1>5. /\ \A i \in DOMAIN plan.ops : i \in DOMAIN next.ops /\ next.ops[i] = plan.ops[i]
        /\ Mutates(op) => \E i \in DOMAIN next.ops : next.ops[i] = op
        /\ \A i \in DOMAIN next.ops :
             \/ i \in DOMAIN plan.ops /\ next.ops[i] = plan.ops[i]
             \/ next.ops[i] = op /\ Mutates(op)
    <2>1. CASE Mutates(op)
      <3>1. next.ops = Append(plan.ops, op)
        BY <1>0, <2>1 DEF Due
      <3>2. /\ Len(next.ops) = Len(plan.ops) + 1 /\ DOMAIN next.ops = 1..(Len(plan.ops) + 1)
            /\ Len(plan.ops) \in Nat /\ DOMAIN plan.ops = 1..Len(plan.ops)
            /\ \A i \in 1..Len(plan.ops) : next.ops[i] = plan.ops[i]
            /\ next.ops[Len(plan.ops) + 1] = op
        BY <1>4, <3>1
      <3> QED
        BY <2>1, <3>2
    <2>2. CASE ~Mutates(op)
      BY <1>0, <2>2 DEF Due
    <2> QED
      BY <2>1, <2>2
  <1>6. ASSUME NEW p \in VaultPaths, p[1] \notin Earlier(k + 1) PROVE G[p] = vault[p]
    <2>1. p[1] # n /\ p[1] \notin Earlier(k)
      BY <1>1, <1>6
    <2> QED
      BY <1>0, <2>1 DEF Comes, PlanMade, OneMade
  <1>7. ASSUME NEW p \in VaultPaths
        PROVE  G[p] = vault[p] \/ \E i \in DOMAIN next.ops : Touches(next.ops[i], p)
    <2>1. CASE Mutates(op) /\ Touches(op, p)
      BY <1>5, <2>1
    <2>2. CASE ~(Mutates(op) /\ Touches(op, p))
      <3>1. G[p] = plan.files[p]
        BY <1>0, <2>2 DEF OneMade
      <3>2. plan.files[p] = vault[p] \/ \E i \in DOMAIN plan.ops : Touches(plan.ops[i], p)
        BY DEF Comes, PlanMade
      <3> QED
        BY <1>5, <3>1, <3>2
    <2> QED
      BY <2>1, <2>2
  <1>8. ASSUME NEW i \in DOMAIN next.ops PROVE Wants(next.ops[i], G) /\ Shaped(next.ops[i])
    <2>1. CASE next.ops[i] = op /\ Mutates(op)
      BY <1>0, <2>1 DEF OneMade
    <2>2. CASE i \in DOMAIN plan.ops /\ next.ops[i] = plan.ops[i]
      <3> DEFINE old == plan.ops[i]
      <3>1. /\ old \in Operations /\ old.note # n /\ Wants(old, plan.files) /\ Shaped(old)
            /\ next.ops[i] = old
        BY <1>1, <1>4, <2>2 DEF Comes, PlanMade
      <3> HIDE DEF old
      <3>2. /\ old.remove \subseteq VaultPaths /\ old.out \in VaultPaths
            /\ \A p \in old.remove : p[1] # n
            /\ old.write => old.out[1] # n
        BY <3>1 DEF Operations, Shaped
      <3>3. \A p \in VaultPaths : p[1] # n => G[p] = plan.files[p]
        BY <1>0 DEF OneMade
      <3>4. Wants(old, G)
        BY <3>1, <3>2, <3>3 DEF Wants
      <3> QED
        BY <3>1, <3>4
    <2> QED
      BY <1>5, <2>1, <2>2
  <1>9. \A m \in Earlier(k + 1) : Placed(J, m, G)
    BY <1>0, <1>1, <1>3
  <1>10. J \subseteq Earlier(k + 1)
    BY <1>1
  <1> QED
    BY <1>0, <1>1, <1>6, <1>7, <1>8, <1>9, <1>10 DEF PlanMade

(* A note whose plan is in conflict.                                       *)
LEMMA NothingMade ==
  ASSUME NEW op, NEW n, NEW F, AtHome(F), ~Mutates(op)
  PROVE  OneMade(op, n, F, F)
BY DEF OneMade

(* What the plan says of a note of its own.                                *)
Decides(op, n, F) ==
  /\ op \in Operations /\ op.note = n
  /\ IsOut(n, op.out, F)
  /\ op.remove = OwnedBy(F, n) \ {op.out}
  /\ op.content.owner = n /\ (Plain(src[n]) => UpToDate(src[n], op.content))
  /\ op.write <=> F[op.out] = Nothing \/ ~UpToDate(src[n], F[op.out])
  /\ op.kind = "conflict" =>
       \/ \E p \in op.remove : Enriched(src[n], F[p])
       \/ F[op.out] # Nothing /\ BodyEnriched(src[n], F[op.out])
  /\ op.kind # "conflict" =>
       /\ op.kind = "skip" <=> ~op.write /\ op.remove = {}
       /\ op.kind \in {"skip", "replace", "write"}
       /\ op.kind = "write" => OwnedBy(F, n) = {}

LEMMA ImportDecided ==
  ASSUME src \in SourceType, NEW plan, NEW vault, NEW k, NEW n, Reached(plan, vault, k, n),
         NEW op, op = ImportOf(n, plan)
  PROVE  Decides(op, n, plan.files)
  <1> DEFINE owned == OwnedBy(plan.files, n)
             out == OutOf(n, plan.files)
             remove == owned \ {out}
             prior == IF out \in owned THEN plan.files[out]
                      ELSE IF owned # {} THEN FirstFile(plan.files, owned) ELSE Nothing
             write == out \notin owned \/ ~UpToDate(src[n], prior)
             kind == IF \/ \E p \in remove : Enriched(src[n], plan.files[p])
                        \/ out \in owned /\ BodyEnriched(src[n], prior) THEN "conflict"
                     ELSE IF ~write /\ remove = {} THEN "skip"
                     ELSE IF owned # {} THEN "replace" ELSE "write"
  <1>1. op \in Operations /\ op.note = n
    BY ImportPlanned
  <1>2. n \in Notes /\ plan.files \in Vault
    BY ReachedNote
  <1>3. /\ op.kind = kind /\ op.out = out /\ op.remove = remove
        /\ op.write = write /\ op.content = Rendered(n, prior)
    BY DEF ImportOf, Operation
  <1>4. IsOut(n, out, plan.files)
    <2> DEFINE F == plan.files
    <2>1. HasRoom(n, F) /\ F \in Vault
      BY <1>2, RoomLeft
    <2> HIDE DEF F
    <2>2. IsOut(n, OutOf(n, F), F)
      BY <1>2, <2>1, OutIsOut
    <2> QED
      BY <2>2 DEF F
  <1>5. out \in VaultPaths /\ (plan.files[out] = Nothing \/ plan.files[out].owner = n)
    BY <1>2, <1>4, OutThere
  <1>6. /\ out \in owned <=> plan.files[out] # Nothing
        /\ out \in owned => prior = plan.files[out]
    BY <1>5 DEF OwnedBy
  <1> DEFINE was == plan.files[out]
  <1>7. /\ kind = "conflict" => \/ \E p \in remove : Enriched(src[n], plan.files[p])
                                \/ was # Nothing /\ BodyEnriched(src[n], was)
        /\ kind # "conflict" => /\ kind = "skip" <=> ~write /\ remove = {}
                                /\ kind \in {"skip", "replace", "write"}
                                /\ kind = "write" => owned = {}
    BY <1>6
  <1>8. write <=> was = Nothing \/ ~UpToDate(src[n], was)
    BY <1>6
  <1>9. prior \in File \cup {Nothing}
    <2> DEFINE F == plan.files
    <2>1. F \in Vault
      BY <1>2
    <2>2. prior = IF out \in OwnedBy(F, n) THEN F[out]
                  ELSE IF OwnedBy(F, n) # {} THEN FirstFile(F, OwnedBy(F, n)) ELSE Nothing
      OBVIOUS
    <2> HIDE DEF owned, out, remove, prior, write, kind, F
    <2> QED
      BY <1>2, <2>1, <2>2, PriorType
  <1> HIDE DEF out, remove, prior, write, kind
  <1>10. /\ Rendered(n, prior).owner = n
         /\ Plain(src[n]) => UpToDate(src[n], Rendered(n, prior))
    BY <1>2, <1>9, RenderedType
  <1> QED
    BY <1>1, <1>3, <1>4, <1>7, <1>8, <1>10 DEF Decides, remove

LEMMA ImportMade ==
  ASSUME src \in SourceType, NEW F \in Vault, AtHome(F), NEW n \in Notes,
         NEW op, Decides(op, n, F), op.kind # "conflict",
         NEW kept, kept = [p \in VaultPaths |-> IF p \in op.remove THEN Nothing ELSE F[p]],
         NEW G, G = IF op.write THEN [kept EXCEPT ![op.out] = op.content] ELSE kept
  PROVE  OneMade(op, n, F, G) /\ Imported(n, op.out, G)
  <1>1. /\ op \in Operations /\ op.note = n /\ op.out \in VaultPaths /\ op.out[1] = n
        /\ F[op.out] = Nothing \/ F[op.out].owner = n
        /\ op.remove = OwnedBy(F, n) \ {op.out}
    BY OutThere DEF Decides
  <1>2. /\ G[op.out] = IF op.write THEN op.content ELSE F[op.out]
        /\ \A p \in VaultPaths : p # op.out =>
             G[p] = IF p \in op.remove THEN Nothing ELSE F[p]
    BY <1>1
  <1>3. op.content # Nothing
    BY <1>1, MigrationAssumption DEF Operations
  <1>4. /\ G[op.out] # Nothing /\ G[op.out].owner = n
        /\ Plain(src[n]) => UpToDate(src[n], G[op.out])
    <2>1. CASE op.write
      BY <1>2, <1>3, <2>1 DEF Decides
    <2>2. CASE ~op.write
      BY <1>1, <1>2, <2>2 DEF Decides
    <2> QED
      BY <2>1, <2>2
  <1>5. \A p \in op.remove : p \in VaultPaths /\ p[1] = n /\ G[p] = Nothing
    BY <1>1, <1>2, OwnPaths
  <1>6. \A p \in VaultPaths : p[1] # n => G[p] = F[p]
    BY <1>1, <1>2, <1>5
  <1>7. AtHome(G)
    <2> SUFFICES ASSUME NEW p \in VaultPaths, G[p] # Nothing
                 PROVE  G[p].owner \in {p[1], Nothing}
      BY DEF AtHome
    <2>1. CASE p = op.out
      BY <1>1, <1>4, <2>1
    <2>2. CASE p # op.out
      BY <1>2, <2>2 DEF AtHome
    <2> QED
      BY <2>1, <2>2
  <1>8. OwnedBy(G, n) = {op.out}
    <2>1. op.out \in OwnedBy(G, n)
      BY <1>1, <1>4 DEF OwnedBy
    <2>2. ASSUME NEW p \in OwnedBy(G, n) PROVE p = op.out
      <3>1. p \in VaultPaths /\ G[p] # Nothing /\ G[p].owner = n
        BY <2>2 DEF OwnedBy
      <3>2. CASE p # op.out
        <4>1. G[p] = F[p] /\ p \notin op.remove
          BY <1>2, <3>1, <3>2
        <4> QED
          BY <1>1, <3>1, <3>2, <4>1 DEF OwnedBy
      <3> QED
        BY <3>2
    <2> QED
      BY <2>1, <2>2
  <1>9. IsOut(n, op.out, G)
    <2>0. MaxSuffix \in Nat
      BY MigrationAssumption
    <2>1. PICK i \in 0..MaxSuffix :
            /\ op.out = <<n, src[n].home, i>> /\ FreeFor(n, F, i)
            /\ \A j \in 0..(i - 1) : ~FreeFor(n, F, j)
      BY DEF Decides, IsOut
    <2>2. FreeFor(n, G, i)
      BY <1>4, <2>1 DEF FreeFor
    <2>3. ASSUME NEW j \in 0..(i - 1) PROVE ~FreeFor(n, G, j)
      <3> DEFINE p == <<n, src[n].home, j>>
      <3>1. p \in VaultPaths /\ p # op.out
        BY <2>0, <2>1, <2>3, SamePath
      <3>2. F[p] # Nothing /\ F[p].owner # n
        BY <2>1, <2>3 DEF FreeFor
      <3> HIDE DEF p
      <3>3. G[p] = F[p]
        BY <1>1, <1>2, <3>1, <3>2 DEF OwnedBy
      <3> QED
        BY <3>2, <3>3 DEF FreeFor, p
    <2> QED
      BY <2>1, <2>2, <2>3 DEF IsOut
  <1>10. Imported(n, op.out, G)
    BY <1>4, <1>8, <1>9 DEF Imported
  <1>11. ~op.write => G[op.out] = F[op.out]
    BY <1>2
  <1>12. ASSUME NEW p \in VaultPaths PROVE G[p] = F[p] \/ Touches(op, p)
    BY <1>2, <1>11 DEF Touches
  <1>13. op.kind \in {"skip", "replace", "write"} /\ (op.kind = "skip" <=> ~op.write /\ op.remove = {})
    BY DEF Decides
  <1>14. Mutates(op) \/ \A p : ~Touches(op, p)
    BY <1>13 DEF Mutates, Touches
  <1>15. Wants(op, G)
    BY <1>2, <1>5 DEF Wants
  <1>16. Shaped(op)
    <2>1. op.kind = "write" => op.write
      BY <1>1 DEF Decides, OwnedBy
    <2>2. op.write => op.kind \in {"write", "replace"}
      BY <1>13
    <2> QED
      BY <1>1, <1>5, <2>1, <2>2 DEF Shaped
  <1>17. OneMade(op, n, F, G)
    BY <1>6, <1>7, <1>12, <1>14, <1>15, <1>16 DEF OneMade
  <1> QED
    BY <1>10, <1>17

LEMMA ImportDisputed ==
  ASSUME src \in SourceType, NEW F, NEW n \in Notes,
         NEW op, Decides(op, n, F), op.kind = "conflict"
  PROVE  op.out \in VaultPaths /\ Disputed(n, op.out, F)
  <1>1. /\ op.out \in VaultPaths /\ (F[op.out] = Nothing \/ F[op.out].owner = n)
        /\ op.remove = OwnedBy(F, n) \ {op.out}
    BY OutThere DEF Decides
  <1>2. F[op.out] # Nothing => op.out \in OwnedBy(F, n)
    BY <1>1 DEF OwnedBy
  <1> QED
    BY <1>1, <1>2 DEF Decides, Disputed

(* What the plan says of a note that another stands for.                   *)
Doubles(op, n, F) ==
  /\ op \in Operations /\ op.note = n
  /\ op.remove = OwnedBy(F, n) /\ ~op.write
  /\ op.kind = "conflict" => \E p \in OwnedBy(F, n) : Enriched(src[n], F[p])
  /\ op.kind # "conflict" => /\ op.kind = "collapse" <=> op.remove # {}
                             /\ op.kind \in {"collapse", "duplicate"}

LEMMA DuplicateDecided ==
  ASSUME src \in SourceType,
         NEW plan, NEW vault, NEW k, NEW n, Reached(plan, vault, k, n), AtHome(plan.files),
         plan.seen[src[n].body] # Nothing, plan.seen[src[n].body].out[1] # n,
         NEW op, op = DuplicateOf(n, plan)
  PROVE  Doubles(op, n, plan.files)
  <1> DEFINE survivor == plan.seen[src[n].body]
             remove == OwnedBy(plan.files, n) \ {survivor.out}
             kind == IF \E p \in remove : Enriched(src[n], plan.files[p]) THEN "conflict"
                     ELSE IF remove # {} THEN "collapse" ELSE "duplicate"
  <1>1. op \in Operations /\ op.note = n
    BY DuplicatePlanned
  <1>2. n \in Notes
    BY ReachedNote
  <1>3. remove = OwnedBy(plan.files, n)
    BY <1>2, OwnPaths
  <1>4. op.kind = kind /\ op.remove = remove /\ op.write = FALSE
    BY DEF DuplicateOf, Operation
  <1>5. /\ kind = "conflict" => \E p \in remove : Enriched(src[n], plan.files[p])
        /\ kind # "conflict" => /\ kind = "collapse" <=> remove # {}
                                /\ kind \in {"collapse", "duplicate"}
    OBVIOUS
  <1> HIDE DEF survivor, remove, kind
  <1> QED
    BY <1>1, <1>3, <1>4, <1>5 DEF Doubles

LEMMA DuplicateMade ==
  ASSUME NEW F \in Vault, AtHome(F), NEW n \in Notes,
         NEW op, Doubles(op, n, F), op.kind # "conflict",
         NEW G, G = [p \in VaultPaths |-> IF p \in op.remove THEN Nothing ELSE F[p]]
  PROVE  OneMade(op, n, F, G) /\ Doubled(n, G)
  <1>1. /\ op.remove = OwnedBy(F, n) /\ ~op.write /\ op.note = n
        /\ op.kind = "collapse" <=> op.remove # {}
        /\ op.kind \in {"collapse", "duplicate"}
    BY DEF Doubles
  <1>2. \A p \in VaultPaths : G[p] = IF p \in op.remove THEN Nothing ELSE F[p]
    OBVIOUS
  <1>3. \A p \in op.remove : p \in VaultPaths /\ p[1] = n /\ G[p] = Nothing
    BY <1>1, <1>2, OwnPaths
  <1>4. AtHome(G) /\ \A p \in VaultPaths : p[1] # n => G[p] = F[p]
    BY <1>2, <1>3 DEF AtHome
  <1>5. OwnedBy(G, n) = {}
    BY <1>1, <1>2 DEF OwnedBy
  <1>6. \A p \in VaultPaths : G[p] = F[p] \/ (Mutates(op) /\ Touches(op, p))
    BY <1>1, <1>2 DEF Mutates, Touches
  <1>7. Wants(op, G) /\ Shaped(op)
    BY <1>1, <1>3 DEF Wants, Shaped
  <1> QED
    BY <1>4, <1>5, <1>6, <1>7 DEF OneMade, Doubled

(* One more note is placed, in the vault as it will be.                    *)
LEMMA NotePlaced ==
  ASSUME src \in SourceType,
         NEW plan, NEW vault, NEW k, NEW I, NEW n, Comes(plan, vault, k, I, n)
  PROVE  \E J : PlanMade(Planned(plan, n), vault, k + 1, J)
  <1> DEFINE new == plan.seen[src[n].body] = Nothing
             op == IF new THEN ImportOf(n, plan) ELSE DuplicateOf(n, plan)
             kept == [p \in VaultPaths |-> IF p \in op.remove THEN Nothing ELSE plan.files[p]]
             seen == IF new /\ op.kind # "conflict" THEN [plan.seen EXCEPT ![src[n].body] = op]
                     ELSE plan.seen
             made == IF op.kind = "conflict" THEN plan.files
                     ELSE IF op.write THEN [kept EXCEPT ![op.out] = op.content] ELSE kept
             next == Planned(plan, n)
  <1>1. next.ops = Due(plan.ops, op) /\ next.seen = seen /\ next.files = made
    BY DEF Planned
  <1>2. /\ n \in Notes /\ n \notin Earlier(k) /\ n \notin I
        /\ plan.files \in Vault /\ AtHome(plan.files)
        /\ plan.seen \in [Bodies -> Operations \cup {Nothing}]
        /\ \A m \in I : Before(m, n)
        /\ Reached(plan, vault, k, n)
        /\ Earlier(k + 1) = Earlier(k) \cup {n}
        /\ src[n].body \in Bodies
    BY ComesNote, ReachedNote DEF Comes, SourceType, Source
  <1>3. /\ \A b \in Bodies : plan.seen[b] # Nothing <=> \E m \in I : src[m].body = b
        /\ \A b \in Bodies : plan.seen[b] # Nothing => plan.seen[b].out[1] \in Earlier(k)
    BY DEF Comes, PlanMade
  <1>4. ~new <=> SaidBy(I, n)
    BY <1>2, <1>3 DEF SaidBy
  <1>5. CASE new
    <2>1. op = ImportOf(n, plan)
      BY <1>5
    <2> HIDE DEF op, new
    <2>2. Decides(op, n, plan.files)
      BY <1>2, <2>1, ImportDecided
    <2>3. op \in Operations /\ op.note = n /\ op # Nothing
      BY <2>2, MigrationAssumption DEF Decides
    <2>4. CASE op.kind = "conflict"
      <3>1. made = plan.files /\ seen = plan.seen
        BY <2>4
      <3> HIDE DEF made, seen, next
      <3>2. OneMade(op, n, plan.files, made)
        BY <1>2, <2>4, <3>1, NothingMade DEF Mutates
      <3>3. Placed(I, n, made)
        BY <1>2, <1>4, <1>5, <2>2, <2>4, <3>1, ImportDisputed DEF Placed
      <3>4. Becomes(plan, k, n, op, made, I, next)
        BY <1>1, <1>2, <1>3, <2>3, <3>1, <3>2, <3>3 DEF Becomes
      <3>5. PlanMade(next, vault, k + 1, I)
        BY <3>4, PlanGrows
      <3> QED
        BY <3>5 DEF next
    <2>5. CASE op.kind # "conflict"
      <3>1. /\ made = IF op.write THEN [kept EXCEPT ![op.out] = op.content] ELSE kept
            /\ seen = [plan.seen EXCEPT ![src[n].body] = op]
        BY <1>5, <2>5
      <3>2. OneMade(op, n, plan.files, made) /\ Imported(n, op.out, made)
        <4>1. kept = [p \in VaultPaths |-> IF p \in op.remove THEN Nothing ELSE plan.files[p]]
          OBVIOUS
        <4> HIDE DEF made, kept
        <4> QED
          BY <1>2, <2>2, <2>5, <3>1, <4>1, ImportMade
      <3> HIDE DEF made, seen, next
      <3> DEFINE J == I \cup {n}
      <3>3. op.out \in VaultPaths /\ op.out[1] = n
        BY <1>2, <2>2, OutThere DEF Decides
      <3>4. ~SaidBy(J, n)
        <4>1. ~Before(n, n)
          BY <1>2, Positions DEF Reached
        <4> QED
          BY <1>4, <1>5, <4>1 DEF SaidBy
      <3>5. Placed(J, n, made)
        BY <3>2, <3>3, <3>4 DEF Placed
      <3>6. \A b \in Bodies : seen[b] = IF b = src[n].body THEN op ELSE plan.seen[b]
        BY <1>2, <3>1
      <3>7. \A b \in Bodies : seen[b] # Nothing <=> \E m \in J : src[m].body = b
        BY <1>3, <2>3, <3>6
      <3>8. \A b \in Bodies : seen[b] # Nothing => seen[b].out[1] \in Earlier(k + 1)
        BY <1>2, <1>3, <3>3, <3>6
      <3> HIDE DEF J
      <3>9. Becomes(plan, k, n, op, made, J, next)
        BY <1>1, <2>3, <3>2, <3>5, <3>7, <3>8 DEF Becomes
      <3>10. PlanMade(next, vault, k + 1, J)
        BY <3>9, PlanGrows DEF J
      <3> QED
        BY <3>10 DEF next
    <2> QED
      BY <2>4, <2>5
  <1>6. CASE ~new
    <2>1. op = DuplicateOf(n, plan) /\ seen = plan.seen
      BY <1>6
    <2>2. plan.seen[src[n].body] # Nothing /\ plan.seen[src[n].body].out[1] # n
      BY <1>2, <1>3, <1>6
    <2>3. op.kind # "conflict" /\ ~op.write => made = kept
      BY <1>6
    <2> HIDE DEF op, new, seen
    <2>4. Doubles(op, n, plan.files) /\ ~op.write
      BY <1>2, <2>1, <2>2, DuplicateDecided DEF Doubles
    <2>5. op \in Operations /\ op.note = n
      BY <2>4 DEF Doubles
    <2>6. OneMade(op, n, plan.files, made) /\ Doubled(n, made)
      <3>1. CASE op.kind = "conflict"
        <4>1. made = plan.files
          BY <3>1
        <4> HIDE DEF made
        <4>2. OneMade(op, n, plan.files, made)
          BY <1>2, <3>1, <4>1, NothingMade DEF Mutates
        <4> QED
          BY <2>4, <3>1, <4>1, <4>2 DEF Doubles, Doubled
      <3>2. CASE op.kind # "conflict"
        <4>1. made = kept
          BY <2>3, <2>4, <3>2
        <4> HIDE DEF made
        <4> QED
          BY <1>2, <2>4, <3>2, <4>1, DuplicateMade
      <3> QED
        BY <3>1, <3>2
    <2> HIDE DEF made, next
    <2>7. Placed(I, n, made)
      BY <1>2, <1>4, <1>6, <2>6 DEF Placed
    <2>8. \A b \in Bodies : seen[b] # Nothing => seen[b].out[1] \in Earlier(k + 1)
      BY <1>2, <1>3, <2>1
    <2>9. Becomes(plan, k, n, op, made, I, next)
      BY <1>1, <1>3, <2>1, <2>5, <2>6, <2>7, <2>8 DEF Becomes
    <2>10. PlanMade(next, vault, k + 1, I)
      BY <2>9, PlanGrows
    <2> QED
      BY <2>10 DEF next
  <1> QED
    BY <1>5, <1>6

(* A plan for all of them leads to a vault that is finished.               *)
LEMMA PlanFinishes ==
  ASSUME src \in SourceType, files \in Vault, AtHome(files), \A n \in Notes : HasRoom(n, files)
  PROVE  \E G \in Vault :
           /\ Finished(G)
           /\ \A p \in VaultPaths :
                G[p] = files[p] \/ \E i \in DOMAIN PlanNotes : Touches(PlanNotes[i], p)
           /\ \A i \in DOMAIN PlanNotes : Wants(PlanNotes[i], G) /\ Shaped(PlanNotes[i])
  <1> DEFINE N == Len(Order)
             S == {k \in 0..N : /\ PlanOK(PlanAfter[k], files, k)
                                /\ \E I : PlanMade(PlanAfter[k], files, k, I)}
  <1>0. N \in Nat
    BY MigrationAssumption
  <1>1. 0 \in S
    <2>1. PlanAfter[0] = Unplanned
      BY PlanSteps
    <2>2. PlanOK(Unplanned, files, 0)
      BY DEF PlanOK, Unplanned, OpsOK
    <2>3. Earlier(0) = {}
      BY DEF Earlier
    <2>4. PlanMade(Unplanned, files, 0, {})
      BY <2>3 DEF PlanMade, Unplanned
    <2> QED
      BY <1>0, <2>1, <2>2, <2>4
  <1>2. ASSUME NEW k \in S, k < N PROVE k + 1 \in S
    <2>1. k + 1 \in 0..N /\ k + 1 \in 1..N /\ (k + 1) - 1 = k
      BY <1>0, <1>2
    <2>2. PlanAfter[k + 1] = Planned(PlanAfter[k], Order[k + 1])
      BY <2>1, PlanSteps
    <2>3. Order[k + 1] \in Notes
      BY <1>2, NoteAhead
    <2> DEFINE n == Order[k + 1]
               plan == PlanAfter[k]
    <2>4. HasRoom(n, files)
      BY <2>3
    <2>5. Reached(plan, files, k, n)
      BY <1>2, <2>4 DEF Reached
    <2>6. PICK I : PlanMade(plan, files, k, I)
      OBVIOUS
    <2> HIDE DEF n, plan
    <2>7. PlanOK(Planned(plan, n), files, k + 1)
      BY <2>5, PlannedStep
    <2>8. \E J : PlanMade(Planned(plan, n), files, k + 1, J)
      BY <2>5, <2>6, NotePlaced DEF Comes
    <2> QED
      BY <2>1, <2>2, <2>7, <2>8 DEF n, plan
  <1>3. S = 0..N
    <2>1. S \subseteq 0..N
      OBVIOUS
    <2> HIDE DEF S
    <2> QED
      BY <1>0, <1>1, <1>2, <2>1, Upwards
  <1> DEFINE plan == PlanAfter[N]
  <1>4. PlanOK(plan, files, N) /\ \E I : PlanMade(plan, files, N, I)
    BY <1>0, <1>3
  <1>5. PlanNotes = plan.ops
    BY DEF PlanNotes
  <1> HIDE DEF plan
  <1>6. PICK I : PlanMade(plan, files, N, I)
    BY <1>4
  <1>7. Earlier(N) = Notes
    <2>1. DOMAIN Order = 1..N /\ Order \in Seq(Notes) /\ \A n \in Notes : \E i \in DOMAIN Order : Order[i] = n
      BY MigrationAssumption
    <2> QED
      BY <2>1 DEF Earlier
  <1>8. Finished(plan.files)
    BY <1>6, <1>7 DEF PlanMade, Finished
  <1>9. plan.files \in Vault
    BY <1>4 DEF PlanOK
  <1> QED
    BY <1>5, <1>6, <1>8, <1>9 DEF PlanMade

(* Over a vault that is finished a plan has come to nothing so far.         *)
Idles(plan, vault, k, I) ==
  /\ plan.ops = <<>> /\ plan.files = vault
  /\ plan.seen \in [Bodies -> Operations \cup {Nothing}]
  /\ \A b \in Bodies : plan.seen[b] # Nothing <=> \E m \in I : m \in Earlier(k) /\ src[m].body = b
  /\ \A b \in Bodies : plan.seen[b] # Nothing => plan.seen[b].out[1] \in Earlier(k)

IdlesAt(plan, vault, k, I, n) ==
  /\ src \in SourceType /\ vault \in Vault /\ AtHome(vault)
  /\ k \in 0..Len(Order) /\ k < Len(Order) /\ n = Order[k + 1]
  /\ Idles(plan, vault, k, I) /\ I \subseteq Notes /\ Placed(I, n, vault)
  /\ Plain(src[n])

LEMMA AheadOf ==
  ASSUME NEW k \in 0..Len(Order), k < Len(Order), NEW n, n = Order[k + 1],
         NEW m, Before(m, n)
  PROVE  m \in Earlier(k)
  <1>1. /\ DOMAIN Order = 1..Len(Order) /\ Len(Order) \in Nat /\ k + 1 \in DOMAIN Order
        /\ \A i, j \in DOMAIN Order : Order[i] = Order[j] => i = j
    BY MigrationAssumption
  <1>2. PICK i \in DOMAIN Order, j \in DOMAIN Order : i < j /\ Order[i] = m /\ Order[j] = n
    BY DEF Before
  <1>3. j = k + 1 /\ i \in 1..k
    BY <1>1, <1>2
  <1> QED
    BY <1>2, <1>3 DEF Earlier

(* A note that is where it should be is skipped.                           *)
LEMMA Skipped ==
  ASSUME NEW plan, NEW vault, NEW k, NEW I, NEW n, IdlesAt(plan, vault, k, I, n),
         ~SaidBy(I, n), NEW op, op = ImportOf(n, plan)
  PROVE  /\ op \in Operations
         /\ op.out[1] = n
         /\ n \notin I => op.kind = "conflict"
         /\ n \in I => op.kind = "skip" /\ ~op.write /\ op.remove = {}
  <1>1. /\ n \in Notes /\ src \in SourceType /\ vault \in Vault /\ AtHome(vault)
        /\ plan.files = vault
    BY NoteAhead DEF IdlesAt, Idles
  <1>2. PICK out \in VaultPaths : /\ n \in I => Imported(n, out, vault)
                                  /\ n \notin I => Disputed(n, out, vault)
    BY DEF IdlesAt, Placed
  <1>3. IsOut(n, out, vault)
    BY <1>2 DEF Imported, Disputed
  <1>4. /\ OutOf(n, vault) = out /\ out[1] = n
        /\ vault[out] = Nothing \/ vault[out].owner = n
    BY <1>1, <1>3, OutIsOne, OutThere
  <1> DEFINE owned == OwnedBy(vault, n)
             remove == owned \ {out}
             prior == IF out \in owned THEN vault[out]
                      ELSE IF owned # {} THEN FirstFile(vault, owned) ELSE Nothing
             write == out \notin owned \/ ~UpToDate(src[n], prior)
             kind == IF \/ \E p \in remove : Enriched(src[n], vault[p])
                        \/ out \in owned /\ BodyEnriched(src[n], prior) THEN "conflict"
                     ELSE IF ~write /\ remove = {} THEN "skip"
                     ELSE IF owned # {} THEN "replace" ELSE "write"
  <1>5. op = [kind |-> kind, note |-> n, out |-> out, remove |-> remove, write |-> write,
              content |-> Rendered(n, prior)]
    BY <1>1, <1>4 DEF ImportOf, Operation
  <1>6. op \in Operations
    <2>1. prior \in File \cup {Nothing}
      <3>0. prior = IF out \in owned THEN vault[out]
                    ELSE IF owned # {} THEN FirstFile(vault, owned) ELSE Nothing
        OBVIOUS
      <3> HIDE DEF prior, remove, write, kind
      <3> QED
        BY <1>1, <3>0, PriorType
    <2>2. Rendered(n, prior) \in File
      <3> HIDE DEF owned, prior, remove, write, kind
      <3> QED
        BY <1>1, <2>1, RenderedType
    <2>3. kind \in {"conflict", "skip", "replace", "write"} /\ write \in BOOLEAN
      OBVIOUS
    <2>4. remove \in SUBSET VaultPaths
      BY DEF OwnedBy
    <2> HIDE DEF remove, prior, write, kind
    <2> QED
      BY <1>1, <1>5, <2>2, <2>3, <2>4 DEF Operations
  <1>7. ASSUME n \notin I PROVE kind = "conflict"
    BY <1>2, <1>7 DEF Disputed
  <1>8. ASSUME n \in I PROVE kind = "skip" /\ ~write /\ remove = {}
    <2>1. owned = {out} /\ UpToDate(src[n], vault[out])
      BY <1>2, <1>8 DEF Imported, IdlesAt
    <2>2. remove = {} /\ prior = vault[out] /\ prior \in File
      BY <1>1, <2>1 DEF OwnedBy, Vault
    <2>3. ~write /\ ~BodyEnriched(src[n], prior)
      BY <2>1, <2>2, MigrationAssumption DEF UpToDate, BodyEnriched, File
    <2> QED
      BY <2>2, <2>3
  <1> HIDE DEF owned, remove, prior, write, kind
  <1>9. op.kind = kind /\ op.out = out /\ op.remove = remove /\ op.write = write
    BY <1>5
  <1> QED
    BY <1>4, <1>6, <1>7, <1>8, <1>9

(* A note that another stands for is left as it is.                        *)
LEMMA LeftAsItIs ==
  ASSUME NEW plan, NEW vault, NEW k, NEW I, NEW n, IdlesAt(plan, vault, k, I, n),
         SaidBy(I, n), plan.seen[src[n].body].out[1] # n, NEW op, op = DuplicateOf(n, plan)
  PROVE  /\ op.kind \in {"conflict", "duplicate"} /\ ~op.write
         /\ op.kind = "duplicate" => op.remove = {}
  <1>1. /\ n \in Notes /\ AtHome(vault) /\ plan.files = vault /\ Doubled(n, vault)
    BY NoteAhead DEF IdlesAt, Idles, Placed
  <1> DEFINE survivor == plan.seen[src[n].body]
             remove == OwnedBy(vault, n) \ {survivor.out}
             kind == IF \E p \in remove : Enriched(src[n], vault[p]) THEN "conflict"
                     ELSE IF remove # {} THEN "collapse" ELSE "duplicate"
  <1>2. remove = OwnedBy(vault, n)
    BY <1>1, OwnPaths
  <1>3. op.kind = kind /\ op.remove = remove /\ ~op.write
    BY <1>1 DEF DuplicateOf, Operation
  <1>4. kind \in {"conflict", "duplicate"} /\ (kind = "duplicate" => remove = {})
    BY <1>1, <1>2 DEF Doubled
  <1> HIDE DEF kind, remove
  <1> QED
    BY <1>3, <1>4

LEMMA IdlesOn ==
  ASSUME NEW plan, NEW vault, NEW k, NEW I, NEW n, IdlesAt(plan, vault, k, I, n)
  PROVE  Idles(Planned(plan, n), vault, k + 1, I)
  <1> DEFINE new == plan.seen[src[n].body] = Nothing
             op == IF new THEN ImportOf(n, plan) ELSE DuplicateOf(n, plan)
             kept == [p \in VaultPaths |-> IF p \in op.remove THEN Nothing ELSE plan.files[p]]
             seen == IF new /\ op.kind # "conflict" THEN [plan.seen EXCEPT ![src[n].body] = op]
                     ELSE plan.seen
             made == IF op.kind = "conflict" THEN plan.files
                     ELSE IF op.write THEN [kept EXCEPT ![op.out] = op.content] ELSE kept
             next == Planned(plan, n)
  <1>1. next.ops = Due(plan.ops, op) /\ next.seen = seen /\ next.files = made
    BY DEF Planned
  <1>2. /\ n \in Notes /\ n \notin Earlier(k) /\ Earlier(k + 1) = Earlier(k) \cup {n}
        /\ src[n].body \in Bodies /\ vault \in Vault
        /\ \A m : Before(m, n) <=> m \in Earlier(k)
    BY NoteAhead, Positions, AheadOf DEF IdlesAt, SourceType, Source
  <1>3. /\ plan.ops = <<>> /\ plan.files = vault
        /\ plan.seen \in [Bodies -> Operations \cup {Nothing}]
        /\ \A b \in Bodies : plan.seen[b] # Nothing <=> \E m \in I : m \in Earlier(k) /\ src[m].body = b
        /\ \A b \in Bodies : plan.seen[b] # Nothing => plan.seen[b].out[1] \in Earlier(k)
        /\ Placed(I, n, vault)
    BY DEF IdlesAt, Idles
  <1>4. ~new <=> SaidBy(I, n)
    BY <1>2, <1>3 DEF SaidBy
  <1>5. CASE new
    <2>1. op = ImportOf(n, plan)
      BY <1>5
    <2> HIDE DEF op, new
    <2>2. /\ op \in Operations /\ op.out[1] = n
          /\ n \notin I => op.kind = "conflict"
          /\ n \in I => op.kind = "skip" /\ ~op.write /\ op.remove = {}
      BY <1>4, <1>5, <2>1, Skipped
    <2>3. ~Mutates(op) /\ op # Nothing
      BY <2>2, MigrationAssumption DEF Mutates
    <2>4. CASE n \in I
      <3>1. /\ made = vault /\ seen = [plan.seen EXCEPT ![src[n].body] = op]
        BY <1>2, <1>3, <1>5, <2>2, <2>4 DEF Vault
      <3> HIDE DEF made, seen, next
      <3>2. \A b \in Bodies : seen[b] = IF b = src[n].body THEN op ELSE plan.seen[b]
        BY <1>2, <1>3, <3>1
      <3>3. seen \in [Bodies -> Operations \cup {Nothing}]
        BY <1>3, <2>2, <3>1
      <3>4. /\ \A b \in Bodies : seen[b] # Nothing <=>
                 \E m \in I : m \in Earlier(k + 1) /\ src[m].body = b
            /\ \A b \in Bodies : seen[b] # Nothing => seen[b].out[1] \in Earlier(k + 1)
        BY <1>2, <1>3, <2>2, <2>3, <2>4, <3>2
      <3>5. Idles(next, vault, k + 1, I)
        BY <1>1, <1>3, <2>3, <3>1, <3>3, <3>4 DEF Idles, Due
      <3> QED
        BY <3>5 DEF next
    <2>5. CASE n \notin I
      <3>1. made = vault /\ seen = plan.seen
        BY <1>3, <2>2, <2>5
      <3> HIDE DEF made, seen, next
      <3>2. Idles(next, vault, k + 1, I)
        BY <1>1, <1>2, <1>3, <2>3, <2>5, <3>1 DEF Idles, Due
      <3> QED
        BY <3>2 DEF next
    <2> QED
      BY <2>4, <2>5
  <1>6. CASE ~new
    <2>1. op = DuplicateOf(n, plan) /\ seen = plan.seen
      BY <1>6
    <2>2. plan.seen[src[n].body].out[1] # n /\ n \notin I
      BY <1>2, <1>3, <1>4, <1>6 DEF Placed
    <2>3. op.kind = "conflict" => made = vault
      BY <1>3
    <2>4. op.kind # "conflict" /\ ~op.write /\ op.remove = {} => made = vault
      BY <1>2, <1>3, <1>6 DEF Vault
    <2> HIDE DEF op, new, seen, made, next
    <2>5. /\ op.kind \in {"conflict", "duplicate"} /\ ~op.write
          /\ op.kind = "duplicate" => op.remove = {}
      BY <1>4, <1>6, <2>1, <2>2, LeftAsItIs
    <2>6. ~Mutates(op) /\ made = vault
      BY <2>3, <2>4, <2>5 DEF Mutates
    <2>7. Idles(next, vault, k + 1, I)
      BY <1>1, <1>2, <1>3, <2>1, <2>2, <2>6 DEF Idles, Due
    <2> QED
      BY <2>7 DEF next
  <1> QED
    BY <1>5, <1>6

LEMMA NothingToDo ==
  ASSUME src \in SourceType, files \in Vault, AtHome(files), Finished(files),
         \A n \in Notes : Plain(src[n])
  PROVE  PlanNotes = <<>>
  <1>1. PICK I \in SUBSET Notes : \A n \in Notes : Placed(I, n, files)
    BY DEF Finished
  <1> DEFINE N == Len(Order)
             S == {k \in 0..N : Idles(PlanAfter[k], files, k, I)}
  <1>0. N \in Nat
    BY MigrationAssumption
  <1>2. 0 \in S
    <2>1. PlanAfter[0] = Unplanned
      BY PlanSteps
    <2>2. Earlier(0) = {}
      BY DEF Earlier
    <2>3. Idles(Unplanned, files, 0, I)
      BY <2>2 DEF Idles, Unplanned
    <2> QED
      BY <1>0, <2>1, <2>3
  <1>3. ASSUME NEW k \in S, k < N PROVE k + 1 \in S
    <2>1. k + 1 \in 0..N /\ k + 1 \in 1..N /\ (k + 1) - 1 = k
      BY <1>0, <1>3
    <2>2. PlanAfter[k + 1] = Planned(PlanAfter[k], Order[k + 1])
      BY <2>1, PlanSteps
    <2> DEFINE n == Order[k + 1]
               plan == PlanAfter[k]
    <2>3. Placed(I, n, files) /\ Plain(src[n])
      BY <1>1, <1>3, NoteAhead
    <2>4. IdlesAt(plan, files, k, I, n)
      BY <1>3, <2>3 DEF IdlesAt
    <2> HIDE DEF n, plan
    <2>5. Idles(Planned(plan, n), files, k + 1, I)
      BY <2>4, IdlesOn
    <2> QED
      BY <2>1, <2>2, <2>5 DEF n, plan
  <1>4. S = 0..N
    <2>1. S \subseteq 0..N
      OBVIOUS
    <2> HIDE DEF S
    <2> QED
      BY <1>0, <1>2, <1>3, <2>1, Upwards
  <1>5. Idles(PlanAfter[N], files, N, I)
    BY <1>0, <1>4
  <1> QED
    BY <1>5 DEF PlanNotes, Idles

-----------------------------------------------------------------------------
(* What a run has left to do, and where it leads if it is left alone.      *)

Pending(j, p) ==
  \/ \E i \in DOMAIN j.ops :
       /\ Touches(j.ops[i], p)
       /\ i = 1 /\ j.at \in {"remove", "unlink"} => p \in j.ops[1].remove
  \/ j.at = "unlink" /\ p = j.path

LeadsTo(j, F, G) ==
  /\ \A p \in VaultPaths : F[p] = G[p] \/ Pending(j, p)
  /\ \A i \in DOMAIN j.ops : Wants(j.ops[i], G)
  /\ j.at = "unlink" => G[j.path] = Nothing

JobShaped(j) ==
  /\ \A i \in DOMAIN j.ops : Shaped(j.ops[i])
  /\ j.at \in {"create", "overwrite"} => j.ops # <<>> /\ j.ops[1].write

(* A run that was completed left nothing to do, and one that nobody has    *)
(* interfered with leads to such a vault.                                  *)
LeadsInv ==
  /\ AtHome(files) /\ JobShaped(job)
  /\ settled => job.ops = <<>> /\ Finished(files)
  /\ job # NoJob /\ late = {} => \E G \in Vault : Finished(G) /\ LeadsTo(job, files, G)

ImportInv == MigrationInv /\ LeadsInv

LEMMA LeadsChecked ==
  ASSUME NEW j, NEW k, NEW F, NEW G, LeadsTo(j, F, G), j.at = "next",
         k.ops = j.ops, k.at \in {"create", "overwrite", "remove"},
         k.at = "remove" => ~j.ops[1].write
  PROVE  LeadsTo(k, F, G)
  <1>1. \A p \in VaultPaths : Pending(j, p) => Pending(k, p)
    BY DEF Pending, Touches
  <1> QED
    BY <1>1 DEF LeadsTo

LEMMA LeadsWritten ==
  ASSUME NEW j, NEW k, NEW F \in Vault, NEW G, LeadsTo(j, F, G),
         j.at \in {"create", "overwrite"}, j.ops \in Seq(Operations), j.ops # <<>>,
         j.ops[1].write, k.ops = j.ops, k.at = "remove",
         NEW H, H = [F EXCEPT ![j.ops[1].out] = j.ops[1].content]
  PROVE  LeadsTo(k, H, G)
  <1> DEFINE op == j.ops[1]
  <1>1. 1 \in DOMAIN j.ops /\ op \in Operations
    OBVIOUS
  <1>2. op.out \in VaultPaths /\ G[op.out] = op.content
    BY <1>1 DEF LeadsTo, Wants, Operations
  <1>3. H[op.out] = op.content /\ \A p \in VaultPaths : p # op.out => H[p] = F[p]
    BY <1>2 DEF Vault
  <1>4. ASSUME NEW p \in VaultPaths, p # op.out, Pending(j, p) PROVE Pending(k, p)
    BY <1>4 DEF Pending, Touches
  <1> QED
    BY <1>2, <1>3, <1>4 DEF LeadsTo

LEMMA LeadsTaken ==
  ASSUME NEW j, NEW k, NEW F, NEW G, LeadsTo(j, F, G), j.at = "remove",
         j.ops \in Seq(Operations), j.ops # <<>>, NEW q \in j.ops[1].remove,
         k.at = "unlink", k.path = q, k.ops = [j.ops EXCEPT ![1].remove = @ \ {q}]
  PROVE  LeadsTo(k, F, G)
  <1> DEFINE op == j.ops[1]
             less == [op EXCEPT !.remove = @ \ {q}]
  <1>1. 1 \in DOMAIN j.ops /\ op \in Operations
    OBVIOUS
  <1>2. /\ less.write = op.write /\ less.out = op.out /\ less.content = op.content
        /\ less.remove = op.remove \ {q}
    BY <1>1 DEF Operations
  <1>3. /\ DOMAIN k.ops = DOMAIN j.ops /\ k.ops[1] = less
        /\ \A i \in DOMAIN j.ops : i # 1 => k.ops[i] = j.ops[i]
    BY <1>1
  <1> HIDE DEF less
  <1>4. ASSUME NEW p \in VaultPaths, Pending(j, p) PROVE Pending(k, p)
    <2>1. CASE p = q
      BY <2>1 DEF Pending
    <2>2. CASE p # q
      <3>1. PICK i \in DOMAIN j.ops : Touches(j.ops[i], p) /\ (i = 1 => p \in j.ops[1].remove)
        BY <1>4 DEF Pending
      <3>2. CASE i = 1
        BY <1>1, <1>2, <1>3, <2>2, <3>1, <3>2 DEF Pending, Touches
      <3>3. CASE i # 1
        BY <1>3, <3>1, <3>3 DEF Pending
      <3> QED
        BY <3>2, <3>3
    <2> QED
      BY <2>1, <2>2
  <1>5. ASSUME NEW i \in DOMAIN k.ops PROVE Wants(k.ops[i], G)
    <2>1. Wants(j.ops[i], G)
      BY <1>3 DEF LeadsTo
    <2> QED
      BY <1>2, <1>3, <2>1 DEF Wants
  <1>6. G[q] = Nothing
    BY <1>1 DEF LeadsTo, Wants
  <1> QED
    BY <1>4, <1>5, <1>6 DEF LeadsTo

LEMMA LeadsRemoved ==
  ASSUME NEW j, NEW k, NEW F \in Vault, NEW G, LeadsTo(j, F, G),
         j.at = "unlink", k.ops = j.ops, k.at = "remove",
         NEW H, H = [F EXCEPT ![j.path] = Nothing]
  PROVE  LeadsTo(k, H, G)
  <1>1. \A p \in VaultPaths : H[p] = IF p = j.path THEN Nothing ELSE F[p]
    BY DEF Vault
  <1>2. \A p \in VaultPaths : p # j.path /\ Pending(j, p) => Pending(k, p)
    BY DEF Pending
  <1> QED
    BY <1>1, <1>2 DEF LeadsTo

LEMMA LeadsOn ==
  ASSUME NEW j, NEW k, NEW F, NEW G, LeadsTo(j, F, G), j.at = "remove",
         j.ops \in Seq(Operations), j.ops # <<>>, j.ops[1].remove = {},
         k.ops = Tail(j.ops), k.at = "next"
  PROVE  LeadsTo(k, F, G)
  <1>1. /\ Len(j.ops) \in Nat \ {0} /\ DOMAIN j.ops = 1..Len(j.ops)
        /\ DOMAIN k.ops = 1..(Len(j.ops) - 1)
        /\ \A i \in DOMAIN k.ops : k.ops[i] = j.ops[i + 1]
    OBVIOUS
  <1>2. ASSUME NEW p \in VaultPaths, Pending(j, p) PROVE Pending(k, p)
    <2>1. PICK i \in DOMAIN j.ops : Touches(j.ops[i], p) /\ (i = 1 => p \in j.ops[1].remove)
      BY <1>2 DEF Pending
    <2>2. i - 1 \in DOMAIN k.ops /\ k.ops[i - 1] = j.ops[i]
      BY <1>1, <2>1
    <2> QED
      BY <2>1, <2>2 DEF Pending
  <1>3. ASSUME NEW i \in DOMAIN k.ops PROVE Wants(k.ops[i], G)
    <2>1. i + 1 \in DOMAIN j.ops /\ k.ops[i] = j.ops[i + 1]
      BY <1>1
    <2> QED
      BY <2>1 DEF LeadsTo
  <1> QED
    BY <1>2, <1>3 DEF LeadsTo

LEMMA LeadsThere ==
  ASSUME NEW j, NEW F \in Vault, NEW G \in Vault, LeadsTo(j, F, G), j.at = "next", j.ops = <<>>
  PROVE  F = G
  <1>1. \A p \in VaultPaths : F[p] = G[p]
    BY DEF LeadsTo, Pending
  <1> QED
    BY <1>1 DEF Vault

LEMMA FinishedStays ==
  ASSUME UNCHANGED src, NEW G
  PROVE  Finished(G) <=> Finished(G)'
BY DEF Finished, Placed, SaidBy, Doubled, Imported, Disputed, IsOut, FreeFor, OwnedBy,
       UpToDate, Enriched, BodyEnriched, Plain

LEMMA FinishedSame ==
  ASSUME UNCHANGED <<src, files>>
  PROVE  Finished(files) <=> Finished(files)'
BY DEF Finished, Placed, SaidBy, Doubled, Imported, Disputed, IsOut, FreeFor, OwnedBy,
       UpToDate, Enriched, BodyEnriched, Plain

LEMMA LeadsPrimed ==
  /\ AtHome(files)' <=> AtHome(files')
  /\ JobShaped(job)' <=> JobShaped(job')
  /\ \A G : LeadsTo(job, files, G)' <=> LeadsTo(job', files', G)
BY DEF AtHome, JobShaped, Shaped, LeadsTo, Pending, Touches, Wants

(* A step of a run that has something to do.                               *)
LEMMA RunLeads ==
  ASSUME ImportInv, UNCHANGED <<src, late, settled>>, job # NoJob, job.ops # <<>>,
         AtHome(files'), JobShaped(job'),
         job' # NoJob => \A G \in Vault : LeadsTo(job, files, G) => LeadsTo(job', files', G)
  PROVE  LeadsInv'
  <1>1. ~settled'
    BY DEF ImportInv, LeadsInv
  <1>2. ASSUME job' # NoJob, late' = {}
        PROVE  \E G \in Vault : Finished(G)' /\ LeadsTo(job', files', G)
    <2>1. PICK G \in Vault : Finished(G) /\ LeadsTo(job, files, G)
      BY <1>2 DEF ImportInv, LeadsInv
    <2>2. Finished(G)'
      BY <2>1, FinishedStays
    <2> QED
      BY <1>2, <2>1, <2>2
  <1> QED
    BY <1>1, <1>2, LeadsPrimed DEF LeadsInv

LEMMA ImportInductive ==
  ASSUME ImportInv, [MigrationNext]_migrationVars
  PROVE  LeadsInv'
  <1>0. /\ src \in SourceType /\ files \in Vault /\ AtHome(files)
        /\ JobShaped(job) /\ JobOK(job, files, late, src) /\ job.ops \in Seq(Operations)
        /\ job.ops # <<>> => /\ Op = job.ops[1] /\ 1 \in DOMAIN job.ops /\ Op \in Operations
                             /\ OpOK(Op, files, late, src) /\ Shaped(Op)
    <2>1. /\ src \in SourceType /\ files \in Vault /\ AtHome(files) /\ JobShaped(job)
          /\ JobOK(job, files, late, src) /\ OpsOK(job.ops, files, late, src)
      BY DEF ImportInv, MigrationInv, LeadsInv, JobOK
    <2>2. job.ops \in Seq(Operations)
      BY <2>1 DEF OpsOK
    <2>3. job.ops # <<>> => Op = job.ops[1] /\ 1 \in DOMAIN job.ops
      BY <2>2 DEF Op
    <2> QED
      BY <2>1, <2>2, <2>3 DEF OpsOK, JobShaped
  <1>1. JobShaped(NoJob) /\ NoJob.ops = <<>>
    BY DEF JobShaped, NoJob
  <1>2. ASSUME NEW at, At(at) PROVE job.at = at /\ job.ops # <<>> /\ (at # "idle" => job # NoJob)
    BY <1>2 DEF At, NoJob
  <1>3. CASE PlansMigration
    <2>1. /\ job = NoJob /\ late' = {} /\ UNCHANGED <<src, files>>
          /\ \A n \in Notes : HasRoom(n, files)
      BY <1>3 DEF PlansMigration
    <2> DEFINE plan == PlanNotes
    <2>2. /\ job' = [NoJob EXCEPT !.at = "next", !.ops = plan]
          /\ settled' = (settled /\ plan = <<>>)
      BY <1>3 DEF PlansMigration
    <2>3. PICK G \in Vault :
            /\ Finished(G)
            /\ \A p \in VaultPaths :
                 G[p] = files[p] \/ \E i \in DOMAIN plan : Touches(plan[i], p)
            /\ \A i \in DOMAIN plan : Wants(plan[i], G) /\ Shaped(plan[i])
      BY <1>0, <2>1, PlanFinishes
    <2>4. settled' => plan = <<>> /\ Finished(files)
      BY <2>2 DEF ImportInv, LeadsInv
    <2> HIDE DEF plan
    <2>5. job'.at = "next" /\ job'.ops = plan
      BY <2>2 DEF NoJob
    <2>6. JobShaped(job')
      BY <2>3, <2>5 DEF JobShaped
    <2>7. LeadsTo(job', files', G)
      <3>1. \A p \in VaultPaths : files'[p] = G[p] \/ Pending(job', p)
        BY <2>1, <2>3, <2>5 DEF Pending
      <3> QED
        BY <2>3, <2>5, <3>1 DEF LeadsTo
    <2>8. Finished(G)' /\ (settled' => Finished(files)')
      <3>1. Finished(files) <=> Finished(files)'
        BY <2>1, FinishedSame
      <3> QED
        BY <2>1, <2>3, <2>4, <3>1, FinishedStays
    <2>9. AtHome(files)' /\ JobShaped(job)' /\ LeadsTo(job, files, G)'
      BY <1>0, <2>1, <2>6, <2>7, LeadsPrimed
    <2> QED
      BY <2>1, <2>4, <2>5, <2>8, <2>9 DEF LeadsInv
  <1>4. CASE ChecksOp
    <2>1. /\ UNCHANGED <<src, files, late, settled>> /\ job.at = "next" /\ job.ops # <<>>
          /\ job # NoJob
      BY <1>2, <1>4 DEF ChecksOp, Running
    <2>2. \/ job' = NoJob
          \/ \E at \in {"create", "overwrite", "remove"}, path \in VaultPaths \cup {Nothing} :
               /\ job' = [job EXCEPT !.at = at, !.path = path]
               /\ Op.write <=> at # "remove"
      <3> DEFINE op == Op
      <3>1. op \in Operations /\ Shaped(op) /\ op.out \in VaultPaths
        BY <1>0, <2>1 DEF Operations
      <3>2. op.write \in BOOLEAN /\ (op.kind = "write" => op.write)
            /\ (op.write => op.kind \in {"write", "replace"})
        BY <3>1 DEF Operations, Shaped
      <3> HIDE DEF op
      <3>3. CASE op.kind = "write"
        BY <1>4, <3>1, <3>2, <3>3 DEF ChecksOp, Goes, op
      <3>4. CASE op.kind # "write" /\ op.kind = "replace" /\ op.write
        BY <1>4, <3>1, <3>4 DEF ChecksOp, Goes, Throws, op
      <3>5. CASE op.kind # "write" /\ ~(op.kind = "replace" /\ op.write)
        BY <1>4, <3>2, <3>5 DEF ChecksOp, Goes, Throws, op
      <3> QED
        BY <3>3, <3>4, <3>5
    <2>3. CASE job' = NoJob
      BY <1>0, <1>1, <2>1, <2>3, RunLeads
    <2>4. ASSUME NEW at \in {"create", "overwrite", "remove"}, NEW path \in VaultPaths \cup {Nothing},
                 job' = [job EXCEPT !.at = at, !.path = path], Op.write <=> at # "remove"
          PROVE  LeadsInv'
      <3>1. job'.at = at /\ job'.ops = job.ops
        BY <1>0, <2>4 DEF JobOK
      <3>2. JobShaped(job')
        BY <1>0, <2>1, <2>4, <3>1 DEF JobShaped
      <3>3. \A G \in Vault : LeadsTo(job, files, G) => LeadsTo(job', files', G)
        BY <1>0, <2>1, <2>4, <3>1, LeadsChecked
      <3> QED
        BY <1>0, <2>1, <3>2, <3>3, RunLeads
    <2> QED
      BY <2>2, <2>3, <2>4
  <1>5. CASE CreatesNote \/ OverwritesNote
    <2>1. /\ UNCHANGED <<src, late, settled>> /\ job.at \in {"create", "overwrite"}
          /\ job.ops # <<>> /\ job # NoJob
      BY <1>2, <1>5 DEF CreatesNote, OverwritesNote, Running
    <2>2. \/ job' = NoJob /\ UNCHANGED files
          \/ /\ files' = [files EXCEPT ![Op.out] = Op.content]
             /\ job' = [job EXCEPT !.at = "remove", !.path = Nothing]
      BY <1>5 DEF CreatesNote, OverwritesNote, Throws, Goes
    <2>3. CASE job' = NoJob /\ UNCHANGED files
      BY <1>0, <1>1, <2>1, <2>3, RunLeads
    <2>4. CASE /\ files' = [files EXCEPT ![Op.out] = Op.content]
               /\ job' = [job EXCEPT !.at = "remove", !.path = Nothing]
      <3>1. job'.at = "remove" /\ job'.ops = job.ops
        BY <1>0, <2>4 DEF JobOK
      <3>2. JobShaped(job')
        BY <1>0, <3>1 DEF JobShaped
      <3>3. /\ Op.write /\ Op.kind \in {"write", "replace"} /\ Op = job.ops[1]
            /\ Op.out \in VaultPaths
        BY <1>0, <2>1 DEF JobShaped, Shaped, Operations
      <3>4. Op.content.owner = Op.note /\ Op.out[1] = Op.note
        BY <1>0, <2>1, <3>3 DEF OpOK, Shaped
      <3>5. AtHome(files')
        BY <1>0, <2>4, <3>3, <3>4 DEF AtHome, Vault
      <3>6. \A G \in Vault : LeadsTo(job, files, G) => LeadsTo(job', files', G)
        BY <1>0, <2>1, <2>4, <3>1, <3>3, LeadsWritten
      <3> QED
        BY <2>1, <3>2, <3>5, <3>6, RunLeads
    <2> QED
      BY <2>2, <2>3, <2>4
  <1>6. CASE ChecksRemoval
    <2>1. /\ UNCHANGED <<src, files, late, settled>> /\ job.at = "remove"
          /\ job.ops # <<>> /\ job # NoJob
      BY <1>2, <1>6 DEF ChecksRemoval, Running
    <2>2. PICK p \in Op.remove :
            \/ job' = [job EXCEPT !.at = "unlink", !.path = p, !.ops[1].remove = @ \ {p}]
            \/ job' = NoJob
      BY <1>6 DEF ChecksRemoval, Throws
    <2>3. CASE job' = NoJob
      BY <1>0, <1>1, <2>1, <2>3, RunLeads
    <2>4. CASE job' = [job EXCEPT !.at = "unlink", !.path = p, !.ops[1].remove = @ \ {p}]
      <3>1. /\ job'.at = "unlink" /\ job'.path = p
            /\ job'.ops = [job.ops EXCEPT ![1].remove = @ \ {p}]
        BY <1>0, <2>4 DEF JobOK
      <3>2. JobShaped(job')
        <4> DEFINE less == [Op EXCEPT !.remove = @ \ {p}]
        <4>1. /\ DOMAIN job'.ops = DOMAIN job.ops /\ job'.ops[1] = less
              /\ \A i \in DOMAIN job.ops : i # 1 => job'.ops[i] = job.ops[i]
          BY <1>0, <2>1, <3>1
        <4>2. /\ less.kind = Op.kind /\ less.write = Op.write /\ less.out = Op.out
              /\ less.note = Op.note /\ less.remove \subseteq Op.remove
          BY <1>0, <2>1 DEF Operations
        <4> HIDE DEF less
        <4>3. Shaped(less)
          BY <1>0, <2>1, <4>2 DEF Shaped
        <4> QED
          BY <1>0, <3>1, <4>1, <4>3 DEF JobShaped
      <3>3. \A G \in Vault : LeadsTo(job, files, G) => LeadsTo(job', files', G)
        BY <1>0, <2>1, <2>2, <3>1, LeadsTaken
      <3> QED
        BY <1>0, <2>1, <3>2, <3>3, RunLeads
    <2> QED
      BY <2>2, <2>3, <2>4
  <1>7. CASE RemovesNote
    <2>1. /\ UNCHANGED <<src, late, settled>> /\ job.at = "unlink"
          /\ job.ops # <<>> /\ job # NoJob
          /\ files' = [files EXCEPT ![job.path] = Nothing]
          /\ job' = NoJob \/ job' = [job EXCEPT !.at = "remove", !.path = Nothing]
      BY <1>2, <1>7 DEF RemovesNote, Running, Goes, Throws
    <2>2. AtHome(files')
      BY <1>0, <2>1 DEF AtHome, Vault
    <2>3. CASE job' = NoJob
      BY <1>1, <2>1, <2>2, <2>3, RunLeads
    <2>4. CASE job' = [job EXCEPT !.at = "remove", !.path = Nothing]
      <3>1. job'.at = "remove" /\ job'.ops = job.ops
        BY <1>0, <2>4 DEF JobOK
      <3>2. JobShaped(job')
        BY <1>0, <3>1 DEF JobShaped
      <3>3. \A G \in Vault : LeadsTo(job, files, G) => LeadsTo(job', files', G)
        BY <1>0, <2>1, <3>1, LeadsRemoved
      <3> QED
        BY <2>1, <2>2, <3>2, <3>3, RunLeads
    <2> QED
      BY <2>1, <2>3, <2>4
  <1>8. CASE EndsOp
    <2>1. /\ UNCHANGED <<src, files, late, settled>> /\ job.at = "remove"
          /\ job.ops # <<>> /\ job # NoJob /\ Op.remove = {}
          /\ job' = [NoJob EXCEPT !.at = "next", !.ops = Tail(job.ops)]
      BY <1>2, <1>8 DEF EndsOp, Running, NextOp
    <2>2. job'.at = "next" /\ job'.ops = Tail(job.ops)
      BY <2>1 DEF NoJob
    <2>3. JobShaped(job')
      <3>1. \A i \in DOMAIN Tail(job.ops) : i + 1 \in DOMAIN job.ops /\ Tail(job.ops)[i] = job.ops[i + 1]
        BY <1>0, <2>1
      <3> QED
        BY <1>0, <2>2, <3>1 DEF JobShaped
    <2>4. \A G \in Vault : LeadsTo(job, files, G) => LeadsTo(job', files', G)
      BY <1>0, <2>1, <2>2, LeadsOn
    <2> QED
      BY <1>0, <2>1, <2>3, <2>4, RunLeads
  <1>9. CASE CompletesMigration
    <2>1. /\ UNCHANGED <<src, files, late>> /\ job.at = "next" /\ job.ops = <<>> /\ job' = NoJob
          /\ settled' = (settled \/ late = {}) /\ job # NoJob
      BY <1>9 DEF CompletesMigration, NoJob
    <2>2. ASSUME settled' PROVE Finished(files)
      <3>1. CASE settled
        BY <3>1 DEF ImportInv, LeadsInv
      <3>2. CASE late = {}
        <4>1. PICK G \in Vault : Finished(G) /\ LeadsTo(job, files, G)
          BY <2>1, <3>2 DEF ImportInv, LeadsInv
        <4>2. files = G
          BY <1>0, <2>1, <4>1, LeadsThere
        <4> QED
          BY <4>1, <4>2
      <3> QED
        BY <2>1, <2>2, <3>1, <3>2
    <2>3. settled' => Finished(files)'
      BY <2>1, <2>2, FinishedSame
    <2> QED
      BY <1>0, <1>1, <2>1, <2>3, LeadsPrimed DEF LeadsInv
  <1>10. CASE StopsMigration
    <2>1. UNCHANGED <<src, files, late, settled>> /\ job' = NoJob
      BY <1>10 DEF StopsMigration
    <2>2. settled' => Finished(files)'
      BY <2>1, FinishedSame DEF ImportInv, LeadsInv
    <2> QED
      BY <1>0, <1>1, <2>1, <2>2, LeadsPrimed DEF LeadsInv
  <1>11. ASSUME NEW what, ByHand(what), AtHome(files') PROVE LeadsInv'
    <2>1. job' = job /\ ~settled' /\ (job # NoJob => late' # {})
      BY <1>11 DEF ByHand
    <2> QED
      BY <1>0, <1>11, <2>1, LeadsPrimed DEF LeadsInv
  <1>12. ASSUME NEW p \in VaultPaths, UserEdits(p) PROVE LeadsInv'
    <2>1. PICK f \in Edited(p) : files' = [files EXCEPT ![p] = f]
      BY <1>12 DEF UserEdits
    <2>2. f # Nothing => f.owner = Nothing \/ (files[p] # Nothing /\ f.owner = files[p].owner)
      BY <1>0, EditTypes
    <2>3. AtHome(files')
      BY <1>0, <2>1, <2>2 DEF AtHome, Vault
    <2> QED
      BY <1>11, <1>12, <2>3 DEF UserEdits
  <1>13. ASSUME NEW n \in Notes, SourceEdits(n) PROVE LeadsInv'
    BY <1>0, <1>11, <1>13 DEF SourceEdits
  <1>14. CASE UNCHANGED migrationVars
    <2>1. UNCHANGED <<src, files, job, late, settled>>
      BY <1>14 DEF migrationVars
    <2>2. settled => Finished(files)'
      BY <2>1, FinishedSame DEF ImportInv, LeadsInv
    <2>3. job' # NoJob /\ late' = {} => \E G \in Vault : Finished(G)' /\ LeadsTo(job', files', G)
      BY <2>1, FinishedStays DEF ImportInv, LeadsInv
    <2> QED
      BY <1>0, <2>1, <2>2, <2>3, LeadsPrimed DEF LeadsInv, ImportInv
  <1> QED
    BY <1>3, <1>4, <1>5, <1>6, <1>7, <1>8, <1>9, <1>10, <1>12, <1>13, <1>14 DEF MigrationNext

LEMMA ImportInvariant == MigrationSpec => []ImportInv
  <1>1. MigrationInit => LeadsInv
    <2> SUFFICES ASSUME MigrationInit PROVE LeadsInv
      OBVIOUS
    <2>1. AtHome(files)
      BY MigrationAssumption DEF MigrationInit
    <2> QED
      BY <2>1 DEF MigrationInit, LeadsInv, JobShaped, NoJob
  <1>2. ImportInv /\ [MigrationNext]_migrationVars => LeadsInv'
    BY ImportInductive
  <1> QED
    BY <1>1, <1>2, MigrationInvariant, PTL DEF MigrationSpec, ImportInv

(* Nothing of a note that is not excused is taken for the user's, nor will *)
(* be of what a run is about to write for it.                              *)
CalmNote(n, ops, s, vault) ==
  Calm(n, s, vault) /\ \A i \in DOMAIN ops : ops[i].note = n => CalmOp(ops[i], s)

CalmInv == \A n \in Notes \ excused : CalmNote(n, job.ops, src, files)

(* A vault that has fewer files of a note, or more that are calm.          *)
LEMMA CalmFiles ==
  ASSUME NEW n, NEW s, NEW F, NEW G, Calm(n, s, F),
         \A p \in VaultPaths : Has(G, n, p) => G[p] = F[p] \/ ~Enriched(s[n], G[p])
  PROVE  Calm(n, s, G)
  <1>1. ASSUME NEW p \in OwnedBy(G, n) PROVE ~Enriched(s[n], G[p])
    <2>1. p \in VaultPaths /\ Has(G, n, p)
      BY DEF OwnedBy, Has
    <2>2. CASE G[p] = F[p]
      <3>1. p \in OwnedBy(F, n)
        BY <2>1, <2>2 DEF OwnedBy, Has
      <3> QED
        BY <2>2, <3>1 DEF Calm
    <2> QED
      BY <2>1, <2>2
  <1> QED
    BY <1>1 DEF Calm

(* A change of the source that no run takes for the user's.                *)
LEMMA CalmSource ==
  ASSUME NEW n \in Notes, NEW note, ~Mistaken(n, note), NEW f,
         f.imported # Nothing \/ note.body = src[n].body, ~Enriched(src[n], f)
  PROVE  ~Enriched(note, f)
  <1>1. ~BodyEnriched(note, f)
    BY DEF Enriched, BodyEnriched
  <1>2. ASSUME NEW k \in Fields PROVE f.front[k] \in {Nothing, note.front[k]}
    <2>1. src[n].front[k] \in {Nothing, note.front[k]}
      BY DEF Mistaken
    <2>2. f.front[k] \in {Nothing, src[n].front[k]}
      BY DEF Enriched
    <2> QED
      BY <2>1, <2>2
  <1> QED
    BY <1>1, <1>2 DEF Enriched

LEMMA SameOps ==
  ASSUME ImportInv
  PROVE  /\ NoJob.ops = <<>>
         /\ \A at, path : [job EXCEPT !.at = at, !.path = path].ops = job.ops
  <1>1. job \in [at : {"idle", "next", "create", "overwrite", "remove", "unlink"},
                ops : Seq(Operations), path : VaultPaths \cup {Nothing}]
    BY DEF ImportInv, MigrationInv, JobOK
  <1> QED
    BY <1>1 DEF NoJob

LEMMA CalmInductive ==
  ASSUME ImportInv, CalmInv, [MigrationNext]_migrationVars
  PROVE  CalmInv'
  <1>0. /\ src \in SourceType /\ files \in Vault /\ JobShaped(job)
        /\ JobOK(job, files, late, src) /\ job.ops \in Seq(Operations)
        /\ job.ops # <<>> => /\ Op = job.ops[1] /\ 1 \in DOMAIN job.ops /\ Op \in Operations
                             /\ OpOK(Op, files, late, src)
    <2>1. /\ src \in SourceType /\ files \in Vault /\ JobShaped(job)
          /\ JobOK(job, files, late, src) /\ OpsOK(job.ops, files, late, src)
      BY DEF ImportInv, MigrationInv, LeadsInv, JobOK
    <2>2. job.ops \in Seq(Operations)
      BY <2>1 DEF OpsOK
    <2>3. job.ops # <<>> => Op = job.ops[1] /\ 1 \in DOMAIN job.ops
      BY <2>2 DEF Op
    <2> QED
      BY <2>1, <2>2, <2>3 DEF OpsOK
  <1> SUFFICES ASSUME NEW n \in Notes, n \notin excused'
               PROVE  CalmNote(n, job'.ops, src', files')
    BY DEF CalmInv, CalmNote, Calm, CalmOp, OwnedBy, Enriched, BodyEnriched, Plain
  <1>1. n \notin excused => CalmNote(n, job.ops, src, files)
    BY DEF CalmInv
  <1>2. CASE PlansMigration
    <2>1. /\ UNCHANGED <<src, files, excused>> /\ \A m \in Notes : HasRoom(m, files)
          /\ job' = [NoJob EXCEPT !.at = "next", !.ops = PlanNotes]
      BY <1>2 DEF PlansMigration
    <2> DEFINE plan == PlanNotes
    <2>2. \A i \in DOMAIN plan : Calm(plan[i].note, src, files) => CalmOp(plan[i], src)
      BY <1>0, <2>1, PlanInOrder
    <2>3. job'.ops = plan
      BY <2>1 DEF NoJob
    <2> HIDE DEF plan
    <2> QED
      BY <1>1, <2>1, <2>2, <2>3 DEF CalmNote
  <1>3. ASSUME UNCHANGED <<src, excused>>,
               \A p \in VaultPaths : files'[p] # files[p] =>
                 files'[p] = Nothing \/ (Op = job.ops[1] /\ job.ops # <<>> /\ Op.write
                                         /\ files'[p] = Op.content),
               \A i \in DOMAIN job'.ops : \E j \in DOMAIN job.ops :
                 /\ job'.ops[i].note = job.ops[j].note
                 /\ job'.ops[i].write = job.ops[j].write
                 /\ job'.ops[i].content = job.ops[j].content
        PROVE  CalmNote(n, job'.ops, src', files')
    <2>1. CalmNote(n, job.ops, src, files) /\ src' = src
      BY <1>1, <1>3
    <2>2. ASSUME NEW p \in VaultPaths, Has(files', n, p), files'[p] # files[p]
          PROVE  ~Enriched(src[n], files'[p])
      <3>1. /\ Op = job.ops[1] /\ job.ops # <<>> /\ Op.write /\ files'[p] = Op.content
        BY <1>3, <2>2 DEF Has
      <3>2. Op.kind \in {"write", "replace"}
        BY <1>0, <3>1 DEF JobShaped, Shaped
      <3>3. Op.note = n
        BY <1>0, <2>2, <3>1, <3>2 DEF OpOK, Has
      <3> QED
        BY <1>0, <2>1, <3>1, <3>3 DEF CalmNote, CalmOp
    <2> DEFINE G == files'
    <2>3. \A p \in VaultPaths : Has(G, n, p) => G[p] = files[p] \/ ~Enriched(src[n], G[p])
      BY <2>2
    <2> HIDE DEF G
    <2>4. Calm(n, src, G)
      BY <2>1, <2>3, CalmFiles DEF CalmNote
    <2>5. \A i \in DOMAIN job'.ops : job'.ops[i].note = n => CalmOp(job'.ops[i], src)
      BY <1>3, <2>1 DEF CalmNote, CalmOp
    <2> QED
      BY <2>1, <2>4, <2>5 DEF CalmNote, G
  <1>4. CASE ChecksOp \/ RemovesNote \/ CompletesMigration \/ StopsMigration
             \/ UNCHANGED migrationVars
    <2>1. UNCHANGED <<src, excused>>
      BY <1>4 DEF ChecksOp, RemovesNote, CompletesMigration, StopsMigration, migrationVars, Running
    <2>2. \A p \in VaultPaths : files'[p] # files[p] => files'[p] = Nothing
      BY <1>0, <1>4 DEF ChecksOp, RemovesNote, CompletesMigration, StopsMigration, migrationVars,
                        Vault
    <2>3. job' = NoJob \/ \E at, path : job' = [job EXCEPT !.at = at, !.path = path]
      <3>1. CASE ChecksOp
        BY <3>1 DEF ChecksOp, Goes, Throws
      <3>2. CASE RemovesNote
        BY <3>2 DEF RemovesNote, Goes, Throws
      <3>3. CASE CompletesMigration \/ StopsMigration
        BY <3>3 DEF CompletesMigration, StopsMigration
      <3>4. CASE UNCHANGED migrationVars
        <4>1. job' = [job EXCEPT !.at = job.at, !.path = job.path]
          BY <1>0, <3>4 DEF JobOK, migrationVars
        <4> QED
          BY <4>1
      <3> QED
        BY <1>4, <3>1, <3>2, <3>3, <3>4
    <2>4. job'.ops = <<>> \/ job'.ops = job.ops
      BY <2>3, SameOps
    <2> QED
      BY <1>3, <2>1, <2>2, <2>4
  <1>5. CASE CreatesNote \/ OverwritesNote
    <2>1. /\ UNCHANGED <<src, excused>> /\ job.ops # <<>> /\ job.at \in {"create", "overwrite"}
          /\ \/ job' = NoJob /\ UNCHANGED files
             \/ /\ files' = [files EXCEPT ![Op.out] = Op.content]
                /\ job' = [job EXCEPT !.at = "remove", !.path = Nothing]
      BY <1>5 DEF CreatesNote, OverwritesNote, Running, At, Throws, Goes
    <2>2. Op = job.ops[1] /\ Op.write
      BY <1>0, <2>1 DEF JobShaped
    <2>3. \A p \in VaultPaths : files'[p] # files[p] => files'[p] = Op.content
      BY <1>0, <2>1 DEF Vault
    <2>4. job'.ops = <<>> \/ job'.ops = job.ops
      <3>1. job' = NoJob \/ job' = [job EXCEPT !.at = "remove", !.path = Nothing]
        BY <2>1
      <3> QED
        BY <3>1, SameOps
    <2> QED
      BY <1>3, <2>1, <2>2, <2>3, <2>4
  <1>6. CASE ChecksRemoval
    <2>1. UNCHANGED <<src, files, excused>> /\ job.ops # <<>>
      BY <1>6 DEF ChecksRemoval, Running, At
    <2>2. PICK p \in Op.remove :
            \/ job' = [job EXCEPT !.at = "unlink", !.path = p, !.ops[1].remove = @ \ {p}]
            \/ job' = NoJob
      BY <1>6 DEF ChecksRemoval, Throws
    <2> DEFINE less == [Op EXCEPT !.remove = @ \ {p}]
    <2>3. job'.ops = <<>> \/ job'.ops = [job.ops EXCEPT ![1] = less]
      <3>1. job \in [at : {"idle", "next", "create", "overwrite", "remove", "unlink"},
                    ops : Seq(Operations), path : VaultPaths \cup {Nothing}]
        BY <1>0 DEF JobOK
      <3>2. CASE job' = NoJob
        BY <3>2, SameOps
      <3>3. CASE job' = [job EXCEPT !.at = "unlink", !.path = p, !.ops[1].remove = @ \ {p}]
        BY <1>0, <2>1, <3>1, <3>3
      <3> QED
        BY <2>2, <3>2, <3>3
    <2>4. less.note = Op.note /\ less.write = Op.write /\ less.content = Op.content
      BY <1>0, <2>1 DEF Operations
    <2>5. \A i \in DOMAIN job'.ops : /\ i \in DOMAIN job.ops
                                     /\ job'.ops[i] = job.ops[i] \/ (i = 1 /\ job'.ops[i] = less)
      <3> HIDE DEF less
      <3>1. CASE job'.ops = <<>>
        BY <3>1
      <3>2. CASE job'.ops = [job.ops EXCEPT ![1] = less]
        BY <1>0, <2>1, <3>2
      <3> QED
        BY <2>3, <3>1, <3>2
    <2> HIDE DEF less
    <2>6. \A i \in DOMAIN job'.ops : /\ i \in DOMAIN job.ops
                                     /\ job'.ops[i].note = job.ops[i].note
                                     /\ job'.ops[i].write = job.ops[i].write
                                     /\ job'.ops[i].content = job.ops[i].content
      BY <1>0, <2>1, <2>4, <2>5
    <2> QED
      BY <1>3, <2>1, <2>6
  <1>7. CASE EndsOp
    <2>1. /\ UNCHANGED <<src, files, excused>> /\ job.ops # <<>>
          /\ job' = [NoJob EXCEPT !.at = "next", !.ops = Tail(job.ops)]
      BY <1>7 DEF EndsOp, Running, At, NextOp
    <2>2. job'.ops = Tail(job.ops)
      BY <2>1 DEF NoJob
    <2>3. \A i \in DOMAIN job'.ops : i + 1 \in DOMAIN job.ops /\ job'.ops[i] = job.ops[i + 1]
      BY <1>0, <2>1, <2>2
    <2> QED
      BY <1>3, <2>1, <2>3
  <1>8. ASSUME NEW p \in VaultPaths, UserEdits(p) PROVE CalmNote(n, job'.ops, src', files')
    <2>1. PICK f \in Edited(p) :
            /\ files' = [files EXCEPT ![p] = f]
            /\ excused' = excused \cup {m \in Notes : f # Nothing /\ f.owner = m /\ Enriched(src[m], f)}
      BY <1>8 DEF UserEdits
    <2>2. src' = src /\ job' = job
      BY <1>8 DEF UserEdits, ByHand
    <2>3. CalmNote(n, job.ops, src, files)
      BY <1>1, <2>1
    <2> DEFINE G == files'
    <2>4. \A q \in VaultPaths : Has(G, n, q) => G[q] = files[q] \/ ~Enriched(src[n], G[q])
      BY <1>0, <2>1 DEF Vault, Has
    <2> HIDE DEF G
    <2>5. Calm(n, src, G)
      BY <2>3, <2>4, CalmFiles DEF CalmNote
    <2> QED
      BY <2>2, <2>3, <2>5 DEF CalmNote, G
  <1>9. ASSUME NEW m \in Notes, SourceEdits(m) PROVE CalmNote(n, job'.ops, src', files')
    <2>1. PICK note \in Changed(src[m]) :
            /\ src' = [src EXCEPT ![m] = note]
            /\ excused' = excused \cup {x \in {m} : Mistaken(m, note)}
      BY <1>9 DEF SourceEdits
    <2>2. files' = files /\ job' = job
      BY <1>9 DEF SourceEdits, ByHand
    <2>3. CalmNote(n, job.ops, src, files)
      BY <1>1, <2>1
    <2> DEFINE t == [src EXCEPT ![m] = note]
    <2>4. t[n] = IF n = m THEN note ELSE src[n]
      BY <1>0 DEF SourceType
    <2> HIDE DEF t
    <2>5. CASE n # m
      <3>1. t[n] = src[n]
        BY <2>4, <2>5
      <3>2. CalmNote(n, job.ops, t, files)
        BY <2>3, <3>1 DEF CalmNote, Calm, CalmOp
      <3> QED
        BY <2>1, <2>2, <3>2 DEF t
    <2>6. CASE n = m
      <3>1. t[n] = note /\ ~Mistaken(n, note)
        BY <2>1, <2>4, <2>6
      <3>2. Plain(note)
        BY <3>1 DEF Mistaken
      <3>3. ASSUME NEW p \in OwnedBy(files, n) PROVE ~Enriched(note, files[p])
        <4>1. files[p].imported # Nothing \/ note.body = src[n].body
          BY <3>1 DEF Mistaken
        <4>2. ~Enriched(src[n], files[p])
          BY <2>3 DEF CalmNote, Calm
        <4> QED
          BY <3>1, <4>1, <4>2, CalmSource
      <3>4. ASSUME NEW i \in DOMAIN job.ops, job.ops[i].note = n PROVE CalmOp(job.ops[i], t)
        <4> SUFFICES ASSUME job.ops[i].write
                     PROVE  /\ job.ops[i].content.imported # Nothing
                            /\ ~Enriched(note, job.ops[i].content)
          BY <3>1, <3>4 DEF CalmOp
        <4>1. /\ job.ops[i].content.imported # Nothing
              /\ ~Enriched(src[n], job.ops[i].content)
          BY <2>3, <3>4 DEF CalmNote, CalmOp
        <4> QED
          BY <3>1, <4>1, CalmSource
      <3>5. CalmNote(n, job.ops, t, files)
        BY <3>1, <3>2, <3>3, <3>4 DEF CalmNote, Calm
      <3> QED
        BY <2>1, <2>2, <3>5 DEF t
    <2> QED
      BY <2>5, <2>6
  <1> QED
    BY <1>2, <1>4, <1>5, <1>6, <1>7, <1>8, <1>9 DEF MigrationNext

LEMMA CalmInvariant == MigrationSpec => []CalmInv
  <1>1. MigrationInit => CalmInv
    BY DEF MigrationInit, CalmInv, CalmNote, Calm, OwnedBy, NoJob
  <1>2. ImportInv /\ CalmInv /\ [MigrationNext]_migrationVars => CalmInv'
    BY CalmInductive
  <1> QED
    BY <1>1, <1>2, ImportInvariant, PTL DEF MigrationSpec

(* A run that is completed has imported every note whose files the user    *)
(* left alone and whose source has not changed what a run takes for the    *)
(* user's, to a path of its own or to that of a note that says the same,   *)
(* however many runs died before and at whatever step.                     *)
THEOREM MigrationsImportAll == MigrationSpec => []ImportsAll
  <1>1. ImportInv /\ CalmInv => ImportsAll
    <2> SUFFICES ASSUME ImportInv, CalmInv, settled, NEW n \in Notes \ excused
                 PROVE  \E m \in Notes : \E p \in OwnedBy(files, m) :
                          files[p].body = src[n].body /\ (m = n \/ OwnedBy(files, n) = {})
      BY DEF ImportsAll
    <2>1. Plain(src[n]) /\ \A p \in OwnedBy(files, n) : ~Enriched(src[n], files[p])
      BY DEF CalmInv, CalmNote, Calm
    <2>2. src \in SourceType /\ Finished(files)
      BY DEF ImportInv, MigrationInv, LeadsInv
    <2> QED
      BY <2>1, <2>2, FinishedMeans
  <1> QED
    BY <1>1, ImportInvariant, CalmInvariant, PTL

(* It leaves nothing for the next to do, unless a text begins with front   *)
(* matter of its own, and one path at most to a note that it has no        *)
(* conflict about.                                                         *)
THEOREM MigrationsSettle == MigrationSpec => []RerunsAreIdle
  <1>1. ImportInv => RerunsAreIdle
    BY FinishedMeans, NothingToDo DEF ImportInv, MigrationInv, LeadsInv, RerunsAreIdle
  <1> QED
    BY <1>1, ImportInvariant, PTL
=============================================================================
