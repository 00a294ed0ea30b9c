-------------------------- MODULE LegacyMigration --------------------------
(***************************************************************************)
(* kb migrate-legacy (src/migrate-legacy.js): notes of older tools are     *)
(* imported into the vault, each to a file of its own, or to none if a note*)
(* before it says the same.  A run reads the sources and the vault, plans  *)
(* one operation per note, and executes them one after the other; it may   *)
(* be run again after the sources have changed, after it was refused       *)
(* something or after it has died.  The user edits the vault meanwhile.    *)
(*                                                                         *)
(* A path is the home of a note, which its folder, date, title and a hash  *)
(* of its key make, or one with a suffix where a note of the user's is in  *)
(* the way; that two keys have the same 32 bits of hash is left out, as are*)
(* the formats of the sources, what YAML makes of a value (a number for a  *)
(* title), symbolic links and the audit log.                               *)
(***************************************************************************)
EXTENDS FiniteSets, Integers, Sequences

CONSTANTS
  Notes,       \* keys of the notes of the sources
  Order,       \* the order in which the readers give them
  Homes, Bodies,
  Fields,      \* front matter that is neither a migration's own nor a tag: tier, summary
  Values, Tags,
  Parsed,      \* what is left of a text, and the front matter it began with
  Nothing,
  Sources,     \* what the sources may say at first
  Vaults,      \* what the vault may hold at first
  MaxSuffix,   \* bound: suffixes of a home and a note
  MaxEdits,    \* bound: edits of sources and vault
  MaxStops     \* bound: runs that die

VaultPaths == Notes \X Homes \X (0..MaxSuffix)

Front == [Fields -> Values \cup {Nothing}]

(* home: title, type, date, project and link to the source.                *)
Source == [home : Homes, body : Bodies, front : Front, tags : SUBSET Tags]

(* imported: the body that a migration which notes it has written.  What no*)
(* migration wrote has no owner.                                           *)
File == [owner : Notes \cup {Nothing}, home : Homes, body : Bodies,
         imported : Bodies \cup {Nothing}, front : Front, tags : SUBSET Tags]

(* A text that does not begin with front matter of its own.                *)
Plain(note) == Parsed[note.body].body = note.body

(* What is planned for a note: to write it to out, and to remove others.   *)
Operations ==
  [kind : {"conflict", "collapse", "duplicate", "skip", "replace", "write"}, note : Notes,
   out : VaultPaths, remove : SUBSET VaultPaths, write : BOOLEAN, content : File]

(* A file's name has the hash of its note's key: no file of one note is at *)
(* the home of another.                                                    *)
AtHome(vault) == \A p \in VaultPaths : vault[p] # Nothing => vault[p].owner \in {p[1], Nothing}

ASSUME MigrationAssumption ==
  /\ Nothing \notin Notes \cup Bodies /\ Nothing \notin File /\ Nothing \notin Operations
  /\ Order \in Seq(Notes)
  /\ \A n \in Notes : \E i \in DOMAIN Order : Order[i] = n
  /\ \A i, j \in DOMAIN Order : Order[i] = Order[j] => i = j
  /\ Parsed \in [Bodies -> [body : Bodies, front : Front]]
  /\ \A b \in Bodies : Parsed[b].body = b => \A k \in Fields : Parsed[b].front[k] = Nothing
  /\ Sources \subseteq [Notes -> Source]
  /\ Vaults \subseteq [VaultPaths -> File \cup {Nothing}]
  /\ \A v \in Vaults : AtHome(v)
  /\ MaxSuffix \in Nat

VARIABLES
  src,      \* the sources: where a note belongs and what it says
  files,    \* the vault
  job,      \* the run: its operations left, and where it is in the first
  late,     \* history: paths and notes others changed since the run planned
  settled,  \* history: a run was completed since others, or a run, had something to change
  excused,  \* history: notes of which something is taken for the user's
  edits, stops

migrationVars == <<src, files, job, late, settled, excused, edits, stops>>

NoJob == [at |-> "idle", ops |-> <<>>, path |-> Nothing]

Owns(n, p) == files[p] # Nothing /\ files[p].owner = n
OwnedBy(vault, n) == {p \in VaultPaths : vault[p] # Nothing /\ vault[p].owner = n}

(* hasBodyEnrichment; a migration of old did not note what it imported.    *)
BodyEnriched(note, f) == f.body # (IF f.imported # Nothing THEN f.imported ELSE note.body)

(* Mutant: front matter is not looked at.                                  *)
EnrichedInBody(note, f) == BodyEnriched(note, f)

(* hasEnrichment: title, type, date, source, project and tags are not      *)
(* looked at, and the others are compared with what the source says now.   *)
Enriched(note, f) ==
  BodyEnriched(note, f) \/ \E k \in Fields : f.front[k] \notin {Nothing, note.front[k]}

MigrationInit ==
  /\ src \in Sources
  /\ files \in Vaults
  /\ job = NoJob
  /\ late = {}
  /\ settled = FALSE
  /\ excused = {n \in Notes : \/ ~Plain(src[n])
                              \/ \E p \in OwnedBy(files, n) : Enriched(src[n], files[p])}
  /\ edits = 0
  /\ stops = 0

-----------------------------------------------------------------------------
(* The plan.                                                               *)

(* importedContentMatches *)
UpToDate(note, f) ==
  f.imported = note.body /\ f.body = note.body /\ f.home = note.home /\ note.tags \subseteq f.tags

(* Mutant: a note's own file is in its way.                                *)
OutOfOccupied(n, vault) ==
  <<n, src[n].home, IF vault[<<n, src[n].home, 0>>] = Nothing THEN 0 ELSE 1>>

(* The home, or its first suffix that is free or the note's own.           *)
OutOf(n, vault) ==
  LET Free(i) == vault[<<n, src[n].home, i>>] = Nothing \/ vault[<<n, src[n].home, i>>].owner = n
  IN <<n, src[n].home, CHOOSE i \in 0..MaxSuffix : Free(i) /\ \A j \in 0..(i - 1) : ~Free(j)>>

(* The value of the first that has one.                                    *)
FirstOf(a, b) == IF a # Nothing THEN a ELSE b

(* renderOwnedUpdate: over what the note had before, matter.stringify takes*)
(* front matter that the text begins with out of it.                       *)
Rendered(n, prior) ==
  LET note == src[n]
      text == Parsed[note.body]
      fresh == [owner |-> n, home |-> note.home, body |-> note.body, imported |-> note.body,
                front |-> note.front, tags |-> note.tags]
  IN IF prior = Nothing THEN fresh
     ELSE [fresh EXCEPT
             !.body = text.body,
             !.front = [k \in Fields |->
                          FirstOf(prior.front[k], FirstOf(note.front[k], text.front[k]))],
             !.tags = @ \cup prior.tags]

(* Of several paths of a note the first is one that a migration has noted. *)
FirstFile(vault, owned) ==
  LET noted == {p \in owned : vault[p].imported # Nothing}
  IN vault[CHOOSE p \in owned : noted # {} => p \in noted]

Operation(kind, n, out, remove, write, content) ==
  [kind |-> kind, note |-> n, out |-> out, remove |-> remove, write |-> write, content |-> content]

(* A note whose body an earlier one has already.                           *)
DuplicateOf(n, plan) ==
  LET survivor == plan.seen[src[n].body]
      remove == OwnedBy(plan.files, n) \ {survivor.out}
      kind == IF \E p \in remove : Enriched(src[n], plan.files[p]) THEN "conflict"
              ELSE IF remove # {} THEN "collapse" ELSE "duplicate"
  IN Operation(kind, n, survivor.out, remove, FALSE, survivor.content)

(* A note of its own.                                                      *)
ImportOf(n, plan) ==
  LET owned == OwnedBy(plan.files, n)
      out == OutOf(n, plan.files)
      remove == owned \ {out}
      prior == IF out \in owned THEN plan.files[out]
               ELSE IF owned # {} THEN FirstFile(plan.files, owned) ELSE Nothing
      write == out \notin owned \/ ~UpToDate(src[n], prior)
      kind == IF \/ \E p \in remove : Enriched(src[n], plan.files[p])
                 \/ out \in owned /\ BodyEnriched(src[n], prior) THEN "conflict"
              ELSE IF ~write /\ remove = {} THEN "skip"
              ELSE IF owned # {} THEN "replace" ELSE "write"
  IN Operation(kind, n, out, remove, write, Rendered(n, prior))

(* writeNotes executes these alone.                                        *)
Mutates(op) == op.kind \in {"write", "replace", "collapse"}
Due(ops, op) == IF Mutates(op) THEN Append(ops, op) ELSE ops

(* Mutant: a note in conflict is taken for the one that others duplicate.  *)
PlannedConflictsSeen(plan, n) ==
  LET new == plan.seen[src[n].body] = Nothing
      op == IF new THEN ImportOf(n, plan) ELSE DuplicateOf(n, plan)
      kept == [p \in VaultPaths |-> IF p \in op.remove THEN Nothing ELSE plan.files[p]]
  IN [ops |-> Due(plan.ops, op),
      seen |-> IF new THEN [plan.seen EXCEPT ![src[n].body] = op] ELSE plan.seen,
      files |-> IF op.kind = "conflict" THEN plan.files
                ELSE IF op.write THEN [kept EXCEPT ![op.out] = op.content] ELSE kept]

(* One note of the loop of planNotes, with the vault as it will be: that   *)
(* the file of a note which is skipped is rendered too is of no account,   *)
(* for the notes after it look at their own.                               *)
Planned(plan, n) ==
  LET new == plan.seen[src[n].body] = Nothing
      op == IF new THEN ImportOf(n, plan) ELSE DuplicateOf(n, plan)
      kept == [p \in VaultPaths |-> IF p \in op.remove THEN Nothing ELSE plan.files[p]]
  IN [ops |-> Due(plan.ops, op),
      seen |-> IF new /\ op.kind # "conflict" THEN [plan.seen EXCEPT ![src[n].body] = op]
               ELSE plan.seen,
      files |-> IF op.kind = "conflict" THEN plan.files
                ELSE IF op.write THEN [kept EXCEPT ![op.out] = op.content] ELSE kept]

(* The plan after some of the notes.                                       *)
PlanAfter[i \in 0..Len(Order)] ==
  IF i = 0 THEN [ops |-> <<>>, seen |-> [b \in Bodies |-> Nothing], files |-> files]
  ELSE Planned(PlanAfter[i - 1], Order[i])

(* planNotes, as far as it is executed.                                    *)
PlanNotes == PlanAfter[Len(Order)].ops

(* bound: no home has more notes of others in its way than suffixes.       *)
HasRoom(n, vault) ==
  \E i \in 0..MaxSuffix :
    vault[<<n, src[n].home, i>>] # Nothing => vault[<<n, src[n].home, i>>].owner = n

(* writeNotes up to the execution.                                         *)
PlansMigration ==
  /\ job = NoJob
  /\ \A n \in Notes : HasRoom(n, files)
  /\ job' = [NoJob EXCEPT !.at = "next", !.ops = PlanNotes]
  /\ late' = {}
  /\ settled' = (settled /\ PlanNotes = <<>>)
  /\ UNCHANGED <<src, files, excused, edits, stops>>

-----------------------------------------------------------------------------
(* executeOperations                                                       *)

Op == Head(job.ops)
Goes(at, path) == job' = [job EXCEPT !.at = at, !.path = path]
NextOp == job' = [NoJob EXCEPT !.at = "next", !.ops = Tail(job.ops)]
Throws == job' = NoJob
At(stage) == job.at = stage /\ job.ops # <<>>
Running == UNCHANGED <<src, late, settled, excused, edits, stops>>

(* assertRetainedOutput: the note that stays is there, and says what its   *)
(* source said.                                                            *)
Retained(op) == Owns(op.content.owner, op.out) /\ files[op.out].body = op.content.imported

(* What an operation checks before it writes, or before it removes.        *)
ChecksOp ==
  /\ At("next")
  /\ CASE Op.kind = "write" -> Goes("create", Op.out)
       [] Op.kind = "replace" /\ Op.write ->
            IF files[Op.out] = Nothing THEN Goes("create", Op.out)
            ELSE IF Owns(Op.note, Op.out) THEN Goes("overwrite", Op.out) ELSE Throws
       [] OTHER -> IF Retained(Op) THEN Goes("remove", Nothing) ELSE Throws
  /\ UNCHANGED files
  /\ Running

(* writeExclusive does not touch a file that is there.                     *)
CreatesNote ==
  /\ At("create")
  /\ IF files[Op.out] # Nothing THEN Throws /\ UNCHANGED files
     ELSE /\ files' = [files EXCEPT ![Op.out] = Op.content]
          /\ Goes("remove", Nothing)
  /\ Running

(* replaceOwned *)
OverwritesNote ==
  /\ At("overwrite")
  /\ files' = [files EXCEPT ![Op.out] = Op.content]
  /\ Goes("remove", Nothing)
  /\ Running

(* removeOwned checks a file, and then unlinks it.                         *)
ChecksRemoval ==
  /\ At("remove")
  /\ Op.remove # {}
  /\ \E p \in Op.remove :
       IF Owns(Op.note, p)
       THEN job' = [job EXCEPT !.at = "unlink", !.path = p, !.ops[1].remove = @ \ {p}]
       ELSE Throws
  /\ UNCHANGED files
  /\ Running

RemovesNote ==
  /\ At("unlink")
  /\ files' = [files EXCEPT ![job.path] = Nothing]
  /\ IF files[job.path] = Nothing THEN Throws ELSE Goes("remove", Nothing)
  /\ Running

EndsOp ==
  /\ At("remove")
  /\ Op.remove = {}
  /\ NextOp
  /\ UNCHANGED files
  /\ Running

CompletesMigration ==
  /\ job.at = "next"
  /\ job.ops = <<>>
  /\ job' = NoJob
  /\ settled' = (settled \/ late = {})
  /\ UNCHANGED <<src, files, late, excused, edits, stops>>

StopsMigration ==
  /\ job # NoJob
  /\ stops < MaxStops
  /\ stops' = stops + 1
  /\ job' = NoJob
  /\ UNCHANGED <<src, files, late, settled, excused, edits>>

-----------------------------------------------------------------------------
(* The user.                                                               *)

ByHand(what) ==
  /\ edits < MaxEdits
  /\ edits' = edits + 1
  /\ late' = IF job = NoJob THEN {} ELSE late \cup {what}
  /\ settled' = FALSE
  /\ UNCHANGED <<job, stops>>

UsersNote(h, b) ==
  [owner |-> Nothing, home |-> h, body |-> b, imported |-> Nothing,
   front |-> [k \in Fields |-> Nothing], tags |-> {}]

(* One thing that may have changed of a source, or of a file.              *)
Changed(f) ==
  {[f EXCEPT !.body = b] : b \in Bodies} \cup {[f EXCEPT !.home = h] : h \in Homes}
    \cup {[f EXCEPT !.front = [@ EXCEPT ![k] = v]] : k \in Fields, v \in Values \cup {Nothing}}
    \cup {[f EXCEPT !.tags = t] : t \in SUBSET Tags}

(* A note of the vault is removed, edited, claimed or written.             *)
Edited(p) ==
  LET f == files[p]
  IN IF f = Nothing THEN {g \in {UsersNote(p[2], b) : b \in Bodies} : p[3] = 0}
     ELSE ({Nothing} \cup Changed(f)
             \cup {g \in {[f EXCEPT !.owner = Nothing, !.imported = Nothing]} : p[3] = 0})
          \ {f}

UserEdits(p) ==
  /\ ByHand(p)
  /\ \E f \in Edited(p) :
       /\ files' = [files EXCEPT ![p] = f]
       /\ excused' = excused \cup {n \in Notes : f # Nothing /\ f.owner = n /\ Enriched(src[n], f)}
  /\ UNCHANGED src

(* A change of a source that a run takes for the user's, of an entry or of *)
(* a text that was imported by a migration of old; or one to a text of     *)
(* which an update imports a part.                                         *)
Mistaken(n, note) ==
  \/ ~Plain(note)
  \/ \E k \in Fields : src[n].front[k] \notin {Nothing, note.front[k]}
  \/ src[n].body # note.body /\ \E p \in OwnedBy(files, n) : files[p].imported = Nothing

SourceEdits(n) ==
  /\ ByHand(<<"source", n>>)
  /\ \E note \in Changed(src[n]) \ {src[n]} :
       /\ src' = [src EXCEPT ![n] = note]
       /\ excused' = excused \cup {m \in {n} : Mistaken(n, note)}
  /\ UNCHANGED files

MigrationNext ==
  \/ PlansMigration \/ ChecksOp \/ CreatesNote \/ OverwritesNote
  \/ ChecksRemoval \/ RemovesNote \/ EndsOp \/ CompletesMigration \/ StopsMigration
  \/ \E p \in VaultPaths : UserEdits(p)
  \/ \E n \in Notes : SourceEdits(n)

MigrationSpec == MigrationInit /\ [][MigrationNext]_migrationVars

-----------------------------------------------------------------------------
(* Properties.                                                             *)

(* What of a file is the user's: a note of his own, the text of one that   *)
(* was imported, or an entry that is not its source's.  Of the last two the*)
(* source tells, unless it has changed since the run planned.              *)
SourceKnown(f, changed) == f.owner # Nothing /\ <<"source", f.owner>> \notin changed

TextOfUser(f, sources, changed) ==
  \/ f.owner = Nothing
  \/ f.imported \notin {Nothing, f.body}
  \/ SourceKnown(f, changed) /\ BodyEnriched(sources[f.owner], f)

EntryOfUser(f, k, sources, changed) ==
  SourceKnown(f, changed) /\ f.front[k] \notin {Nothing, sources[f.owner].front[k]}

(* What the user wrote is not lost to a run that could have seen it: a note*)
(* of his own and the text of an imported one stay as they are, an entry of*)
(* an imported note stays with it, and so do tags while the note stays.    *)
(* Only what he writes after the run has planned may be lost, for the      *)
(* execution asks again who owns a file and not what it says.  The title,  *)
(* type, dates and project that he gave an imported note are not his: an   *)
(* update takes them from the source (renderOwnedUpdate), and with a path  *)
(* that goes go its tags, for hasEnrichment does not look at these.        *)
EditsKept ==
  [][edits' = edits =>
       \A p \in VaultPaths \ late :
         files[p] # Nothing =>
           /\ TextOfUser(files[p], src, late) => files'[p] = files[p]
           /\ \A k \in Fields : EntryOfUser(files[p], k, src, late) =>
                files'[p] # Nothing /\ files'[p].front[k] = files[p].front[k]
           /\ files'[p] # Nothing => files[p].tags \subseteq files'[p].tags]_migrationVars

(* The text of a note is in the vault once a run is completed, at a path of*)
(* its own or in the note that says the same, however many runs died       *)
(* before, if the user has not written into it and its source has changed  *)
(* nothing that a run takes for that: a summary or a tier, or the text of  *)
(* a note of an old migration (hasEnrichment compares with the source of   *)
(* now).  A text with front matter of its own is excused too, for an update*)
(* imports the rest of it (renderOwnedUpdate).                             *)
ImportsAll ==
  settled => \A n \in Notes \ excused :
    \E m \in Notes : \E p \in OwnedBy(files, m) :
      files[p].body = src[n].body /\ (m = n \/ OwnedBy(files, n) = {})

(* A run that is completed leaves nothing for the next one to do, unless a *)
(* text has front matter of its own, and one path at most to each note     *)
(* that it has no conflict about.                                          *)
RerunsAreIdle ==
  settled =>
    /\ (\A n \in Notes : Plain(src[n])) => PlanNotes = <<>>
    /\ \A n \in Notes : \/ Cardinality(OwnedBy(files, n)) <= 1
                        \/ \E p \in OwnedBy(files, n) : Enriched(src[n], files[p])
=============================================================================
