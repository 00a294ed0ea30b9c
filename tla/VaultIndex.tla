----------------------------- MODULE VaultIndex -----------------------------
(***************************************************************************)
(* The index of the vault (src/vault/indexer.js) and the life of its       *)
(* documents (src/db.js, src/cli/vault-cli.js).  The files of the vault    *)
(* are the truth; vault_files ties a path to a document.  A reindex takes  *)
(* a snapshot of the rows, walks the directories, refuses to go on if too  *)
(* much is missing, guesses renames, indexes the files one by one and      *)
(* detaches the documents whose files are gone.  A detached document keeps *)
(* its row until its file returns or a purge finds its grace over.         *)
(* Each process runs one job at a time (indexQueue), but several processes *)
(* index the same vault into the same database while its files change:     *)
(* what is one transaction there is one step here, and nothing else is.    *)
(***************************************************************************)
EXTENDS FiniteSets, FiniteSetsExt, Integers

CONSTANTS
  Paths,      \* the notes' paths: numbers, in the order a walk meets them
  Contents,   \* what a note may say; a SHA-256 stands for its content
  Indexers,   \* processes with an index queue
  Purgers,    \* processes that run kb vault purge-detached
  None,       \* no file, no row, no document, not detached, no vector
  AbsLimit,   \* PRUNE_ABSOLUTE_LIMIT
  Day,        \* ticks of the clock in a day
  Grace,      \* --grace-days, in ticks
  Batch,      \* DETACHED_PURGE_BATCH_SIZE
  MaxDocs,    \* bound: ids given out
  MaxClock,   \* bound: the last tick
  MaxEvents   \* bound: what happens to the vault, and crashes

Docs == 1..MaxDocs

Row == [doc : Docs, content : Contents, missing : BOOLEAN]
Document == [content : Contents, at : Nat \cup {None},
             vec : Contents \cup {None}]

ASSUME ConstantsAssumption ==
  /\ Paths \subseteq Nat
  /\ IsFiniteSet(Paths)
  /\ AbsLimit \in Nat
  /\ Day \in Nat \ {0}
  /\ Grace \in Nat /\ Grace >= Day
  /\ Batch \in Nat \ {0}
  /\ MaxDocs \in Nat /\ MaxClock \in Nat /\ MaxEvents \in Nat

ASSUME NoneAssumption == None \notin Paths \cup Contents \cup Nat \cup Row \cup Document

VARIABLES
  disk,    \* the file at each path: its content or None
  row,     \* vault_files.  content is COALESCE(detached_content_hash, content_hash)
  doc,     \* documents, at is detached_at; with their embedding: what it embeds
  minted,  \* the ids given out so far (AUTOINCREMENT)
  tomb,    \* document_tombstones
  job,     \* what each index queue is at
  purge,   \* what each purge is at
  doomed,  \* files of deleted documents that are yet to be unlinked
  clock,
  events   \* so far, up to MaxEvents

store == <<row, doc, minted, tomb>>
vars == <<disk, row, doc, minted, tomb, job, purge, doomed, clock, events>>

(* A job.  For each path snap has the row as the job found it when it      *)
(* began; seen are the files of the walk, todo the paths that the stage    *)
(* has yet to deal with.  cached and renameFrom are the rename plan, kept  *)
(* the paths not to prune.  content, was, from and id concern the file the *)
(* job is at: what it read, the row at that time, the path it came from,   *)
(* and its document.                                                       *)
Idle ==
  [pc |-> "idle", full |-> FALSE, confirm |-> None, snap |-> [x \in Paths |-> None],
   seen |-> {}, todo |-> {}, cached |-> [x \in Paths |-> None],
   renameFrom |-> [x \in Paths |-> None], kept |-> {}, content |-> None,
   was |-> None, from |-> None, id |-> None]

Job == [pc : {"idle", "walk", "read", "look", "commit", "embed", "stat", "detach"},
        full : BOOLEAN, confirm : Nat \cup {None},
        snap : [Paths -> Row \cup {None}], seen : SUBSET Paths, todo : SUBSET Paths,
        cached : [Paths -> Contents \cup {None}],
        renameFrom : [Paths -> Paths \cup {None}], kept : SUBSET Paths,
        content : Contents \cup {None}, was : Row \cup {None},
        from : Paths \cup {None}, id : Docs \cup {None}]

(* A purge.  shown is (history) what its preview counted.                  *)
NoPurge == [pc |-> "none", before |-> 0, shown |-> [d \in Docs |-> None],
            after |-> 0, max |-> 0, ids |-> {}]

Purge == [pc : {"none", "previewed", "list", "batch"}, before : Nat,
          shown : [Docs -> Nat \cup {None}], after : Nat, max : Nat,
          ids : SUBSET Docs]

Tombstone == [doc : Docs, at : Nat, deleted : Nat]

TypeOK ==
  /\ disk \in [Paths -> Contents \cup {None}]
  /\ row \in [Paths -> Row \cup {None}]
  /\ doc \in [Docs -> Document \cup {None}]
  /\ minted \in 0..MaxDocs
  /\ tomb \in SUBSET Tombstone
  /\ job \in [Indexers -> Job]
  /\ purge \in [Purgers -> Purge]
  /\ doomed \in SUBSET Paths
  /\ clock \in 0..MaxClock
  /\ events \in 0..MaxEvents

(* An empty database, and a vault as it was before it was first indexed.   *)
Init ==
  /\ disk \in [Paths -> Contents \cup {None}]
  /\ row = [x \in Paths |-> None]
  /\ doc = [d \in Docs |-> None]
  /\ minted = 0
  /\ tomb = {}
  /\ job = [p \in Indexers |-> Idle]
  /\ purge = [u \in Purgers |-> NoPurge]
  /\ doomed = {}
  /\ clock = 0
  /\ events = 0

Live(rows, x) == rows[x] # None /\ ~rows[x].missing
First(xs) == {x \in xs : \A y \in xs : x <= y}
-----------------------------------------------------------------------------
(* The safety check of a reindex.                                          *)

LimitFor(existing) == IF existing \div 50 > AbsLimit THEN existing \div 50 ELSE AbsLimit

Existing(snap) == {x \in Paths : Live(snap, x)}

\* Mutant: no files at all is no reason to refuse.
RefusesByCountOnly(existing, scanned, missing, confirm) ==
  missing > LimitFor(existing) /\ confirm # missing

Refuses(existing, scanned, missing, confirm) ==
  /\ \/ existing > 0 /\ scanned = 0
     \/ missing > LimitFor(existing)
  /\ confirm # missing

RefusesPrune(snap, seen, confirm) ==
  Refuses(Cardinality(Existing(snap)), Cardinality(seen),
          Cardinality(Existing(snap) \ seen), confirm)

(* The rename plan: a file at a new path has the name of the one missing   *)
(* path with its content, if no other new path claims that.                *)
Gone(j) == Existing(j.snap) \ j.seen

New(j) == {x \in j.seen : j.snap[x] = None}

Cached(j) ==
  [x \in Paths |-> IF Gone(j) # {} /\ x \in New(j) THEN disk[x] ELSE None]

Claims(j, x, old) ==
  /\ x \in New(j) /\ disk[x] # None
  /\ {y \in Gone(j) : j.snap[y].content = disk[x]} = {old}

RenameFrom(j) ==
  [x \in Paths |->
     IF \E old \in Gone(j) : {y \in Paths : Claims(j, y, old)} = {x}
     THEN CHOOSE old \in Gone(j) : Claims(j, x, old)
     ELSE None]

(* The paths that are pruned once the files are done with: rows that were  *)
(* there and attached and whose file the walk did not meet.                *)
Unseen(j) == Gone(j) \ j.kept

Pruning(j) ==
  IF Unseen(j) = {} THEN Idle ELSE [j EXCEPT !.pc = "stat", !.todo = Unseen(j)]

(* A job that is through with the file at x goes on to the next.           *)
PastFile(j, x) ==
  LET past == [j EXCEPT !.pc = "read", !.todo = @ \ {x}, !.cached[x] = None,
                        !.renameFrom[x] = None, !.content = None,
                        !.was = None, !.from = None, !.id = None]
  IN  IF past.todo # {} THEN past
      ELSE IF j.full THEN Pruning(past) ELSE Idle

(* An exception of one file is reported; what it was renamed from is kept. *)
FileFails(j, x) == PastFile([j EXCEPT !.kept = @ \cup ({j.renameFrom[x]} \ {None})], x)
-----------------------------------------------------------------------------
(* What happens to the vault: people, sync and other programs create, edit *)
(* and remove notes, and move them about.                                  *)
Happens ==
  /\ events < MaxEvents
  /\ events' = events + 1

Edits(x, c) ==
  /\ Happens
  /\ disk[x] # c
  /\ disk' = [disk EXCEPT ![x] = c]
  /\ UNCHANGED <<store, job, purge, doomed, clock>>

Removes(x) ==
  /\ Happens
  /\ disk[x] # None
  /\ disk' = [disk EXCEPT ![x] = None]
  /\ UNCHANGED <<store, job, purge, doomed, clock>>

Renames(x, y) ==
  /\ Happens
  /\ disk[x] # None /\ disk[y] = None
  /\ disk' = [disk EXCEPT ![x] = None, ![y] = disk[x]]
  /\ UNCHANGED <<store, job, purge, doomed, clock>>

Ticks ==
  /\ clock < MaxClock
  /\ clock' = clock + 1
  /\ UNCHANGED <<disk, store, job, purge, doomed, events>>

(* A process dies: its queue is gone, its transactions are not.            *)
Dies(p) ==
  /\ Happens
  /\ job[p] # Idle
  /\ job' = [job EXCEPT ![p] = Idle]
  /\ UNCHANGED <<disk, store, purge, doomed, clock>>
-----------------------------------------------------------------------------
(* Transactions on the store.                                              *)

Detached(d) == [doc[d] EXCEPT !.at = IF @ = None THEN clock ELSE @, !.vec = None]

Detach(x) ==
  /\ row' = [row EXCEPT ![x].missing = TRUE]
  /\ doc' = [doc EXCEPT ![row[x].doc] = Detached(row[x].doc)]
  /\ UNCHANGED <<minted, tomb>>

(* The document of the note at x is d and says c; the row comes from the   *)
(* path `from', if that is not None.  A vector of other content goes.      *)
Upsert(x, c, d, from) ==
  /\ row' = [y \in Paths |->
               IF y = x THEN [doc |-> d, content |-> c, missing |-> FALSE]
               ELSE IF y = from THEN None ELSE row[y]]
  /\ doc' = [doc EXCEPT ![d] =
               [content |-> c, at |-> None,
                vec |-> IF doc[d] # None /\ doc[d].content = c THEN doc[d].vec ELSE None]]
  /\ UNCHANGED tomb
-----------------------------------------------------------------------------
(* An index job.                                                           *)

Becomes(p, j) == job' = [job EXCEPT ![p] = j]

(* _indexVault takes its snapshot of the rows.                             *)
StartsFull(p) ==
  /\ job[p] = Idle
  /\ Becomes(p, [Idle EXCEPT !.pc = "walk", !.full = TRUE, !.snap = row,
                             !.todo = Paths])
  /\ UNCHANGED <<disk, store, purge, doomed, clock, events>>

(* _indexVaultFile, on a note that was just written or is named by hand.   *)
StartsFile(p, x) ==
  /\ Happens
  /\ job[p] = Idle
  /\ disk[x] # None
  /\ Becomes(p, [Idle EXCEPT !.pc = "read", !.snap[x] = row[x], !.seen = {x},
                             !.todo = {x}])
  /\ UNCHANGED <<disk, store, purge, doomed, clock>>

(* scanVault.  Notes of different directories are not seen at one moment.  *)
Walks(p, x) ==
  /\ job[p].pc = "walk"
  /\ Becomes(p, [job[p] EXCEPT
       !.todo = @ \ {x},
       !.seen = IF disk[x] # None THEN @ \cup {x} ELSE @])
  /\ UNCHANGED <<disk, store, purge, doomed, clock, events>>

(* The walk is over: the run is refused, or plans its renames.  A number   *)
(* that was given with --confirm-prune and was not called for is forgotten.*)
Plans(p, confirm) ==
  LET j == [job[p] EXCEPT !.confirm =
              IF RefusesPrune(job[p].snap, job[p].seen, None) THEN confirm ELSE None]
      planned == [j EXCEPT !.pc = "read", !.todo = j.seen, !.cached = Cached(j),
                           !.renameFrom = RenameFrom(j)]
  IN
  /\ j.pc = "walk" /\ j.todo = {}
  /\ Becomes(p, IF RefusesPrune(j.snap, j.seen, confirm) THEN Idle
                ELSE IF j.seen = {} THEN Pruning(j) ELSE planned)
  /\ UNCHANGED <<disk, store, purge, doomed, clock, events>>

\* Mutant: a row whose document is detached counts as well.
UnchangedOrMissing(j, x, c) == j.snap[x] # None /\ j.snap[x].content = c

Unchanged(j, x, c) == Live(j.snap, x) /\ j.snap[x].content = c

(* The content of a file is read, unless the plan has it.  A note that has *)
(* not changed is passed over, or embedded if its vector is missing.       *)
Reads(p, x) ==
  LET j == job[p]
      c == IF j.cached[x] # None THEN j.cached[x] ELSE disk[x]
      unembedded == j.full /\ row[x] # None /\ doc[row[x].doc].vec = None
  IN
  /\ j.pc = "read"
  /\ Becomes(p,
       IF c = None THEN FileFails(j, x)
       ELSE IF ~Unchanged(j, x, c) THEN [j EXCEPT !.pc = "look", !.content = c,
                                                      !.cached[x] = None]
       ELSE IF unembedded THEN [j EXCEPT !.pc = "embed", !.id = row[x].doc,
                                         !.content = doc[row[x].doc].content]
       ELSE PastFile(j, x))
  /\ UNCHANGED <<disk, store, purge, doomed, clock, events>>

(* A file may have the identity of the path it seems to have come from if  *)
(* it has no row and the row of that path, whose file is gone, is as it is.*)
ComesFrom(j, x, c) ==
  LET old == j.renameFrom[x]
  IN  IF /\ row[x] = None /\ old # None
         /\ disk[old] = None /\ row[old] # None /\ row[old].content = c
      THEN old ELSE None

(* upsertVaultDocument, up to its transaction.                             *)
Looks(p, x) ==
  LET j == job[p] IN
  /\ j.pc = "look"
  /\ Becomes(p, IF disk[x] = None THEN FileFails(j, x)
                ELSE [j EXCEPT !.pc = "commit", !.was = row[x],
                               !.from = ComesFrom(j, x, j.content)])
  /\ UNCHANGED <<disk, store, purge, doomed, clock, events>>

(* The row was attached when the job looked, and is not that row any more. *)
Lost(j, x) ==
  /\ j.was # None /\ ~j.was.missing
  /\ \/ row[x] = None
     \/ row[x].doc # j.was.doc
     \/ row[x].missing

(* moveVaultFile moves only a row with the content that was agreed on.     *)
Moves(j, x) ==
  /\ row[x] = None /\ j.from # None
  /\ row[j.from] # None /\ row[j.from].content = j.content

\* Mutant: a path that comes back is new.
OwnerIfLive(j, x) ==
  IF Live(row, x) THEN row[x].doc
  ELSE IF Moves(j, x) THEN row[j.from].doc ELSE minted + 1

(* The document of the note: the path's, by its row as it is now, or that  *)
(* of the path it came from, or a new one.                                 *)
Owner(j, x) ==
  IF row[x] # None THEN row[x].doc
  ELSE IF Moves(j, x) THEN row[j.from].doc ELSE minted + 1

(* Its transaction.                                                        *)
Commits(p, x) ==
  LET j == job[p]
      d == Owner(j, x)
  IN
  /\ j.pc = "commit"
  /\ IF Lost(j, x)
     THEN Becomes(p, FileFails(j, x)) /\ UNCHANGED store
     ELSE /\ d \in Docs
          /\ Upsert(x, j.content, d, IF Moves(j, x) THEN j.from ELSE None)
          /\ minted' = IF d > minted THEN d ELSE minted
          /\ Becomes(p, [j EXCEPT !.pc = "embed", !.id = d, !.was = None,
                                    !.from = None])
  /\ UNCHANGED <<disk, purge, doomed, clock, events>>

\* Mutant: as long as there is a document.
EmbeddableAnyhow(d, c) == doc[d] # None

(* storeEmbedding: the vector is stored only for a document that is        *)
(* attached and still says what was embedded.                              *)
Embeddable(d, c) == doc[d] # None /\ doc[d].at = None /\ doc[d].content = c

Embeds(p, x) ==
  LET j == job[p] IN
  /\ j.pc = "embed"
  /\ doc' = IF Embeddable(j.id, j.content)
            THEN [doc EXCEPT ![j.id].vec = j.content] ELSE doc
  /\ Becomes(p, PastFile(j, x))
  /\ UNCHANGED <<disk, row, minted, tomb, purge, doomed, clock, events>>

EmbedFails(p, x) ==
  /\ job[p].pc = "embed"
  /\ Becomes(p, PastFile(job[p], x))
  /\ UNCHANGED <<disk, store, purge, doomed, clock, events>>

PastPrune(j, x) ==
  IF j.todo = {x} THEN Idle ELSE [j EXCEPT !.pc = "stat", !.todo = @ \ {x}]

(* pruneMissingVaultFiles: a last look at the disk, and the detachment.    *)
Stats(p, x) ==
  LET j == job[p] IN
  /\ j.pc = "stat"
  /\ Becomes(p, IF disk[x] # None THEN PastPrune(j, x) ELSE [j EXCEPT !.pc = "detach"])
  /\ UNCHANGED <<disk, store, purge, doomed, clock, events>>

Detaches(p, x) ==
  /\ job[p].pc = "detach"
  /\ IF row[x] = None THEN UNCHANGED store ELSE Detach(x)
  /\ Becomes(p, PastPrune(job[p], x))
  /\ UNCHANGED <<disk, purge, doomed, clock, events>>
-----------------------------------------------------------------------------
(* DELETE /api/documents/:id detaches the document, then removes its file. *)
Deletes(x) ==
  /\ Happens
  /\ row[x] # None
  /\ Detach(x)
  /\ doomed' = doomed \cup {x}
  /\ UNCHANGED <<disk, job, purge, clock>>

Unlinks(x) ==
  /\ x \in doomed
  /\ doomed' = doomed \ {x}
  /\ disk' = [disk EXCEPT ![x] = None]
  /\ UNCHANGED <<store, job, purge, clock, events>>
-----------------------------------------------------------------------------
(* kb vault purge-detached: a dry run, whose counts are audited, and an    *)
(* apply that insists on the same counts and goes through the ids in       *)
(* batches, each of which looks at its documents again.  detached_at and   *)
(* the limit are compared as strings, "YYYY-MM-DD hh:mm:ss" and            *)
(* "YYYY-MM-DDThh:mm:ss.sssZ": within a day the blank comes before the T.  *)
Expired(at, before) == at # None /\ at \div Day <= before \div Day

Eligible(before) == {d \in Docs : doc[d] # None /\ Expired(doc[d].at, before)}

Last(ids) == {d \in ids : \A e \in ids : e <= d}

Previews(u) ==
  LET before == clock - Grace IN
  /\ purge[u].pc \in {"none", "previewed"}
  /\ before >= 0
  /\ purge' = [purge EXCEPT ![u] = [NoPurge EXCEPT
       !.pc = "previewed", !.before = before,
       !.shown = [d \in Docs |-> IF d \in Eligible(before) THEN doc[d].at ELSE None]]]
  /\ UNCHANGED <<disk, store, job, doomed, clock, events>>

Shown(g) == {d \in Docs : g.shown[d] # None}

Agrees(g) ==
  /\ Cardinality(Eligible(g.before)) = Cardinality(Shown(g))
  /\ Last(Eligible(g.before)) = Last(Shown(g))

Applies(u) ==
  LET g == purge[u] IN
  /\ g.pc = "previewed"
  /\ \/ /\ Agrees(g)
        /\ \E top \in Last(Shown(g)) :
             purge' = [purge EXCEPT ![u] = [g EXCEPT !.pc = "list", !.max = top]]
     \/ /\ ~Agrees(g) \/ Shown(g) = {}
        /\ purge' = [purge EXCEPT ![u] = NoPurge]
  /\ UNCHANGED <<disk, store, job, doomed, clock, events>>

(* The lowest ids of those still to come, a batch of them.                 *)
NextBatch(g) ==
  LET rest == {d \in Eligible(g.before) : d > g.after /\ d <= g.max}
  IN  {d \in rest : Cardinality({e \in rest : e <= d}) <= Batch}

Lists(u) ==
  LET g == purge[u]
      ids == NextBatch(g)
  IN
  /\ g.pc = "list"
  /\ \/ /\ ids = {}
        /\ purge' = [purge EXCEPT ![u] = NoPurge]
     \/ \E top \in Last(ids) :
          purge' = [purge EXCEPT ![u] =
                      [g EXCEPT !.pc = "batch", !.ids = ids, !.after = top]]
  /\ UNCHANGED <<disk, store, job, doomed, clock, events>>

\* Mutant: what was listed is not looked at again.
PurgedAsListed(g) == {d \in g.ids : doc[d] # None}

(* purgeDetachedDocumentBatch, one transaction.                            *)
Purged(g) == g.ids \cap Eligible(g.before)

\* Mutant: the rows of purged documents stay.
RowsStay(gone) == row

RowsWithout(gone) ==
  [x \in Paths |-> IF row[x] # None /\ row[x].doc \in gone THEN None ELSE row[x]]

PurgesBatch(u) ==
  LET g == purge[u] IN
  /\ g.pc = "batch"
  /\ tomb' = tomb \cup {[doc |-> d, at |-> doc[d].at, deleted |-> clock] : d \in Purged(g)}
  /\ row' = RowsWithout(Purged(g))
  /\ doc' = [d \in Docs |-> IF d \in Purged(g) THEN None ELSE doc[d]]
  /\ purge' = [purge EXCEPT ![u] =
       IF g.after < g.max THEN [g EXCEPT !.pc = "list", !.ids = {}] ELSE NoPurge]
  /\ UNCHANGED <<disk, minted, job, doomed, clock, events>>
-----------------------------------------------------------------------------
Confirmations == {None} \cup 1..Cardinality(Paths)

Runs(p) ==
  \/ \E confirm \in Confirmations : Plans(p, confirm)
  \/ \E x \in First(job[p].todo) :
       \/ Walks(p, x) \/ Reads(p, x) \/ Looks(p, x) \/ Commits(p, x)
       \/ Embeds(p, x) \/ EmbedFails(p, x) \/ Stats(p, x) \/ Detaches(p, x)

Starts(p) ==
  \/ StartsFull(p)
  \/ \E x \in Paths : StartsFile(p, x)

Happening ==
  \/ \E x \in Paths : Removes(x) \/ Deletes(x) \/ Unlinks(x)
  \/ \E x \in Paths, c \in Contents : Edits(x, c)
  \/ \E x, y \in Paths : Renames(x, y)
  \/ \E p \in Indexers : Dies(p)
  \/ Ticks

Purges(u) == Previews(u) \/ Applies(u) \/ Lists(u) \/ PurgesBatch(u)

Next ==
  \/ Happening
  \/ \E p \in Indexers : Starts(p) \/ Runs(p)
  \/ \E u \in Purgers : Purges(u)

(* The job of every five minutes (README.md:249) starts a reindex; what is *)
(* started goes on; an embedding does not fail for ever.                   *)
Fairness ==
  /\ \A p \in Indexers : /\ WF_vars(StartsFull(p)) /\ WF_vars(Runs(p))
                         /\ SF_vars(\E x \in First(job[p].todo) : Embeds(p, x))
  /\ \A x \in Paths : WF_vars(Unlinks(x))

Spec == Init /\ [][Next]_vars /\ Fairness
-----------------------------------------------------------------------------
(* No document is tracked by two paths, every document is tracked by one,  *)
(* rows and documents agree on what the note says and whether it is there, *)
(* and an id that was purged is never seen again: whatever the processes   *)
(* that index, delete and purge do between each other's transactions.      *)
OneIdentity ==
  /\ \A x, y \in Paths : row[x] # None /\ row[y] # None /\ row[x].doc = row[y].doc => x = y
  /\ \A x \in Paths : row[x] # None =>
       /\ doc[row[x].doc] # None
       /\ doc[row[x].doc].content = row[x].content
       /\ row[x].missing <=> doc[row[x].doc].at # None
  /\ \A d \in Docs : doc[d] # None =>
       /\ d <= minted
       /\ \E x \in Paths : row[x] # None /\ row[x].doc = d
  /\ \A t \in tomb : doc[t.doc] = None /\ t.doc <= minted

(* A stored vector embeds what its document says, and no detached document *)
(* has one: a slow embedding never brings back what has changed or gone.   *)
VectorsCurrent ==
  \A d \in Docs : doc[d] # None /\ doc[d].vec # None =>
    doc[d].at = None /\ doc[d].vec = doc[d].content

(* A run never sets out to detach more documents than the limit it         *)
(* announced, or exactly the number it was told, and none at all when it   *)
(* saw no file, unless told.                                               *)
BlastRadius ==
  \A p \in Indexers : job[p].pc \in {"stat", "detach"} =>
    LET j == job[p] IN
    \/ Cardinality(j.todo) <= LimitFor(Cardinality(Existing(j.snap))) /\ j.seen # {}
    \/ j.confirm # None /\ Cardinality(j.todo) <= j.confirm

(* The document of a path stays the document of that path for as long as   *)
(* there is a row, and goes to another path only with its content, after a *)
(* rename: processes that index the same new or renamed file never make    *)
(* two of it or swap them.                                                 *)
IdentityStays ==
  [][\A x \in Paths : row[x] # None =>
       \/ row'[x] # None /\ row'[x].doc = row[x].doc
       \/ /\ row'[x] = None
          /\ \A y \in Paths : row'[y] # None /\ row'[y].doc = row[x].doc =>
               row'[y].content = row[x].content]_vars

(* What a purge deletes its preview has counted, and it has been detached  *)
(* ever since: a note that returned is spared, even if it went again.      *)
PurgesWhatWasShown ==
  [][\A d \in Docs : doc[d] # None /\ doc'[d] = None =>
       \E u \in Purgers : purge[u].pc = "batch" /\ purge[u].shown[d] = doc[d].at]_vars

(* Once the vault is left alone, reindexes make the index say what the     *)
(* vault says, vectors included, whatever happened before: stale commits,  *)
(* a detachment that raced a file's return, crashes, a delete undone.  Or  *)
(* the next run is refused, as too much is missing.                        *)
Synced ==
  \A x \in Paths :
    IF disk[x] = None THEN ~Live(row, x)
    ELSE Live(row, x) /\ row[x].content = disk[x] /\ doc[row[x].doc].vec = disk[x]

Blocked == RefusesPrune(row, {x \in Paths : disk[x] # None}, None)

EventuallySynced == <>[](Synced \/ Blocked)

(* "tombstones only after an exact confirmed grace-period apply"           *)
(* (tests/vault-detachment.test.js:39, and the reason                      *)
(* detached_grace_expired): a document is purged no sooner than its grace. *)
PurgedAfterGrace == \A t \in tomb : t.deleted - t.at >= Grace
=============================================================================
