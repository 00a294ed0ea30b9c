# A verification development of kb-graph

kb-graph keeps a knowledge base for coding agents: notes in a vault directory,
an SQLite index with embeddings, a ledger of facts, and a resident daemon that
captures lessons from session transcripts. This directory holds TLA+
specifications of its parts, TLC runs on small instances, and TLAPS proofs for
every value of the constants. Paths below are relative to the repository root
(its code is in `src/`, its tests in `tests/`).

## Inventory

| Component | Code | State | Operations | Hard behaviour | Correct when | Module |
|---|---|---|---|---|---|---|
| Session capture | `src/session-capture.js`, `src/cli/session-capture-hook.js` | queue, `.json.working` lease and receipt file per session | enqueue (upsert), recover, claim, harvest, receipt, retry, release | hooks and daemons share nothing but files; crashes; leases that expire under a running harvest | accepted captures are never forgotten, receipts are honest, every capture is harvested in the end | `SessionCapture` |
| Daemon | `src/daemon.js`, `src/cli/serve.js`, `src/daemon-restart.js` | socket files, connections, one drain, restart markers | claim the sockets, serve, drain, close, announce a restart | two daemons claim one stale socket; a closing and a new one overlap | a start that fails leaves nothing; a planned restart cuts nothing off | `Lifecycle`, `SessionCapture` |
| MCP shim | `src/cli/mcp-shim.js` | pending requests, handshake | wait, relay, recover | a daemon that goes away with requests in flight | each request is answered once | `Lifecycle` |
| Authored writes | `src/write-note.js`, `kb_write` in `src/tools.js` | lock row in `meta`, vault files, documents | lock, dedup, create, index, retire | several processes, dead owners, unindexed notes, a reindex beside it | one writer; no duplicates; no leaked lock | `AuthoredWrite` over `AtomicNotes` |
| Vault index | `src/vault/indexer.js`, `src/embeddings/`, `src/db.js` | `vault_files`, documents, embeddings | scan, upsert, move, detach, prune, embed | files change while they are indexed, by several processes | a document keeps its path, the index converges to the vault, no run prunes too much | `VaultIndex` |
| Deletion and purge | `src/cli/vault-cli.js`, `src/routes/api.js`, `src/db.js` | detached documents, tombstones, audited previews | delete, preview, apply in batches | notes that return or go again in between | what is purged was shown, and its grace is over | `VaultIndex` |
| Transcript harvest | `src/harvest.js` | chunk ledger, watermarks, rotation cursor | select, read facts, read lessons, watermark | overlapping runs, growing transcripts, poisoned ones, bounded shares | watermarks hide no text; every session is read in the end | `Harvest` |
| Facts | `src/facts.js`, `src/predicates.js`, `src/extract.js`, `src/fact-reviews.js` | bitemporal facts, aliases, reviews | add, extract, invalidate, rename, review | observations out of order, from several processes; reviews of what has changed | one current value per ticket; a review covers what its reviewer saw | `Facts` |
| Reconciliation | `src/reconciliation.js`, `src/cli/reconcile.js` | queue, cursor, acknowledgements, log | select, ask a model, apply or review, log, save | the model answers minutes later; crashes between change and log | only unchanged notes are changed; what is not logged is looked at again; every entry gets a turn | `Reconciliation` |
| Hooks | `src/cli/trigger-hook.js`, `prompt-hint.js`, `wakeup-hook.js`, `precompact-hook.js`, `checkpoint-hook.js`, `hook-io.js` | marker, claim, slot and snapshot files per session | decide, mark, deliver, reserve, save, restore | overlapping hook processes, late answers, kills | policies deny, caps hold, nothing undelivered is used up | `Hooks` |
| Identity repair | `src/identity-repair.js` | reports, run status, ledger of changes | plan, apply and undo in batches | commands overlap and die while the daemon goes on | made whole or undone whole; links join the notes they joined | `IdentityRepair` |
| Legacy migration | `src/migrate-legacy.js` | source notes, vault files | plan, execute, run again | interruption, edits by the user, sources that change | texts imported, what the user wrote kept, reruns idle | `LegacyMigration` |
| Follow-through reports | `src/cli/follow-through.js`, `capture-follow-through.js` | what is logged of hints, reads, captures | join, judge | times of two resolutions, documents that go | verdicts do not change | `FollowThrough` |
| Promotions | `src/cli/promotions.js`, `src/tiers.js` | tiers in index and file, a log | decide, raise, index, log | runs overlap, fail and die half way; a reindex skips what it knows | what is logged as promoted has been raised | `Promotions` |
| Retrieval outcomes | `src/retrieval-outcomes.js`, `src/outcome-ranking.js` | outcomes per note version | read a transcript again, record, rank | a transcript that grows; notes edited, superseded, deleted | outcomes are earned | `Outcomes` |
| Note replacement, private files | `src/atomic-note-write.js`, `src/private-file.js` | lock directories, temporaries | claim, replace if unchanged | stale locks with several contenders | no lost replacement | - |
| Search and context | `src/embeddings/search.js`, `src/context-packet.js`, `src/hint-relevance.js` | derived scores | rank, render | little: pure | - | - |
| Server, web UI, setup, child processes | `src/server.js`, `src/mcp-http.js`, `src/auth.js`, `src/cli/setup.js`, `src/claude-cli.js` | sessions, files | request plumbing, installation, process I/O | I/O | - | - |

They interact so: a host's hooks run `enqueueSessionCapture`, in their own
process or through the daemon's control socket; the daemon's drain calls
`runHarvest` for one transcript; the nightly job calls it for many; a harvest
writes its notes with `writeNote`, which indexes them, stores facts with
`consolidate`, and reads transcripts once more for outcomes; a person's
`kb_write` takes the same lock; `kb vault reindex` and editors of the vault take
none. Agents reach the daemon through a shim each; hooks ask it with a deadline
and compute the same themselves when it is late. `PROJECT.json` lists the
components with what is and is not modelled, and the hazards of this code line
by line.

## What is modelled

Every step of a process that others can see is an action; between two `await`s
or two file-system calls anything may happen. Content is abstracted to what the
properties tell apart: a note is what it says (a topic), a transcript is how
long it is, a time is how far off it is, and what a model, a person or a
recogniser says is a choice. Ghost variables are marked `ghost` or `history` at
their declaration, and no guard reads them but where a bound says so.

### `SessionCapture.tla`

State: per session the `queue` row, the `working` lease and the `receipt`; per
hook execution and per daemon where it is in the code and what it has read.
`HookObserves`, `HookReadsPrior`, `HookWrites` are `enqueueSessionCapture`;
`DrainStarts` to `ReleaseRemoves` are `processSessionCaptureQueue` in the order
of its file-system calls, with both ways `claimQueueItem` can fail;
`DaemonStarts/Closes/Exits/Crashes` are the life of the process as the queue
sees it; several may be up at once, as after a race for a stale socket
(`Lifecycle`). `Tick` lets time pass. Times are relative (what is left of a deadline),
and `age` is how long ago a drain took its `now`, from which all its deadlines
are computed. A lease's owner is a fresh UUID: the daemon itself while it lives,
nobody once it has died. The two history variables `accepted` and `covered` are
what hooks have reported as queued and what complete harvests have read. A
harvest has three outcomes here; what is behind them is `Harvest`'s `Finishes`
with and without a watermark and `GivenUp`/`TranscriptFails`. `RowFails` ends the
drain for every row that cannot be written; where `requeueIncomplete` writes it,
the code tries to write it once more as a failed attempt, with the lease in place
either way.

### `AtomicNotes.tla` and `AuthoredWrite.tla`

`AtomicNotes` is the promise: a routine note is created only if no live note is
its duplicate, in one step. `AuthoredWrite` is the code: the lock row with
`INSERT OR IGNORE`, the look at its owner's process, the transaction that takes
over a dead owner's row, a failed release and its timer, the check for a corpus
with gaps, the similarity query, the file, then `indexVaultFile`'s read, upsert
and embedding, and the retirement that `kb_write` does after the lock. Reindexes
run the same three indexing steps without the lock, and `Edits` are people.
`Verdict` maps each call to the abstract one. `strayed` (history) are notes
whose file and document came apart while no writer had them in hand: edits by
hand, deaths and failures between file and index. Dedup cannot see those, and
neither specification promises anything of them; `blind` are the corrections
that went on without a verdict (`canProceedWithoutDedupe`).

Assumptions: a process that restarts has another start time, so it is another
process; similarity is a relation on topics; `canProceedWithoutDedupe` is "the
call supersedes a note that exists"; documents are neither detached nor purged;
`ps` prints the start of a process the same way to everybody (the string is
compared, and depends on locale and time zone).
The relation need not be symmetric, and in the code it is not: the query embeds
the whole of a new note, while a stored vector embeds `embeddableBody`, without
the `Related` section and cut at 2000 characters.

### `Harvest.tla`

State: each transcript's length, mtime and age class; the ledger of chunks by
pass (`harvest_chunk_log`), the watermarks (`harvest_log`), the rotation cursor,
and per run the work it has left. `Sweeps` is the whole selection of `runHarvest`
(`stillPending`, the historical backfill, `rotateAfterCursor`,
`selectHarvestWork` with its move of the cursor); `HarvestsPath` is `onlyPath`;
`ReadsTranscript` to `Finishes` are `harvestTranscript` and the loop around it,
chunk by chunk. The scan over the rotated list is stated by how many come
before, not as a fold; the cursor's rules (old transcripts alone move it once
the scan has met one) are kept. `TranscriptFails` is any exception of one
transcript, which the loop swallows.

Abstractions: text is counted in units and only grows, so a chunk is where it
starts and ends; transcripts that are excluded by kind (subagents', print mode)
are not there; `kb harvest --path` reads lessons only, as a capture does, and not
facts (`--facts`); no two transcripts have the same mtime; the raw size of a file
stands for its text; no dry runs, no 1000-row limit, and no maintenance after
the sweep.

### `VaultIndex.tla`

State: the vault (`disk`), `vault_files` (`row`) and `documents` with their
embedding (`doc`), the ids given out, the tombstones; per process with an index
queue the job it is at, per purge what it has previewed and listed. A job is
`_indexVault` or `_indexVaultFile`: `StartsFull` takes the snapshot of the rows,
`Walks` is `scanVault`, `Plans` the safety check and `planExactContentRenames`;
then for each file `Reads` (skip, embed if missing, or index), `Looks`
(`upsertVaultDocument` before its transaction), `Commits` (the transaction, with
`moveVaultFile`), `Embeds`/`EmbedFails` (`storeEmbedding`); then
`pruneMissingVaultFiles`, `Stats` and `Detaches` for each missing file.
`Deletes` and `Unlinks` are `DELETE /api/documents/:id`; `Previews`, `Applies`,
`Lists` and `PurgesBatch` are `kb vault purge-detached`. `Edits`, `Removes`,
`Renames` are people and sync, `Dies` a process that indexes.

What SQLite does in one transaction is one step and nothing else is: processes
share no queue, so their jobs interleave between any two. A job that is at a
file holds what it read before in `content`, `was` and `from`; the transaction
looks again, and `OneIdentity` and `IdentityStays` are about whether it looks
at enough.

Abstractions: a SHA-256 stands for its content, and the body for the file
(legacy 16-character hashes, tiers, aliases, triggers, metadata and telemetry are
left out); each note is in a directory of its own, so a walk sees any two at
different moments; the files of the rename plan are read at one moment; files
are walked in one fixed order; a run without embeddings is one in which all of
them fail; documents outside the vault are left out, and so is
`DELETE` of a document whose server dies before it unlinks, which is an `Unlinks`
that takes long. Time is in ticks, `Day` of them in a day, which is what the
comparison of `detached_at` (`YYYY-MM-DD hh:mm:ss`) with the limit
(`YYYY-MM-DDThh:mm:ss.sssZ`) as strings depends on (`Expired`).

`AuthoredWrite` has the same indexing with documents that are never detached,
beside the writers' lock; `VaultIndex` has no writers, only what they leave on
disk (`Edits`, then `StartsFile`).

### `Lifecycle.tla`

State: what each `kb serve` process is doing, whose bind made each of the two
socket files, on what each daemon listens; the restart markers (the immutable
files of the generations and the mirror at the fixed path), and what each daemon
saw of them before it started; per shim its stage, its connection with what
travels on it, the `pending` set and what the client has asked and got.

`Starts` to `SettlesLegacy` are `startReplacementDaemon` and `startDaemon`: the
markers are read, each socket is probed (a probe may say "unknown" of any path,
and then the start fails), a dead one is unlinked in a step of its own, both are
bound and their files' modes set, which fails if another start has unlinked them
meanwhile (`ChmodFails`), and only then the markers that had been seen are
removed.
`Announces`, `Signalled`, `Refreshes` are the writers of markers;
`StopsListening`, `DrainEnds`, `DrainTimesOut`, `Finishes` the shutdown.
`ShimStarts` to `Dials` are the wait for a daemon, with its extension by recent
markers; `Takes`, `Answers`, `AnswersReplay` the server's end of a connection;
`Relays` (inside the client's actions) to `Reattaches` the relay and its
recovery: what was pending fails once, the handshake is replayed, the client
goes on. A tick of the clock is the shim's deadline for starting. `Left` is the
maker of a socket file that an earlier daemon left behind.

Abstractions: the check of one connection for calls in flight and its close are
one step (`DrainEnds`); recovery telemetry, framing of messages, the in-process
server itself, and the gate that makes background work yield to calls.

### `Hooks.tla`

State: per running hook what its process (or the daemon, for it) has read and
decided; on disk each session's marker of warned notes, `.claim` and `.slot`
files, and the continuity snapshot. `DaemonComputes`, `TakesAnswer`,
`FallsBack`, `ComputesHere` are `callDaemonOp` with its deadline: what the
daemon sends is a plan, which it may have made long before the hook acts on it;
`Logs`, `AppendReads`, `AppendWrites`, `Delivers` are `decideAndRecord` with the
marker's unlocked read and write, where a marker that cannot be read is an empty
one (`Reads`); `CheckpointClaims` to `CheckpointReminds` are
`reserveCheckpoint` with its two files, either of which an error may leave behind
(`Leaves`); `PrecompactSaves`, `Prints`, `Consumes`
are the snapshot of a compaction and its recovery. `HookKilled` may happen at
any of them.

Abstractions: which notes a command matches and which of them is first, what
makes a command a boundary, the parsing of shell commands and the ranking of
hints are inputs; the sweeps of files after 7 and 90 days are left out, so a
session is shorter than they are; all sessions have one working directory;
`session-map.js` is not modelled.

### `Facts.tla` and `Reconciliation.tla`

State of `Facts`: the table of facts with the days from and to which they hold,
the aliases of renamed entities, reviews with what their reviewer had seen, the
preview of a dry extraction, and the calls in flight. One transaction is one
action: `FactAdd` (`kb_fact_add`), `ExtractStores` (`consolidate` with
`retireContradicted`, which look for rows by the names that a query shows:
`SameValue`, `Reached`), `InvalidateReads` and `InvalidateWrites` (two statements,
so two steps), `MergeStarts` and `MergeCommits` (`mergeEntity`, whose keys are
resolved before its transaction), `ReviewReads` and `ReviewWrites`
(`reviewFactGroup` some time after the report). A *setup* says which of these an
installation uses and how often, so that TLC can take them in pairs and triples.

`Reconciliation` adds `kb reconcile`: the queue of note pairs and entities with
several values, its order by the cursor, the model's answer after any time
(`Asks`, `NoteAnswered`, `FactAnswered`), the application with its second look
at both notes, the line of the log, the acknowledgement and the cursor, each a
step (`Logs`, `Saves`); runs that overlap and die; people who rewrite and
supersede notes meanwhile.

Abstractions: one predicate, which is single-valued for tickets; names that
differ in spelling only are equal; whether transcripts support a judgement is a
choice.

### `IdentityRepair.tla`, `LegacyMigration.tla`, `FollowThrough.tla`, `Promotions.tla`, `Outcomes.tla`

`IdentityRepair`: backup and live database as documents (paths, hash) and links
(a telemetry row's document, a document's `superseded_by`); `Plans` is the dry
run with its identity map and evidence, `BeginsApply`, `RecordsRun`, `Applies`,
`CompletesApply` and `BeginsUndo`, `ReadsLedger`, `Undoes`, `CompletesUndo` the
two commands, a batch per transaction; `Indexes`, `Supersedes`, `Purges` are the
daemon meanwhile, `Checkpoints` what changes the main file and so makes a report
stale.

`LegacyMigration`: a file has an owner, a text, front matter by field (`Fields`
stands for tier and summary), tags, and what a migration noted that it imported; a
source has a home (its title, type, date, project and link), a text, front matter
and tags. `BodyEnriched` and `Enriched` are `hasBodyEnrichment` and
`hasEnrichment`, which compares with what the source says now; `Rendered` is
`renderOwnedUpdate`, in which `matter.stringify` takes front matter that the text
begins with out of it (`Parsed`). `PlanAfter` is the plan as a recursive function
of how many notes it has been made for, `PlanNotes` what is executed of it;
`ChecksOp` to `EndsOp` execute it, one file operation a step; the user edits vault
and sources meanwhile. `excused` (history) are the notes of which a run takes
something for the user's, rightly or not (`Mistaken`). What YAML makes of a value
is left out (a title that is a number never agrees with the source's). Two keys of
one 32-bit hash, the formats of the sources, symbolic links and the audit log are
left out. The vaults it starts from have no file of one note at the home of
another (`AtHome`): a file name holds the hash of its note's key (`noteFilename`),
so only a user who renames a file to the name of another note makes one. What a
run does beside such a file is not claimed here.

`FollowThrough`: what hooks and tools log, with whole seconds in the database and
milliseconds in the logs, and the verdict a report gives at any time on each push
and each checkpoint (`Verdict`, `CaptureState`).

`Promotions`: a run reads who was followed, raises the index, then the file,
then indexes it, then writes its line; each of these may fail. `IndexesFile` is
what an indexing makes of the tier: nothing, if the file is as it was when it was
indexed last (`unseen` is where it is not).

`Outcomes`: one session's transcript as lines that say what a note is used for,
with a time or without one, call, or report success; `RecordsOutcomes` is
`recordRetrievalOutcomesForSession` over what there is so far.

`MCMaintenance` puts the five in one instance, one of them at a time: their
variables are disjoint and their properties about nothing that they share, so
nothing is lost by not interleaving them.

## Runs

| Run | Shows | Bounds |
|---|---|---|
| `capture_overlap` | `AcceptedNotLost`, `ReceiptHonest` while two daemons overlap | 1 session, 1 hook, 2 daemons that may both be up, 2 mtimes, 2 events, no crash |
| `capture_live` | `EventuallyCaptured`, and `LeaseRespected`, through a crash or a failed row, for each kind of transcript | 1 session, 2 hooks, 1 daemon, 1 crash, 2 events or 1 |
| `capture_fresher_row` | violated: a retry overwrites a row that a hook queued between its check and its write | 1 session, 2 hooks, 1 daemon, 1 crash, 2 attempts |
| `authored` | `OneWriter`, `LockAccounted`, `DuplicateFree`, `EveryCallEnds`, and `WritesAreAtomic` (the refinement) | 2 calls in 2 processes, each may die; 1 seed note, 1 reindex, 1 edit, all notes alike |
| `harvest_overlap` | `WatermarkHonest` | 1 transcript, chunks of 2 units, a sweep and a capture, 2 changes, 1 crash |
| `harvest_backlog` | `EventuallyRead` | 3 transcripts, of which 2 may fail for ever, 1 of work per night, 1 change |
| `vault` | `OneIdentity`, `VectorsCurrent`, `BlastRadius`, `IdentityStays`, `PurgesWhatWasShown`, `EventuallySynced` | 1 process that indexes, 1 that purges, 2 paths, 2 contents, 2 events, a grace of one day |
| `vault_grace` | violated: a document is purged before its grace is over | 1 event, days of two ticks |
| `lifecycle` | `RequestsAccounted`, `NoHalfStart`, `RestartsAreSmooth`, `ClientsAreServed` | 2 daemons over a stale socket, 1 shim, 1 request, 1 announcement, 1 crash, 1 tick |
| `hooks` | `WarningsBounded`, `PoliciesDeny`, `CheckpointsCapped`, `UnreadStays` | 2 hooks at a time, 2 sessions, 3 notes of which 1 a policy, a cap of 1 warning and of 2 reminders of 3 kinds, 1 unreadable marker, 2 compactions |
| `facts` | `LedgerSound`, `SettledMeansSeen`, `AckedWereLogged`, `MergesKeepFacts`, `JudgedUnchanged`, `EveryItemGetsATurn` | 5 names, 2 of them tickets; 3 facts in 2 days by 1 or 2 callers, 1 review; 2 runs over a ledger of 4 facts and 2 notes, 1 event |
| `maintenance` | `NoMixedState`, `RepairsAreProven`, `UndoSparesOthers`; `ImportsAll`, `RerunsAreIdle`, `EditsKept`; `VerdictsSettle`; `LoggedMeansRaised`; `OutcomesAreEarned` | 2 commands with 1 report in batches of 1, 1 change, 1 crash; 2 source notes, 3 texts of which 1 begins with front matter, 1 field, 1 tag, 3 vaults, 2 edits, 1 dead run; 3 logged events in 7 ticks; 2 notes, 2 runs; 1 note, 2 tasks, 4 lines in 4 ticks, 2 retrievals |

Why the bounds are enough. Sessions do not share files, and a drain takes one row
at a time, so one session with two daemons and two hooks has every race of the
queue; one crash is enough to lose what is in memory at any step. In
`capture_overlap` failed attempts are not counted (`MaxAttempts = 0`): with the
delay at its ceiling the number decides nothing. Two calls are a holder and a
contender for its row, or two that look for each other's note; that two contenders
for a dead owner's row do not both win needs a third call, and is proved for any
number (`MutualExclusion`). For watermarks one transcript is enough, as rows of
different transcripts never meet; rotation needs more transcripts than a night's
share. Two paths are a rename's source and its target, or two notes that claim one
document; the limit on prunes is 1 there, so that two missing notes are too many;
what several processes that index do to each other is proved (`IdentityInvariant`,
`VectorInvariant`), the run has one of them beside people, the server's deletes
and a purge. Two daemons are both the two claimants of one path and the old and
the new one of a restart. Two hooks are both sides of each race of files; two
notes that are no policy with a cap of one warning, and three kinds of boundary
with a cap of two reminders, make each cap bind. Two commands are an apply with an
undo, two undos or two applies; a batch of one puts others between any two
changes. The `reconcile` setup of `facts` starts from the ledger that four calls
of `kb_fact_add` leave (`MCLedger`): a ticket whose value has changed, and an
entity that has two. An alias of an alias needs two merges that overlap; what an
extraction makes beside them is not in the run (it has some millions of states)
and is covered by the proof. A transcript is of one agent: all its lines that name
a note have a time, or none has (`MCTranscripts`, which also lets it begin with
such a line); with two tasks a line, a call and a result may be of different ones.

All runs but the two of the vault have `CHECK_DEADLOCK FALSE`: bounded calls,
changes, time and crashes are used up in the end. The vault's check for
deadlock, and there is none: something may always happen there. A migration's run
plans only while each note's home has room among its suffixes (`HasRoom`), which
`MaxSuffix = 1` leaves: an occupied path has one suffix for each note, and nobody
else writes there.

### Fairness

* `SessionCapture`: time passes; the service manager restarts the daemon, which
  polls and kicks a drain when it starts; the synchronous steps of a drain go
  on. Strong fairness of `HarvestCompletes`, `WritesReceipt`, `ClaimFills` and
  `ClaimUnqueues`: failures are not for ever (partial harvests resume from their
  ledger).
* `AuthoredWrite`: a call that can step does; a dead owner is found out once the
  cached verdict has expired (strong fairness of `LooksDead`); the timer fires.
  Nothing is assumed of the process that dies.
* `Harvest`: the job runs every night and its steps go on; time passes; for a
  *healthy* transcript some attempt at reading it and at each of its chunks
  succeeds. Nothing is assumed of the others.
* `VaultIndex`: the job of every five minutes (`README.md:249`) starts a
  reindex, and a job's steps go on; an embedding does not fail for ever (strong
  fairness of `Embeds`); a request's unlink follows its delete. Nothing is
  assumed of purges, of people, or of runs on single files.
* `Lifecycle`: a process that runs takes its next step; a tool call ends, by its
  own timeout at the latest; with a daemon that stays up a redial, a replayed
  handshake and the attachment that follows succeed at some time (strong
  fairness, for a connection may close under each attempt). Nothing is assumed
  of signals, crashes, new daemons, clients, or replays that fail.
* `Reconciliation`: the daily job (`src/jobs.js:14`) starts, and its run goes
  on: the call of the model has a deadline. Nothing is assumed of runs by hand.
* `Hooks` and the five maintenance modules state no fairness: what they promise
  is safety, and a hook may be killed at any time.

## Findings

* `capture_fresher_row`: the comment "A newer hook may already have queued
  fresher state while this item was working. Keep that row"
  (`src/session-capture.js:466`) does not hold between `existsSync` and
  `atomicJson`. The session is still captured, but later.
* `vault_grace`: `detached_at <= before` (`src/db.js:1882`, 1902, 1934) compares
  strings of two formats. Within one day the blank of the one sorts before the
  `T` of the other, so all that was detached on the day of the limit is eligible
  and may be purged up to a day early, against "tombstones only after an exact
  confirmed grace-period apply" (`tests/vault-detachment.test.js:39`).

What else the models say of the code, where no run is kept for it:

* Captures: with a row that cannot be written and a second daemon at once a
  capture can be lost (`src/session-capture.js:461`); the two theorems about
  `AcceptedNotLost` say that either alone loses none.
* Harvest: `isInFlight` is asked at selection only (`src/harvest.js:635`), so a
  session that is resumed before its turn is read while in flight, against the
  test "leaves a session that is still being written for the next run"
  (`tests/harvest.test.js:656`): `SweepsReadQuietSessions` does not hold.
* Vault index: the comment at `src/vault/indexer.js:250` says that the last look
  at the disk closes the recreation window; between `statSync` and
  `detachVaultFile` it is still open. It heals: the next run finds the row
  missing and attaches the same document again (`EventuallySynced`).
* Daemon: "so no process owns this file" (`src/daemon.js:162`) holds at the probe
  and not at the unlink: of two daemons that claim one stale socket, one may
  remove the file the other listens on (`PathsAreOwned` does not hold). Neither
  leaves half a start behind (`NoHalfStart`).
* Hooks: "the worst case of each is one extra warning"
  (`src/cli/trigger-hook.js:94`) holds of one pair of hooks. The marker is
  written whole, so one overtaken hook may undo several marks, and
  `OneExtraPerRace` does not hold. `WarningsBounded` is what does: at most a whole
  cap more for each hook that finds the marker changed or unreadable, proved for
  any number of hooks.
* Facts: `consolidate` with an instant (`observedAt`) drops the second value of a
  contested batch as a stale observation, although the comment above it says
  "add both, retire nothing" (`src/extract.js:730`); `invalidateFact` reads the
  greatest `valid_from` and updates in two statements, so that a fact may end
  before it starts; `mergeEntity` resolves its keys before its transaction
  (`src/facts.js:105`), so that two merges may leave an alias of an alias, against
  "chains never form" (`src/facts.js:28`). A value that was merged away so is not
  found by the writers, who resolve the name they are shown once more
  (`src/extract.js:606`, `src/facts.js:224`): `kb_fact_add` then refuses
  (`retire_failed`), and `consolidate` writes its value beside it. `LedgerSound`
  excepts such values.
* Follow-through: a read in the second of its hint, but stamped before a warning's
  milliseconds, is missed; an event at the right edge has up to a second less
  than the window; a harvest's decision within the window counts as an immediate
  answer; a hint all of whose documents are purged becomes a decline.
* Promotions: a line of a dry run, or of a note from before session ids could be
  trusted, has no error and so keeps later runs from the note. A test wants that
  (`tests/promotions.test.js:583`), and `LoggedMeansRaised` excepts them
  (`deferred`). When the file could not be raised, "the next real `kb vault reindex`
  ... reverts the DB tier back to inferred and this doc is a fresh candidate again
  next run" (`src/cli/promotions.js:191`) does not hold: the file is as it was, so a
  reindex skips it (`src/vault/indexer.js:295`), the index keeps `observed`, and the
  note is no candidate until something else in its file changes.
* Outcomes: an outcome `corrected` outlives the supersession that was taken back. A
  line without a timestamp counts as after any reading
  (`src/retrieval-outcomes.js:220`), as a comment there says of reduced fixtures; but
  all lines of a Cursor transcript are such
  (`tests/fixtures/cursor-transcript.jsonl`), so there a use that came long before
  the note was read earns it an outcome.
* Identity repair: an undo compares values only, so a stale undo of one run can
  take back the equal change of another, and a run stays `applied` though a link
  of its was cut and then repaired by another run.
* Migration: what the user writes after a run has planned may be overwritten, for
  the execution asks again who owns a file and not what it says (`EditsKept`
  excepts it as `late`). A title, type, date or project that he gave an imported
  note is taken from the source again, and tags he gave a copy that is removed go
  with it (`src/migrate-legacy.js:426`, 471): neither is looked at. Of several
  copies, the first one's front matter and tags are carried over (:624). The other
  way round, `hasEnrichment` compares with what the source says now (:467), so that
  a summary or tier that changed in the source is taken for the user's: it is not
  imported, and if the note also moved or became a duplicate, that is a conflict
  for ever though nobody touched the file (:608). So is a changed text of a note
  that was imported before migrations noted what they import (:458). A text that
  begins with front matter loses it when the note is updated (:440), and is then a
  conflict (:458) or cannot be the note that others collapse into (:735).
  `ImportsAll` excepts these notes (`excused`).

## Proofs

All proofs hold for any sets of processes and any bounds, from the named
assumptions on the constants alone: those say what the code fixes (types, the
order of the deadlines, that `None` is no value of anything), and TLC evaluates
them in every run. Three theorems have a hypothesis besides:
`CapturesSurviveOverlap` that no daemon dies in a drain and every row can be
written (`MaxCrashes = 0`), `CapturesSurviveCrashes` and `LeasesAreRespected`
that there is one daemon (`Alone`); together they are what holds of these
properties (see above).

* **`SessionCapture_proofs`.** `TypeInvariant`. `HonestReceipts`: `ReceiptHonest`
  is not inductive, for a drain is about to write what it read long ago;
  `AboutToReceipt` adds that at that stage what it will write is covered, and
  coverage never shrinks. Nothing about leases is needed: whoever overlaps whom,
  a receipt is honest. `CapturesSurviveOverlap` by `Observed` (no row has seen
  more of a transcript than there is, so the row a recovery restores never
  outbids a hook's) and `Kept`: an accepted capture is covered, dropped, in the
  queue, or in the memory of a drain that has it in hand. `CapturesSurviveCrashes`
  and `LeasesAreRespected` by `Backing`: with one daemon there is a readable
  lease for whatever has left the queue, so that its death loses nothing, and
  what recovery has read as expired stays so until it is removed.
* **`AuthoredWrite_proofs`.** `TypeInvariant`; `MutualExclusion` and `NoLeakedLock`
  by `LockInv`: the lock's value is whichever call is in the critical section; a
  call about to take the row over has seen the token of a dead process, which no
  later call writes again; a release that is owed concerns a call that has left;
  no call of a dead process moves. `AtomicWrites`, that every step maps to a step
  of `AtomicNotes` or a stutter, by `AtomicInv`: a note that has not strayed
  says in the database what its file says, unless the call in the critical
  section has just written it, so what a routine call found when it asked is
  still so when its file is created. `NoDuplicates` by `SeesClearBeside`, the
  same for corrections with a full verdict, which see past the note they replace.
* **`Harvest_proofs`.** `TypeInvariant`; `HonestWatermarks` by `RunSound`: a run
  never knows of more text than there is, has read at least what it knew of, and
  knows the facts pass to be whole unless it is short of something; ledger and
  transcripts only grow (`Growing`), so this is stable under whatever the other
  runs do.
* **`VaultIndex_proofs`.** `TypeInvariant`, `IdentityInvariant` and
  `VectorInvariant` by `StoreInv`, which is inductive as it stands but for what a
  job has in hand (`Shape`): every step is a detachment, an upsert, a stored
  vector or a purged batch, or leaves the store alone (`NextStore`), and whose
  document an upsert writes is tracked by no third path (`AssignsFree`), by what
  the transaction itself looks at; nothing the job read before is needed.
  `IdentityIsStable` follows from the same cases. `PurgesAreShown` by `Covers`:
  what a purge still finds expired its preview has shown, since whatever is
  detached later is a day too young (`LaterDay`; this is where a grace of at
  least a day is needed). `PrunesAreBounded` by `Checked`: past the check, what is
  missing stays within the limit, and what is pruned is among it.
* **`Lifecycle_proofs`.** `LifecycleInv` has a part for each theorem besides the
  types. `NothingHalfStarted` by `SocketsInv`: a socket file's maker listens on it
  or was killed. `EveryRequestAccounted` by `SessionOK`, about one session as a
  value: a request is in one place of the connection at most, has no answer as
  long as it is pending or travels, waits in `pending` if the client still wants
  it, and nothing but the handshake travels before the handshake is done.
  `RestartsSmooth` by `MarksInv` and `WaitsInv`: the marker that promises a
  restart is among the files and not among what a daemon that has bound its main
  socket may remove (`Outlives`), so every look of a waiting shim extends its
  deadline to what was promised.
* **`Hooks_proofs`.** `CallsInvariant` and `TypeInvariant`: what a hook has in
  hand at each stage (`CallOK`); `PoliciesAlwaysDeny` is in it, for a decision is
  made on the input alone when a policy covers it. `SnapshotsStay` by `Kept`: a
  hook that removes a snapshot has printed one of that number, and numbers are not
  used twice. `CheckpointsKeepTheirCap` by four parts: a claim belongs to one hook
  at a time (`Exclusive`), a slot to a claim (`Slotted`), a reminder given or
  about to be given to a slot (`Reminded`), a claim without a slot to a hook at
  work, killed, or that could not remove it (`NothingUsedUp`); that there are no
  more reminders than slots follows by counting. `WarningsKeepTheirCap` by
  `Marked`: the warnings a session was given and those on their way are at most a
  cap for each overtaken hook (one that found the marker changed or unreadable)
  and besides what its marker tells. A hook that was not overtaken adds a note to
  a marker that had fewer than the cap, so both sides grow by one; one that was
  overtaken may leave a marker of a single note, and what that loses is less than
  the cap which it is itself allowed. The marker alone does not bound the
  warnings, since a hook that has marked and not yet printed may still die: hence
  the warnings on their way (`Giving`).
* **`Reconciliation_proofs`** (of `Facts` and `Reconciliation`, under every writer
  at once). `LedgerInvariant`: rows have distinct ids up to the last
  (`RowsOK`); of live rows none repeats another and a ticket has one, values that
  are themselves aliases apart (`Sound`, `Stray`): those alone a writer may fail to
  reach, since an entity's shown name resolves to itself if it is no alias. A merge
  keeps this because it keeps one of each statement and the
  latest of a ticket's (by the existence of a least and of a greatest day).
  `ReviewsCoverTheLedger` rests on `Known`: pairs of a fact and its value, once
  true, stay so but for a rename, and callers, reviews and runs only have
  such pairs in hand. `AcknowledgedIsLogged` by `RunOK`: a run that is about to
  acknowledge has written its line. `NotesAreCompared` and `MergesLoseNothing`
  are action properties from the same invariant.
* **`Maintenance_proofs`.** Identity repair: `RepairTypeInvariant`;
  `RepairsProven` because each planned action carries evidence that it is right
  (`Sound`) and a batch is made only if its evidence holds at that moment;
  `RunsAreNotMixed` by `MixInv`: what an apply has no more to do is in the ledger
  (`Applying`), what an undo has still to do is all of the ledger that is not
  undone (`Undoing`), and the status excludes the one while the other;
  `UndosSpareOthers` by `TouchInv`: what others have written is cut or has a later
  time, and is never what a repair wrote. Follow-through: `VerdictsAreFinal`, from
  `FollowTypeInvariant` (no row is of the future): what is logged from now on is
  stamped after a mature event's window. Promotions: `LoggedNotesAreRaised` by
  `RaisedFirst`: a run that is about to write a clean line has raised the note
  where no indexing takes it back, its file if it has one (`Stands`), unless the
  user has set it since; an index that has seen less than the file does not
  matter. Outcomes: `OutcomesEarned` by `OutcomesBacked`: every outcome has the
  reading that earned it (for a line with a time, one that came before it, by
  `RowsTimed`), which stays its first proof however the transcript grows
  (`ProofsStay`); a reading has one proof (`OneProof`), so there are no more
  outcomes than readings. Migration: `MigrationsKeepEdits` by `MigrationInv`, of
  which `JobOK` is what matters: an operation that a run has left takes no file
  for its own but what its note had when the run planned, or what was changed
  late; what of the former is removed held nothing of the user's (`Pristine`), and
  what is overwritten keeps text, entries and tags (`Absorbs`); a step of another
  operation, which has another note, never makes it so. That a plan is made of
  such operations (`PlanInOrder`) is shown one note at a time (`PlannedStep`): the
  vault as the plan leaves it differs from the real one in files of earlier notes
  only, so what a note owns in the plan it owns in fact (`SameFiles`). The
  equation of the recursive function (`PlanSteps`) and the induction over its
  positions (`Upwards`) are proved from the well-foundedness of the subsets of a
  finite set. `MigrationsImportAll` and `MigrationsSettle` compare the vault with
  what the whole plan makes of it, and rest on two notions. A vault is `Finished`
  if some of the notes have the one up-to-date file each (`Imported`) and of every
  other note something in its file is taken for the user's (`Disputed`) or an
  earlier one of these notes says the same (`Doubled`). And an operation list
  `LeadsTo` a vault if carrying it out gives that vault. Planning a note puts it
  among the finished ones (`NotePlaced`) and disturbs none before it
  (`StaysPlaced`), so a plan leads to a finished vault (`PlanFinishes`); each step
  of the execution keeps what is left of the run leading to that same vault
  (`LeadsInv`), as long as nothing is edited meanwhile, and at the end nothing is
  left. That a finished vault gives an empty plan (`NothingToDo`) is shown note by
  note again (`Idles`): the plan made so far has changed nothing, so it is in the
  same vault that each note finds itself done, if its text has no front matter of
  its own. That a note which is not `excused` is not among the disputed ones is
  `CalmInv`: nothing of its files is taken for the user's, nor will be of what a
  run is about to write for it.

### What is only model-checked

* The liveness properties `EventuallyCaptured`, `EveryCallEnds`, `EventuallyRead`,
  `EventuallySynced`, `EveryItemGetsATurn` and `ClientsAreServed`: liveness under
  fairness and `ENABLED` are out of the prover's reach.

Every invariant and every action property of the passing runs is stated by a
theorem, `AcceptedNotLost` and `LeaseRespected` under the conditions given above.

No module of the project declares a `RECURSIVE` operator: recursion is a recursive
function (`PlanAfter`).

## Not modelled

* Note replacement and private files (`src/atomic-note-write.js`,
  `src/private-file.js`): one function each over a lock directory. The questions
  they raise, a stale lock and two contenders, are those of the write lock in
  `AuthoredWrite`, and no modelled component calls them.
* Ranking, context packets, state notes, the weekly synthesis: pure computation
  and prompts; what they write goes through `writeNote`.
* The HTTP server, its authentication and the web interface, setup, the command
  line, child processes: plumbing over operations that are modelled; outcomes of
  processes are choices in the models.
* Schema migrations and write fences of `src/db.js`.

`PROJECT.json` says for each component what of it is left out.

## Plan

The models, runs and proofs above are what was planned, but for one composition:
`AtomicNotes` as the promise that a harvest relies on, so that notes written twice
by an interrupted chunk are covered by one theorem.
