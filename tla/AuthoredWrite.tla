---------------------------- MODULE AuthoredWrite ----------------------------
(***************************************************************************)
(* Authored writes (src/write-note.js, and the retirement that follows a   *)
(* supersede in src/tools.js).  Calls of writeNote in several processes    *)
(* take one lock, a row of the shared database whose value names the       *)
(* owner's process; a row whose process is gone may be taken over.  Under  *)
(* the lock a call asks whether the corpus already holds the note, creates *)
(* its file and indexes it.  People who edit the vault, and `kb vault      *)
(* reindex`, take no lock.                                                 *)
(*                                                                         *)
(* A call's token is a fresh UUID, so the lock's value is the call itself; *)
(* a process that restarts has another start time and is another process.  *)
(***************************************************************************)
EXTENDS FiniteSets, Integers

CONSTANTS
  Writers,     \* calls of writeNote
  Seeds,       \* notes no call writes: there from the start, or made by hand
  Procs,       \* processes, by pid and start time
  ProcOf,      \* the process each call runs in
  Reindexers,  \* runs of `kb vault reindex`
  None,        \* no owner, no note
  Topics,      \* what a note can say
  Topic,       \* what each call has to say
  Similar,     \* the pairs of topics that score as duplicates
  Targets,     \* what a call may supersede; None is a routine write
  MaxEdits     \* bound: how often somebody edits the vault by hand

Notes == Writers \cup Seeds

ASSUME ConstantsAssumption ==
  /\ ProcOf \in [Writers -> Procs]
  /\ Topic \in [Writers -> Topics]
  /\ Similar \subseteq Topics \X Topics
  /\ Targets \subseteq Notes \cup {None}
  /\ MaxEdits \in Nat
  /\ None \notin Notes \cup Topics

VARIABLES
  lock,     \* meta[WRITE_LOCK_KEY]: the call that owns the authored-write lock
  alive,    \* which processes run
  pc,       \* where each call is
  seen,     \* the owner a call read when it found the lock taken
  target,   \* excludeId: the note the call supersedes
  landed,   \* the note whose file the call wrote
  copy,     \* the content a call read back to index it
  owed,     \* calls whose failed release is retried by a timer
  file,     \* what each note's vault file says
  doc,      \* what each note's documents row says
  embedded, \* documents with an embedding of what they say
  retired,  \* documents with superseded_at
  reindex,  \* what each reindex is doing
  edits,    \* edits by hand so far, up to MaxEdits
  blind,    \* history: corrections written without a full verdict
  strayed   \* history: notes whose file and document came apart, see Astray

calls == <<pc, seen, target, landed, copy, blind>>
corpus == <<file, doc, embedded, retired>>
vars == <<lock, alive, owed, calls, corpus, reindex, edits, strayed>>

Critical == {"check", "similar", "create", "index", "commit", "embed", "release"}
Outside == {"new", "try", "look", "steal", "wait", "retire", "done", "gone"}
Idle == [at |-> "idle", on |-> None, copy |-> None]

TypeOK ==
  /\ lock \in Writers \cup {None}
  /\ alive \in [Procs -> BOOLEAN]
  /\ pc \in [Writers -> Critical \cup Outside]
  /\ seen \in [Writers -> Writers \cup {None}]
  /\ target \in [Writers -> Notes \cup {None}]
  /\ landed \in [Writers -> Notes \cup {None}]
  /\ copy \in [Writers -> Topics \cup {None}]
  /\ owed \subseteq Writers
  /\ file \in [Notes -> Topics \cup {None}]
  /\ doc \in [Notes -> Topics \cup {None}]
  /\ embedded \subseteq Notes
  /\ retired \subseteq Notes
  /\ reindex \in [Reindexers -> [at : {"idle", "commit", "embed"}, on : Notes \cup {None},
                                 copy : Topics \cup {None}]]
  /\ edits \in 0..MaxEdits
  /\ blind \subseteq Writers
  /\ strayed \subseteq Notes

(* A vault whose notes are indexed.                                        *)
Init ==
  /\ lock = None
  /\ alive = [p \in Procs |-> TRUE]
  /\ pc = [w \in Writers |-> "new"]
  /\ seen = [w \in Writers |-> None]
  /\ target \in [Writers -> Targets]
  /\ landed = [w \in Writers |-> None]
  /\ copy = [w \in Writers |-> None]
  /\ owed = {}
  /\ file \in {f \in [Notes -> Topics \cup {None}] : \A w \in Writers : f[w] = None}
  /\ doc = file
  /\ embedded = {n \in Notes : file[n] # None}
  /\ retired = {}
  /\ reindex = [r \in Reindexers |-> Idle]
  /\ edits = 0
  /\ blind = {}
  /\ strayed = {}

-----------------------------------------------------------------------------
(* The lock.                                                               *)

Goes(w, to) == pc' = [pc EXCEPT ![w] = to]

(* kb_write refuses a target that is not there.                            *)
Begins(w) ==
  /\ pc[w] = "new"
  /\ alive[ProcOf[w]]
  /\ target[w] # None => doc[target[w]] # None
  /\ Goes(w, "try")
  /\ UNCHANGED <<lock, alive, owed, seen, target, landed, copy, blind, corpus, reindex, edits>>

(* Mutant: INSERT OR REPLACE.                                              *)
InsertsOrReplaces(w) ==
  /\ pc[w] = "try"
  /\ lock' = w
  /\ Goes(w, "check")
  /\ UNCHANGED <<alive, owed, seen, target, landed, copy, blind, corpus, reindex, edits>>

(* INSERT OR IGNORE, then a look at who is there.                          *)
Inserts(w) ==
  /\ pc[w] = "try"
  /\ lock' = IF lock = None THEN w ELSE lock
  /\ Goes(w, IF lock = None THEN "check" ELSE "look")
  /\ UNCHANGED <<alive, owed, seen, target, landed, copy, blind, corpus, reindex, edits>>

(* A dead owner may pass for alive for as long as the cached verdict or a  *)
(* reused pid lasts; a live one never passes for dead.                     *)
LooksBusy(w) ==
  /\ pc[w] = "look"
  /\ Goes(w, "wait")
  /\ UNCHANGED <<lock, alive, owed, seen, target, landed, copy, blind, corpus, reindex, edits>>

(* Mutants: the owner's process is not looked at; a dead owner's row stays. *)
LooksDeadUnchecked(w) ==
  /\ pc[w] = "look"
  /\ lock # None
  /\ seen' = [seen EXCEPT ![w] = lock]
  /\ Goes(w, "steal")
  /\ UNCHANGED <<lock, alive, owed, target, landed, copy, blind, corpus, reindex, edits>>
LooksDeadNever(w) == FALSE

LooksDead(w) ==
  /\ pc[w] = "look"
  /\ lock # None
  /\ ~alive[ProcOf[lock]]
  /\ seen' = [seen EXCEPT ![w] = lock]
  /\ Goes(w, "steal")
  /\ UNCHANGED <<lock, alive, owed, target, landed, copy, blind, corpus, reindex, edits>>

(* One transaction: delete the row that was seen, insert one's own.        *)
Steals(w) ==
  /\ pc[w] = "steal"
  /\ lock' = IF lock = seen[w] THEN w ELSE lock
  /\ Goes(w, IF lock = seen[w] THEN "check" ELSE "wait")
  /\ seen' = [seen EXCEPT ![w] = None]
  /\ UNCHANGED <<alive, owed, target, landed, copy, blind, corpus, reindex, edits>>

TriesAgain(w) ==
  /\ pc[w] = "wait"
  /\ Goes(w, "try")
  /\ UNCHANGED <<lock, alive, owed, seen, target, landed, copy, blind, corpus, reindex, edits>>

(* The 30 s are over, or a statement failed: the call throws with no lock. *)
GivesUp(w) ==
  /\ pc[w] \in {"try", "look", "steal", "wait"}
  /\ Goes(w, "done")
  /\ UNCHANGED <<lock, alive, owed, seen, target, landed, copy, blind, corpus, reindex, edits>>

(* DELETE where the value is the call's own.  A failure leaves the release *)
(* to a timer, and the call goes on all the same.  kb_write then retires   *)
(* the note a successful write supersedes, unless it landed on that note;  *)
(* a failed statement between the index and the release throws past that.  *)
Leaves(w) ==
  \/ Goes(w, "done")
  \/ landed[w] # None /\ target[w] \notin {None, landed[w]} /\ Goes(w, "retire")

Releases(w) ==
  /\ pc[w] = "release"
  /\ lock' = IF lock = w THEN None ELSE lock
  /\ Leaves(w)
  /\ UNCHANGED <<alive, owed, seen, target, landed, copy, blind, corpus, reindex, edits>>

(* Mutant: a release that fails is not tried again.                        *)
ReleaseFailsForgotten(w) ==
  /\ pc[w] = "release"
  /\ Leaves(w)
  /\ UNCHANGED <<lock, alive, owed, seen, target, landed, copy, blind, corpus, reindex, edits>>
ReleaseFails(w) ==
  /\ pc[w] = "release"
  /\ owed' = owed \cup {w}
  /\ Leaves(w)
  /\ UNCHANGED <<lock, alive, seen, target, landed, copy, blind, corpus, reindex, edits>>

TimerReleases(w) ==
  /\ w \in owed
  /\ lock' = IF lock = w THEN None ELSE lock
  /\ owed' = owed \ {w}
  /\ UNCHANGED <<alive, calls, corpus, reindex, edits>>

(* The process is gone with its calls and its timers; its row stays.       *)
Crashes(p) ==
  /\ alive[p]
  /\ alive' = [alive EXCEPT ![p] = FALSE]
  /\ pc' = [w \in Writers |-> IF ProcOf[w] = p /\ pc[w] # "done" THEN "gone" ELSE pc[w]]
  /\ owed' = {w \in owed : ProcOf[w] # p}
  /\ seen' = [w \in Writers |-> IF ProcOf[w] = p THEN None ELSE seen[w]]
  /\ copy' = [w \in Writers |-> IF ProcOf[w] = p THEN None ELSE copy[w]]
  /\ UNCHANGED <<lock, target, landed, blind, corpus, reindex, edits>>

-----------------------------------------------------------------------------
(* Under the lock: writeNoteUnlocked.                                      *)

Live == {n \in Notes : doc[n] # None} \ retired
Gap == Live \ embedded
Duplicates(w) == {n \in (Live \cap embedded) \ {target[w]} : <<doc[n], Topic[w]>> \in Similar}

(* Mutant: a corpus with gaps is as good as any.                           *)
ChecksCorpusGapless(w) ==
  /\ pc[w] = "check"
  /\ Goes(w, "similar")
  /\ UNCHANGED <<lock, alive, owed, seen, target, landed, copy, blind, corpus, reindex, edits>>

(* canProceedWithoutDedupe or hasUnembeddedLiveDocuments.                  *)
ChecksCorpus(w) ==
  /\ pc[w] = "check"
  /\ Goes(w, IF target[w] = None /\ Gap # {} THEN "release" ELSE "similar")
  /\ UNCHANGED <<lock, alive, owed, seen, target, landed, copy, blind, corpus, reindex, edits>>

FindsSimilar(w) ==
  /\ pc[w] = "similar"
  /\ Goes(w, IF Duplicates(w) = {} THEN "create" ELSE "release")
  /\ blind' = IF target[w] # None /\ Gap # {} THEN blind \cup {w} ELSE blind
  /\ UNCHANGED <<lock, alive, owed, seen, target, landed, copy, corpus, reindex, edits>>

(* No embedding model: a routine write is refused, a correction goes on.   *)
SimilarUnavailable(w) ==
  /\ pc[w] = "similar"
  /\ Goes(w, IF target[w] = None THEN "release" ELSE "create")
  /\ blind' = IF target[w] = None THEN blind ELSE blind \cup {w}
  /\ UNCHANGED <<lock, alive, owed, seen, target, landed, copy, corpus, reindex, edits>>

(* The suffix loop ends at a path nobody has, or at the target's own.      *)
CreatesFile(w, n) ==
  /\ pc[w] = "create"
  /\ n \in {w, target[w]}
  /\ file' = [file EXCEPT ![n] = Topic[w]]
  /\ landed' = [landed EXCEPT ![w] = n]
  /\ Goes(w, "index")
  /\ UNCHANGED <<lock, alive, owed, seen, target, copy, blind, doc, embedded, retired, reindex, edits>>

CreateFails(w) ==
  /\ pc[w] = "create"
  /\ Goes(w, "release")
  /\ UNCHANGED <<lock, alive, owed, seen, target, landed, copy, blind, corpus, reindex, edits>>

-----------------------------------------------------------------------------
(* Indexing a note: a writer does it under the lock (indexVaultFile), a    *)
(* reindex with no lock at all (indexVault).  Both read the file, commit   *)
(* what they read and embed what they committed, in three steps.           *)

(* upsertVaultDocument's transaction: a document whose content changes     *)
(* loses its embedding.                                                    *)
Commits(n, content) ==
  /\ doc' = [doc EXCEPT ![n] = content]
  /\ embedded' = IF doc[n] = content THEN embedded ELSE embedded \ {n}
  /\ UNCHANGED <<file, retired>>

(* storeEmbedding stores the vector if the content is still what it was    *)
(* computed from.                                                          *)
Embeds(n, content) ==
  /\ embedded' = IF doc[n] = content THEN embedded \cup {n} ELSE embedded
  /\ UNCHANGED <<file, doc, retired>>

WriterReads(w) ==
  LET n == landed[w]
  IN /\ pc[w] = "index"
     /\ \/ /\ doc[n] = file[n]
           /\ Goes(w, "release")
           /\ UNCHANGED copy
        \/ /\ doc[n] # file[n]
           /\ Goes(w, "commit")
           /\ copy' = [copy EXCEPT ![w] = file[n]]
     /\ UNCHANGED <<lock, alive, owed, seen, target, landed, blind, corpus, reindex, edits>>

WriterCommits(w) ==
  /\ pc[w] = "commit"
  /\ Commits(landed[w], copy[w])
  /\ Goes(w, "embed")
  /\ UNCHANGED <<lock, alive, owed, seen, target, landed, copy, blind, reindex, edits>>

WriterEmbeds(w) ==
  /\ pc[w] = "embed"
  /\ Embeds(landed[w], copy[w])
  /\ copy' = [copy EXCEPT ![w] = None]
  /\ Goes(w, "release")
  /\ UNCHANGED <<lock, alive, owed, seen, target, landed, blind, reindex, edits>>

(* Reported in the status of a write that succeeds.                        *)
IndexFails(w) ==
  /\ pc[w] \in {"index", "commit", "embed"}
  /\ copy' = [copy EXCEPT ![w] = None]
  /\ Goes(w, "release")
  /\ UNCHANGED <<lock, alive, owed, seen, target, landed, blind, corpus, reindex, edits>>

(* An unchanged note is only looked at for an embedding it lacks.          *)
ReindexReads(r, n) ==
  /\ reindex[r].at = "idle"
  /\ file[n] # None
  /\ doc[n] # file[n] \/ n \notin embedded
  /\ reindex' = [reindex EXCEPT ![r] =
       [at |-> IF doc[n] = file[n] THEN "embed" ELSE "commit", on |-> n, copy |-> file[n]]]
  /\ UNCHANGED <<lock, alive, owed, calls, corpus, edits>>

ReindexCommits(r) ==
  /\ reindex[r].at = "commit"
  /\ Commits(reindex[r].on, reindex[r].copy)
  /\ reindex' = [reindex EXCEPT ![r].at = "embed"]
  /\ UNCHANGED <<lock, alive, owed, calls, edits>>

ReindexEmbeds(r) ==
  /\ reindex[r].at = "embed"
  /\ Embeds(reindex[r].on, reindex[r].copy)
  /\ reindex' = [reindex EXCEPT ![r] = Idle]
  /\ UNCHANGED <<lock, alive, owed, calls, edits>>

ReindexFails(r) ==
  /\ reindex[r].at # "idle"
  /\ reindex' = [reindex EXCEPT ![r] = Idle]
  /\ UNCHANGED <<lock, alive, owed, calls, corpus, edits>>

-----------------------------------------------------------------------------
(* After the lock, and beside it.                                          *)

Retires(w) ==
  /\ pc[w] = "retire"
  /\ retired' = retired \cup {target[w]}
  /\ Goes(w, "done")
  /\ UNCHANGED <<lock, alive, owed, seen, target, landed, copy, blind, file, doc, embedded,
                 reindex, edits>>

(* Only a warning in the answer: the note is written.                      *)
RetireFails(w) ==
  /\ pc[w] = "retire"
  /\ Goes(w, "done")
  /\ UNCHANGED <<lock, alive, owed, seen, target, landed, copy, blind, corpus, reindex, edits>>

(* Somebody writes a note by hand, or edits one.                           *)
Edits(n, topic) ==
  /\ edits < MaxEdits
  /\ n \in Seeds \/ file[n] # None
  /\ file' = [file EXCEPT ![n] = topic]
  /\ edits' = edits + 1
  /\ UNCHANGED <<lock, alive, owed, calls, doc, embedded, retired, reindex>>

WriterStep(w) ==
  \/ Begins(w) \/ Inserts(w) \/ LooksBusy(w) \/ LooksDead(w) \/ Steals(w) \/ TriesAgain(w)
  \/ GivesUp(w) \/ ChecksCorpus(w) \/ FindsSimilar(w) \/ SimilarUnavailable(w)
  \/ \E n \in Notes : CreatesFile(w, n)
  \/ CreateFails(w) \/ WriterReads(w) \/ WriterCommits(w) \/ WriterEmbeds(w) \/ IndexFails(w)
  \/ Releases(w) \/ ReleaseFails(w) \/ TimerReleases(w) \/ Retires(w) \/ RetireFails(w)

Step ==
  \/ \E w \in Writers : WriterStep(w)
  \/ \E p \in Procs : Crashes(p)
  \/ \E r \in Reindexers :
       \/ \E n \in Notes : ReindexReads(r, n)
       \/ ReindexCommits(r) \/ ReindexEmbeds(r) \/ ReindexFails(r)

(* Notes whose file is not what their document says, though no writer in   *)
(* the critical section has just written it.                               *)
Astray ==
  {n \in Notes : /\ file[n] # doc[n]
                 /\ ~ \E w \in Writers : pc[w] \in Critical /\ landed[w] = n}

Next ==
  \/ Step /\ strayed' = strayed \cup Astray'
  \/ \E n \in Notes, topic \in Topics : Edits(n, topic) /\ strayed' = strayed \cup {n}

Spec == Init /\ [][Next]_vars

(* The event loop runs what it is asked to; a dead owner is found out when *)
(* the cached verdict is a second old; SQLite answers in the end.          *)
Fairness ==
  /\ \A w \in Writers :
       /\ WF_vars(Begins(w) /\ strayed' = strayed \cup Astray')
       /\ WF_vars(WriterStep(w) /\ pc[w] # "new" /\ strayed' = strayed \cup Astray')
       /\ SF_vars(LooksDead(w) /\ strayed' = strayed \cup Astray')
       /\ WF_vars(TimerReleases(w) /\ strayed' = strayed \cup Astray')

FairSpec == Spec /\ Fairness

-----------------------------------------------------------------------------
(* Properties.                                                             *)

(* At most one call is between acquiring and releasing the lock, whoever   *)
(* crashed and however stale a dead owner's row is.                        *)
OneWriter ==
  \A v, w \in Writers : pc[v] \in Critical /\ pc[w] \in Critical => v = w

(* The lock row never outlives its use in a running process: its owner is  *)
(* in the critical section, or a timer still owes its release.  Otherwise  *)
(* every later write of every process would time out until a restart.      *)
LockAccounted ==
  lock # None => \/ pc[lock] \in Critical
                 \/ lock \in owed
                 \/ ~alive[ProcOf[lock]]

(* Dedup holds across processes: a note a call wrote is not the duplicate  *)
(* of another live note, as long as neither has strayed, unless one was    *)
(* written to correct the other or was a correction written while the      *)
(* corpus had no full verdict.  What is compared is cut shorter when it is *)
(* stored than when it is asked about, so `alike` is what is similar       *)
(* whichever of the two was there first.                                   *)
Written(n) == \E w \in Writers : landed[w] = n
Blind(n) == \E w \in blind : landed[w] = n
Correction(n, m) == \E w \in Writers : landed[w] = n /\ target[w] = m
Alike(x, y) == <<x, y>> \in Similar /\ <<y, x>> \in Similar
Kept == {n \in Notes \ (retired \cup strayed) : file[n] # None /\ ~Blind(n)}
DuplicateFree ==
  \A n, m \in Kept :
    n # m /\ (Written(n) \/ Written(m)) /\ ~Correction(n, m) /\ ~Correction(m, n)
      => ~Alike(file[n], file[m])

(* Every call is as if it checked the corpus and created its note at once. *)
Verdict == [w \in Writers |-> IF landed[w] # None THEN "written"
                              ELSE IF pc[w] \in {"done", "gone"} THEN "ended" ELSE "pending"]
Atomic == INSTANCE AtomicNotes WITH verdict <- Verdict
WritesAreAtomic == Atomic!Spec

(* A call that asked for the lock gets an answer: a holder that dies, or   *)
(* whose release fails, does not block the calls behind it forever.        *)
EveryCallEnds == \A w \in Writers : []<>(pc[w] \in {"new", "done", "gone"})
=============================================================================
