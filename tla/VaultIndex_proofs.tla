-------------------------- MODULE VaultIndex_proofs --------------------------
(***************************************************************************)
(* Theorems of VaultIndex, for any vault, any number of processes that     *)
(* index and purge, any limits and any bounds.                             *)
(***************************************************************************)
EXTENDS VaultIndex, FiniteSetTheorems, TLAPS

-----------------------------------------------------------------------------
(* Type correctness.  A job that is about to index a file has its content, *)
(* and one that is about to embed a document has the document.             *)
Shape(j) ==
  /\ j.pc \in {"look", "commit"} => j.content # None
  /\ j.pc = "embed" => j.id # None

TypeInv == TypeOK /\ \A p \in Indexers : Shape(job[p])

GoodJob(j) == j \in Job /\ Shape(j)

LEMMA IdleGood == GoodJob(Idle)
  BY DEF GoodJob, Idle, Job, Shape

LEMMA PruningGood ==
  ASSUME NEW j \in Job
  PROVE  GoodJob(Pruning(j))
  <1>1. Unseen(j) \in SUBSET Paths
    BY DEF Unseen, Gone, Existing
  <1>2. GoodJob([j EXCEPT !.pc = "stat", !.todo = Unseen(j)])
    BY <1>1 DEF GoodJob, Job, Shape
  <1> QED
    BY <1>2, IdleGood DEF Pruning

LEMMA PastFileGood ==
  ASSUME NEW j \in Job, NEW x \in Paths
  PROVE  GoodJob(PastFile(j, x))
  <1> DEFINE past == [j EXCEPT !.pc = "read", !.todo = @ \ {x}, !.cached[x] = None,
                               !.renameFrom[x] = None, !.content = None,
                               !.was = None, !.from = None, !.id = None]
  <1>1. GoodJob(past)
    BY DEF GoodJob, Job, Shape
  <1>2. GoodJob(Pruning(past))
    BY <1>1, PruningGood DEF GoodJob
  <1> QED
    BY <1>1, <1>2, IdleGood DEF PastFile

LEMMA FileFailsGood ==
  ASSUME NEW j \in Job, NEW x \in Paths
  PROVE  GoodJob(FileFails(j, x))
  <1> DEFINE kept == [j EXCEPT !.kept = @ \cup ({j.renameFrom[x]} \ {None})]
  <1>1. kept \in Job
    BY DEF Job
  <1> QED
    BY <1>1, PastFileGood DEF FileFails

LEMMA PastPruneGood ==
  ASSUME NEW j \in Job, NEW x \in Paths
  PROVE  GoodJob(PastPrune(j, x))
  <1>1. GoodJob([j EXCEPT !.pc = "stat", !.todo = @ \ {x}])
    BY DEF GoodJob, Job, Shape
  <1> QED
    BY <1>1, IdleGood DEF PastPrune

LEMMA PlannedGood ==
  ASSUME TypeOK, NEW j \in Job
  PROVE  GoodJob([j EXCEPT !.pc = "read", !.todo = j.seen, !.cached = Cached(j),
                           !.renameFrom = RenameFrom(j)])
  <1>1. Cached(j) \in [Paths -> Contents \cup {None}]
    BY DEF Cached, TypeOK
  <1>2. RenameFrom(j) \in [Paths -> Paths \cup {None}]
    <2>1. ASSUME NEW x \in Paths,
                 \E old \in Gone(j) : {y \in Paths : Claims(j, y, old)} = {x}
          PROVE  (CHOOSE old \in Gone(j) : Claims(j, x, old)) \in Paths
      <3>1. \E old \in Gone(j) : Claims(j, x, old)
        BY <2>1
      <3>2. Gone(j) \subseteq Paths
        BY DEF Gone, Existing
      <3> QED
        BY <3>1, <3>2
    <2> QED
      BY <2>1 DEF RenameFrom
  <1> QED
    BY <1>1, <1>2 DEF GoodJob, Job, Shape

LEMMA InitType == Init => TypeInv
  <1> SUFFICES ASSUME Init PROVE TypeInv
    OBVIOUS
  <1>1. \A p \in Indexers : GoodJob(job[p])
    BY IdleGood DEF Init
  <1>2. job \in [Indexers -> Job]
    BY IdleGood DEF Init, GoodJob
  <1>3. purge \in [Purgers -> Purge]
    BY DEF Init, NoPurge, Purge
  <1> QED
    BY <1>1, <1>2, <1>3, ConstantsAssumption DEF Init, TypeInv, TypeOK, GoodJob

(* A step of a job, to a state of the right shape.                         *)
LEMMA JobStep ==
  ASSUME TypeInv, NEW p \in Indexers, NEW j, GoodJob(j), Becomes(p, j)
  PROVE  job' \in [Indexers -> Job] /\ \A q \in Indexers : Shape(job'[q])
  BY DEF TypeInv, TypeOK, GoodJob, Becomes

LEMMA DetachType ==
  ASSUME TypeOK, OneIdentity, NEW x \in Paths, row[x] # None, Detach(x)
  PROVE  /\ row' \in [Paths -> Row \cup {None}] /\ doc' \in [Docs -> Document \cup {None}]
         /\ minted' = minted /\ tomb' = tomb
  <1>1. row[x] \in Row /\ clock \in Nat
    BY ConstantsAssumption DEF TypeOK
  <1>2. [row[x] EXCEPT !.missing = TRUE] \in Row /\ row[x].doc \in Docs
    BY <1>1 DEF Row
  <1>3. doc[row[x].doc] \in Document
    BY <1>2 DEF TypeOK, OneIdentity
  <1>4. Detached(row[x].doc) \in Document
    BY <1>1, <1>3 DEF Detached, Document
  <1> QED
    BY <1>2, <1>4 DEF TypeOK, Detach

(* The step of a job that only changes that job.                           *)
LEMMA QuietJobType ==
  ASSUME TypeInv, NEW p \in Indexers, NEW j, GoodJob(j), Becomes(p, j),
         UNCHANGED <<disk, store, purge, doomed, clock>>, events' \in 0..MaxEvents
  PROVE  TypeInv'
  BY JobStep DEF TypeInv, TypeOK, store

LEMMA EventsType ==
  ASSUME TypeOK
  PROVE  /\ Happens => events' \in 0..MaxEvents
         /\ UNCHANGED events => events' \in 0..MaxEvents
  BY ConstantsAssumption DEF TypeOK, Happens

LEMMA StartsType ==
  ASSUME TypeInv, NEW p \in Indexers, Starts(p)
  PROVE  TypeInv'
  <1>1. CASE StartsFull(p)
    <2>1. GoodJob([Idle EXCEPT !.pc = "walk", !.full = TRUE, !.snap = row, !.todo = Paths])
      BY IdleGood DEF GoodJob, Job, Shape, TypeInv, TypeOK, Idle
    <2> QED
      BY <1>1, <2>1, QuietJobType, EventsType DEF StartsFull, TypeInv
  <1>2. ASSUME NEW x \in Paths, StartsFile(p, x) PROVE TypeInv'
    <2>1. GoodJob([Idle EXCEPT !.pc = "read", !.snap[x] = row[x], !.seen = {x}, !.todo = {x}])
      BY IdleGood DEF GoodJob, Job, Shape, TypeInv, TypeOK, Idle
    <2> QED
      BY <1>2, <2>1, QuietJobType, EventsType DEF StartsFile, TypeInv
  <1> QED
    BY <1>1, <1>2 DEF Starts

LEMMA WalksType ==
  ASSUME TypeInv, NEW p \in Indexers, NEW x \in Paths, Walks(p, x)
  PROVE  TypeInv'
  <1>1. job[p] \in Job
    BY DEF TypeInv, TypeOK
  <1>2. GoodJob([job[p] EXCEPT !.todo = @ \ {x},
                               !.seen = IF disk[x] # None THEN @ \cup {x} ELSE @])
    BY <1>1 DEF Walks, GoodJob, Job, Shape
  <1> QED
    BY <1>2, QuietJobType, EventsType DEF Walks, TypeInv

LEMMA PlansType ==
  ASSUME TypeInv, NEW p \in Indexers, NEW confirm \in Confirmations, Plans(p, confirm)
  PROVE  TypeInv'
  <1> DEFINE c == IF RefusesPrune(job[p].snap, job[p].seen, None) THEN confirm ELSE None
             j == [job[p] EXCEPT !.confirm = c]
             planned == [j EXCEPT !.pc = "read", !.todo = j.seen, !.cached = Cached(j),
                                  !.renameFrom = RenameFrom(j)]
             next == IF RefusesPrune(j.snap, j.seen, confirm) THEN Idle
                     ELSE IF j.seen = {} THEN Pruning(j) ELSE planned
  <1>1. c \in Nat \cup {None}
    <2>1. Cardinality(Paths) \in Nat
      BY FS_CardinalityType, ConstantsAssumption
    <2> QED
      BY <2>1 DEF Confirmations
  <1>2. j \in Job
    <2>1. job[p] \in Job
      BY DEF TypeInv, TypeOK
    <2> HIDE DEF c
    <2> QED
      BY <1>1, <2>1 DEF Job
  <1>3. GoodJob(planned)
    BY <1>2, PlannedGood DEF TypeInv
  <1>4. GoodJob(next)
    BY <1>2, <1>3, PruningGood, IdleGood
  <1>5. Becomes(p, next)
    BY DEF Plans
  <1> HIDE DEF next
  <1> QED
    BY <1>4, <1>5, QuietJobType, EventsType DEF Plans, TypeInv

LEMMA ReadsType ==
  ASSUME TypeInv, OneIdentity, NEW p \in Indexers, NEW x \in Paths, Reads(p, x)
  PROVE  TypeInv'
  <1> DEFINE j == job[p]
             c == IF j.cached[x] # None THEN j.cached[x] ELSE disk[x]
             d == row[x].doc
             looking == [j EXCEPT !.pc = "look", !.content = c, !.cached[x] = None]
             embedding == [j EXCEPT !.pc = "embed", !.id = d, !.content = doc[d].content]
             unembedded == j.full /\ row[x] # None /\ doc[d].vec = None
             next == IF c = None THEN FileFails(j, x)
                     ELSE IF ~Unchanged(j, x, c) THEN looking
                     ELSE IF unembedded THEN embedding
                     ELSE PastFile(j, x)
  <1>1. j \in Job
    BY DEF TypeInv, TypeOK
  <1>2. c \in Contents \cup {None}
    BY <1>1 DEF TypeInv, TypeOK, Job
  <1>3. c # None => GoodJob(looking)
    <2> HIDE DEF c, j
    <2> QED
      BY <1>1, <1>2 DEF GoodJob, Job, Shape
  <1>4. unembedded => GoodJob(embedding)
    <2>1. unembedded => d \in Docs /\ d # None /\ doc[d].content \in Contents
      <3>1. row[x] # None => row[x] \in Row /\ doc[d] # None
        BY DEF TypeInv, TypeOK, OneIdentity
      <3>2. row[x] # None => d \in Docs /\ d # None
        BY <3>1, ConstantsAssumption, NoneAssumption DEF Row, Docs
      <3>3. row[x] # None => doc[d] \in Document
        BY <3>1, <3>2 DEF TypeInv, TypeOK
      <3> QED
        BY <3>2, <3>3 DEF Document
    <2> HIDE DEF d, j
    <2>2. unembedded => embedding \in Job
      BY <1>1, <2>1 DEF Job
    <2>3. unembedded => Shape(embedding)
      BY <1>1, <2>1 DEF Job, Shape
    <2> QED
      BY <2>2, <2>3 DEF GoodJob
  <1>5. GoodJob(next)
    <2> HIDE DEF looking, embedding, unembedded, c, j
    <2> QED
      BY <1>1, <1>3, <1>4, FileFailsGood, PastFileGood
  <1>6. Becomes(p, next)
    BY DEF Reads
  <1> HIDE DEF next
  <1> QED
    BY <1>5, <1>6, QuietJobType, EventsType DEF Reads, TypeInv

LEMMA LooksType ==
  ASSUME TypeInv, NEW p \in Indexers, NEW x \in Paths, Looks(p, x)
  PROVE  TypeInv'
  <1> DEFINE j == job[p]
             from == ComesFrom(j, x, j.content)
             next == [j EXCEPT !.pc = "commit", !.was = row[x], !.from = from]
  <1>1. j \in Job /\ j.content # None
    BY DEF TypeInv, TypeOK, Looks, Shape
  <1>2. from \in Paths \cup {None} /\ row[x] \in Row \cup {None}
    BY <1>1 DEF ComesFrom, Job, TypeInv, TypeOK
  <1>3. GoodJob(next)
    <2> HIDE DEF from, j
    <2> QED
      BY <1>1, <1>2 DEF GoodJob, Job, Shape
  <1>4. GoodJob(FileFails(j, x))
    BY <1>1, FileFailsGood
  <1> HIDE DEF next
  <1>5. Becomes(p, FileFails(j, x)) \/ Becomes(p, next)
    BY DEF Looks, next
  <1> HIDE DEF j
  <1> QED
    BY <1>3, <1>4, <1>5, QuietJobType, EventsType DEF Looks, TypeInv

(* What a commit of job j does: nothing but report, or it writes the note  *)
(* to document d, which is the path's, a new one, or that of the path the  *)
(* file came from.                                                         *)
Reports(p, x, j) == UNCHANGED store /\ Becomes(p, FileFails(j, x))

Assigns(x, c, d, from) ==
  /\ d \in Docs /\ c \in Contents
  /\ Upsert(x, c, d, from)
  /\ minted' = IF d > minted THEN d ELSE minted
  /\ \/ row[x] # None /\ d = row[x].doc /\ from = None
     \/ row[x] = None /\ d = minted + 1 /\ from = None
     \/ /\ row[x] = None /\ from \in Paths /\ row[from] # None
        /\ row[from].content = c /\ d = row[from].doc

Writes(p, x, j, d) ==
  /\ Becomes(p, [j EXCEPT !.pc = "embed", !.id = d, !.was = None, !.from = None])
  /\ \E from : Assigns(x, j.content, d, from)

LEMMA CommitCases ==
  ASSUME TypeInv, NEW p \in Indexers, NEW x \in Paths, Commits(p, x)
  PROVE  Reports(p, x, job[p]) \/ Writes(p, x, job[p], Owner(job[p], x))
  <1> DEFINE j == job[p]
             d == Owner(j, x)
  <1>1. j \in Job /\ j.content \in Contents /\ j.from \in Paths \cup {None}
    BY DEF TypeInv, TypeOK, Job, Shape, Commits
  <1>2. CASE Lost(j, x)
    BY <1>2 DEF Commits, Reports
  <1>3. CASE ~Lost(j, x)
    <2>1. /\ d \in Docs
          /\ Upsert(x, j.content, d, IF Moves(j, x) THEN j.from ELSE None)
          /\ minted' = IF d > minted THEN d ELSE minted
          /\ Becomes(p, [j EXCEPT !.pc = "embed", !.id = d, !.was = None, !.from = None])
      BY <1>3 DEF Commits
    <2>2. \/ row[x] # None /\ ~Moves(j, x) /\ d = row[x].doc
          \/ row[x] = None /\ ~Moves(j, x) /\ d = minted + 1
          \/ row[x] = None /\ Moves(j, x) /\ d = row[j.from].doc
      BY DEF Moves, Owner
    <2>3. Moves(j, x) => /\ j.from \in Paths /\ row[j.from] # None
                         /\ row[j.from].content = j.content
      BY <1>1 DEF Moves
    <2> HIDE DEF d, j
    <2>4. Assigns(x, j.content, d, IF Moves(j, x) THEN j.from ELSE None)
      BY <1>1, <2>1, <2>2, <2>3 DEF Assigns
    <2>5. Writes(p, x, j, d)
      BY <2>1, <2>4 DEF Writes
    <2> QED
      BY <2>5 DEF d, j
  <1> QED
    BY <1>2, <1>3

LEMMA UpsertType ==
  ASSUME TypeOK, NEW x \in Paths, NEW c \in Contents, NEW d \in Docs, NEW from,
         Upsert(x, c, d, from)
  PROVE  row' \in [Paths -> Row \cup {None}] /\ doc' \in [Docs -> Document \cup {None}]
  <1>1. [doc |-> d, content |-> c, missing |-> FALSE] \in Row
    BY DEF Row
  <1>2. row' \in [Paths -> Row \cup {None}]
    BY <1>1 DEF TypeOK, Upsert
  <1> DEFINE vec == IF doc[d] # None /\ doc[d].content = c THEN doc[d].vec ELSE None
  <1>3. vec \in Contents \cup {None}
    BY DEF TypeOK, Document
  <1>4. [content |-> c, at |-> None, vec |-> vec] \in Document
    <2> HIDE DEF vec
    <2> QED
      BY <1>3 DEF Document
  <1>5. doc' = [doc EXCEPT ![d] = [content |-> c, at |-> None, vec |-> vec]]
    BY DEF Upsert
  <1> HIDE DEF vec
  <1> QED
    BY <1>2, <1>4, <1>5 DEF TypeOK

LEMMA CommitsType ==
  ASSUME TypeInv, NEW p \in Indexers, NEW x \in Paths, Commits(p, x)
  PROVE  TypeInv'
  <1> DEFINE j == job[p]
             d == Owner(j, x)
             next == [j EXCEPT !.pc = "embed", !.id = d, !.was = None, !.from = None]
  <1>1. j \in Job
    BY DEF TypeInv, TypeOK
  <1>2. UNCHANGED <<disk, purge, doomed, clock, events>>
    BY DEF Commits
  <1>3. CASE Reports(p, x, j)
    <2>1. GoodJob(FileFails(j, x))
      BY <1>1, FileFailsGood
    <2> HIDE DEF j
    <2> QED
      BY <1>2, <1>3, <2>1, QuietJobType, EventsType DEF TypeInv, Reports
  <1>4. ASSUME d \in Docs, j.content \in Contents, Becomes(p, next),
               NEW from, Upsert(x, j.content, d, from),
               minted' \in {minted, d}
        PROVE  TypeInv'
    <2>1. GoodJob(next)
      <3>1. d # None
        BY <1>4, NoneAssumption, ConstantsAssumption DEF Docs
      <3> HIDE DEF d, j
      <3> QED
        BY <1>1, <1>4, <3>1 DEF GoodJob, Job, Shape
    <2>2. row' \in [Paths -> Row \cup {None}] /\ doc' \in [Docs -> Document \cup {None}]
      <3> HIDE DEF d, j
      <3> QED
        BY <1>4, UpsertType DEF TypeInv
    <2>3. job' \in [Indexers -> Job] /\ \A q \in Indexers : Shape(job'[q])
      <3> HIDE DEF next
      <3> QED
        BY <1>4, <2>1, JobStep
    <2>4. minted' \in 0..MaxDocs
      BY <1>4, ConstantsAssumption DEF TypeInv, TypeOK, Docs
    <2>5. tomb' = tomb
      BY <1>4 DEF Upsert
    <2> QED
      BY <1>2, <2>2, <2>3, <2>4, <2>5 DEF TypeInv, TypeOK
  <1>5. CASE Writes(p, x, j, d)
    <2>1. PICK from : Assigns(x, j.content, d, from)
      BY <1>5 DEF Writes
    <2>2. /\ d \in Docs /\ j.content \in Contents /\ Upsert(x, j.content, d, from)
          /\ minted' \in {minted, d}
      BY <2>1 DEF Assigns
    <2> QED
      BY <1>4, <1>5, <2>2 DEF Writes
  <1> QED
    BY <1>3, <1>5, CommitCases

LEMMA EmbedsType ==
  ASSUME TypeInv, NEW p \in Indexers, NEW x \in Paths, Embeds(p, x)
  PROVE  TypeInv'
  <1> DEFINE j == job[p]
  <1>1. j \in Job /\ j.id \in Docs
    BY DEF TypeInv, TypeOK, Job, Shape, Embeds
  <1>2. GoodJob(PastFile(j, x))
    BY <1>1, PastFileGood
  <1>3. job' \in [Indexers -> Job] /\ \A q \in Indexers : Shape(job'[q])
    BY <1>2, JobStep DEF Embeds
  <1>4. doc' \in [Docs -> Document \cup {None}]
    <2>1. CASE Embeddable(j.id, j.content)
      <3>1. doc[j.id] \in Document /\ j.content \in Contents
        BY <1>1, <2>1 DEF TypeInv, TypeOK, Embeddable, Document
      <3>2. [doc[j.id] EXCEPT !.vec = j.content] \in Document
        BY <3>1 DEF Document
      <3>3. doc' = [doc EXCEPT ![j.id] = [doc[j.id] EXCEPT !.vec = j.content]]
        BY <1>1, <2>1 DEF Embeds, TypeInv, TypeOK
      <3> QED
        BY <3>2, <3>3 DEF TypeInv, TypeOK
    <2>2. CASE ~Embeddable(j.id, j.content)
      BY <2>2 DEF Embeds, TypeInv, TypeOK
    <2> QED
      BY <2>1, <2>2
  <1> QED
    BY <1>3, <1>4 DEF Embeds, TypeInv, TypeOK

LEMMA EmbedFailsType ==
  ASSUME TypeInv, NEW p \in Indexers, NEW x \in Paths, EmbedFails(p, x)
  PROVE  TypeInv'
  <1>1. GoodJob(PastFile(job[p], x))
    BY PastFileGood DEF TypeInv, TypeOK
  <1> QED
    BY <1>1, QuietJobType, EventsType DEF EmbedFails, TypeInv

LEMMA StatsType ==
  ASSUME TypeInv, NEW p \in Indexers, NEW x \in Paths, Stats(p, x)
  PROVE  TypeInv'
  <1> DEFINE j == job[p]
             next == [j EXCEPT !.pc = "detach"]
  <1>1. j \in Job
    BY DEF TypeInv, TypeOK
  <1>2. GoodJob(next) /\ GoodJob(PastPrune(j, x))
    <2> HIDE DEF j
    <2> QED
      BY <1>1, PastPruneGood DEF GoodJob, Job, Shape
  <1>3. Becomes(p, next) \/ Becomes(p, PastPrune(j, x))
    BY DEF Stats
  <1> HIDE DEF next, j
  <1> QED
    BY <1>2, <1>3, QuietJobType, EventsType DEF Stats, TypeInv

LEMMA DetachesType ==
  ASSUME TypeInv, OneIdentity, NEW p \in Indexers, NEW x \in Paths, Detaches(p, x)
  PROVE  TypeInv'
  <1>1. GoodJob(PastPrune(job[p], x))
    BY PastPruneGood DEF TypeInv, TypeOK
  <1>2. job' \in [Indexers -> Job] /\ \A q \in Indexers : Shape(job'[q])
    BY <1>1, JobStep DEF Detaches
  <1>3. CASE row[x] = None
    BY <1>2, <1>3 DEF Detaches, store, TypeInv, TypeOK
  <1>4. CASE row[x] # None
    BY <1>2, <1>4, DetachType DEF Detaches, TypeInv, TypeOK
  <1> QED
    BY <1>3, <1>4

LEMMA HappeningType ==
  ASSUME TypeInv, OneIdentity, Happening
  PROVE  TypeInv'
  <1>1. ASSUME NEW x \in Paths, Removes(x) \/ Unlinks(x) PROVE TypeInv'
    BY <1>1, EventsType DEF Removes, Unlinks, store, TypeInv, TypeOK
  <1>2. ASSUME NEW x \in Paths, Deletes(x) PROVE TypeInv'
    BY <1>2, EventsType, DetachType DEF Deletes, TypeInv, TypeOK
  <1>3. ASSUME NEW x \in Paths, NEW c \in Contents, Edits(x, c) PROVE TypeInv'
    BY <1>3, EventsType DEF Edits, store, TypeInv, TypeOK
  <1>4. ASSUME NEW x \in Paths, NEW y \in Paths, Renames(x, y) PROVE TypeInv'
    BY <1>4, EventsType DEF Renames, store, TypeInv, TypeOK
  <1>5. ASSUME NEW p \in Indexers, Dies(p) PROVE TypeInv'
    BY <1>5, EventsType, IdleGood, QuietJobType DEF Dies, Becomes, TypeInv
  <1>6. CASE Ticks
    BY <1>6, ConstantsAssumption DEF Ticks, store, TypeInv, TypeOK
  <1> QED
    BY <1>1, <1>2, <1>3, <1>4, <1>5, <1>6 DEF Happening

LEMMA EligibleType ==
  ASSUME TypeOK, NEW before
  PROVE  \A d \in Eligible(before) : d \in Docs /\ doc[d] # None /\ doc[d].at \in Nat
  BY DEF Eligible, Expired, TypeOK, Document

LEMMA PurgesType ==
  ASSUME TypeInv, NEW u \in Purgers, Purges(u)
  PROVE  TypeInv'
  <1> DEFINE g == purge[u]
  <1>1. g \in Purge /\ NoPurge \in Purge
    BY DEF TypeInv, TypeOK, NoPurge, Purge
  <1>2. ASSUME NEW h \in Purge, purge' = [purge EXCEPT ![u] = h],
               UNCHANGED <<disk, store, job, doomed, clock, events>>
        PROVE  TypeInv'
    BY <1>2 DEF TypeInv, TypeOK, store
  <1>3. CASE Previews(u)
    <2> DEFINE before == clock - Grace
               shown == [d \in Docs |-> IF d \in Eligible(before) THEN doc[d].at ELSE None]
               h == [NoPurge EXCEPT !.pc = "previewed", !.before = before, !.shown = shown]
    <2>1. before \in Nat
      BY <1>3, ConstantsAssumption DEF Previews, TypeInv, TypeOK
    <2>2. shown \in [Docs -> Nat \cup {None}]
      BY EligibleType DEF TypeInv
    <2>3. purge' = [purge EXCEPT ![u] = h]
      BY <1>3 DEF Previews
    <2> HIDE DEF before, shown
    <2>4. h \in Purge
      BY <1>1, <2>1, <2>2 DEF Purge
    <2> HIDE DEF h
    <2> QED
      BY <1>2, <1>3, <2>3, <2>4 DEF Previews
  <1>4. CASE Applies(u)
    <2>1. ASSUME NEW top \in Docs PROVE [g EXCEPT !.pc = "list", !.max = top] \in Purge
      <3>1. top \in Nat
        BY ConstantsAssumption DEF Docs
      <3> HIDE DEF g
      <3> QED
        BY <1>1, <3>1 DEF Purge
    <2>2. Last(Shown(g)) \subseteq Docs
      BY DEF Last, Shown
    <2> QED
      BY <1>1, <1>2, <1>4, <2>1, <2>2 DEF Applies
  <1>5. CASE Lists(u)
    <2> DEFINE ids == NextBatch(g)
    <2>1. ids \in SUBSET Docs /\ Last(ids) \subseteq Docs
      BY DEF NextBatch, Eligible, Last
    <2>2. ASSUME NEW top \in Docs
          PROVE  [g EXCEPT !.pc = "batch", !.ids = ids, !.after = top] \in Purge
      <3>1. top \in Nat
        BY ConstantsAssumption DEF Docs
      <3> HIDE DEF g, ids
      <3> QED
        BY <1>1, <2>1, <3>1 DEF Purge
    <2> QED
      BY <1>1, <1>2, <1>5, <2>1, <2>2 DEF Lists
  <1>6. CASE PurgesBatch(u)
    <2>1. tomb' \in SUBSET Tombstone
      <3>1. \A d \in Purged(g) : d \in Docs /\ doc[d].at \in Nat /\ clock \in Nat
        BY EligibleType, ConstantsAssumption DEF Purged, TypeInv, TypeOK
      <3>2. \A d \in Purged(g) : [doc |-> d, at |-> doc[d].at, deleted |-> clock] \in Tombstone
        BY <3>1 DEF Tombstone
      <3>3. tomb' = tomb \cup {[doc |-> d, at |-> doc[d].at, deleted |-> clock] : d \in Purged(g)}
        BY <1>6 DEF PurgesBatch
      <3> QED
        BY <3>2, <3>3 DEF TypeInv, TypeOK
    <2>2. row' \in [Paths -> Row \cup {None}] /\ doc' \in [Docs -> Document \cup {None}]
      BY <1>6 DEF PurgesBatch, RowsWithout, TypeInv, TypeOK
    <2>3. purge' \in [Purgers -> Purge]
      <3>1. [g EXCEPT !.pc = "list", !.ids = {}] \in Purge
        <4> HIDE DEF g
        <4> QED
          BY <1>1 DEF Purge
      <3> QED
        BY <1>1, <1>6, <3>1 DEF PurgesBatch, TypeInv, TypeOK
    <2> QED
      BY <1>6, <2>1, <2>2, <2>3 DEF PurgesBatch, TypeInv, TypeOK
  <1> QED
    BY <1>3, <1>4, <1>5, <1>6 DEF Purges

LEMMA RunsType ==
  ASSUME TypeInv, OneIdentity, NEW p \in Indexers, Runs(p)
  PROVE  TypeInv'
  <1>1. ASSUME NEW confirm \in Confirmations, Plans(p, confirm) PROVE TypeInv'
    BY <1>1, PlansType
  <1>2. ASSUME NEW x \in First(job[p].todo),
               \/ Walks(p, x) \/ Reads(p, x) \/ Looks(p, x) \/ Commits(p, x)
               \/ Embeds(p, x) \/ EmbedFails(p, x) \/ Stats(p, x) \/ Detaches(p, x)
        PROVE  TypeInv'
    <2>1. x \in Paths
      BY DEF First, TypeInv, TypeOK, Job
    <2> QED
      BY <1>2, <2>1, WalksType, ReadsType, LooksType, CommitsType, EmbedsType, EmbedFailsType,
         StatsType, DetachesType
  <1> QED
    BY <1>1, <1>2 DEF Runs

LEMMA NextType ==
  ASSUME TypeInv, OneIdentity, [Next]_vars
  PROVE  TypeInv'
  <1>1. CASE UNCHANGED vars
    BY <1>1 DEF vars, TypeInv, TypeOK
  <1> QED
    BY <1>1, HappeningType, StartsType, RunsType, PurgesType DEF Next

-----------------------------------------------------------------------------
(* Identity: what each transaction does to rows and documents.             *)
StoreInv == TypeInv /\ OneIdentity /\ VectorsCurrent

LEMMA DetachStore ==
  ASSUME StoreInv, NEW x \in Paths, row[x] # None, Detach(x)
  PROVE  OneIdentity' /\ VectorsCurrent'
  <1> DEFINE d == row[x].doc
  <1>1. /\ row[x] \in Row /\ d \in Docs /\ doc[d] \in Document /\ doc[d] # None
        /\ clock \in Nat
    BY ConstantsAssumption DEF StoreInv, TypeInv, TypeOK, OneIdentity, Row
  <1>2. /\ Detached(d) # None /\ Detached(d).at # None /\ Detached(d).vec = None
        /\ Detached(d).content = doc[d].content
    <2>1. Detached(d) \in Document
      BY <1>1 DEF Detached, Document
    <2> QED
      BY <1>1, <2>1, NoneAssumption DEF Detached, Document
  <1>3. /\ [row[x] EXCEPT !.missing = TRUE] \in Row
        /\ [row[x] EXCEPT !.missing = TRUE].doc = d
        /\ [row[x] EXCEPT !.missing = TRUE].content = row[x].content
        /\ [row[x] EXCEPT !.missing = TRUE].missing = TRUE
    BY <1>1 DEF Row
  <1>4. /\ \A y \in Paths : row'[y] = IF y = x THEN [row[x] EXCEPT !.missing = TRUE] ELSE row[y]
        /\ \A e \in Docs : doc'[e] = IF e = d THEN Detached(d) ELSE doc[e]
        /\ minted' = minted /\ tomb' = tomb
    BY <1>1 DEF Detach, StoreInv, TypeInv, TypeOK
  <1>5. \A y \in Paths : row[y] # None => row[y].doc \in Docs
    BY DEF StoreInv, TypeInv, TypeOK, Row
  <1>6. [row[x] EXCEPT !.missing = TRUE] # None
    BY <1>3, NoneAssumption
  <1> HIDE DEF d
  <1>7. /\ \A y \in Paths : row'[y] # None <=> row[y] # None
        /\ \A y \in Paths : row'[y] # None => row'[y].doc = row[y].doc
        /\ \A y \in Paths : row'[y] # None => row'[y].content = row[y].content
        /\ \A e \in Docs : doc'[e] # None <=> doc[e] # None
        /\ \A e \in Docs : doc'[e] # None => doc'[e].content = doc[e].content
    BY <1>1, <1>2, <1>3, <1>4, <1>6 DEF d
  <1>8. \A y \in Paths : row'[y] # None => (row'[y].missing <=> doc'[row'[y].doc].at # None)
    <2> SUFFICES ASSUME NEW y \in Paths, row'[y] # None
                 PROVE  row'[y].missing <=> doc'[row'[y].doc].at # None
      OBVIOUS
    <2>1. CASE y = x
      BY <1>1, <1>2, <1>3, <1>4, <1>7, <2>1
    <2>2. CASE y # x
      <3>1. row'[y] = row[y] /\ row[y].doc \in Docs /\ row[y].doc # d
        BY <1>4, <1>5, <1>7, <2>2 DEF StoreInv, OneIdentity, d
      <3> QED
        BY <1>4, <3>1 DEF StoreInv, OneIdentity
    <2> QED
      BY <2>1, <2>2
  <1>9. OneIdentity'
    BY <1>4, <1>5, <1>7, <1>8 DEF StoreInv, OneIdentity, TypeInv, TypeOK, Tombstone
  <1>10. VectorsCurrent'
    BY <1>2, <1>4 DEF StoreInv, VectorsCurrent
  <1> QED
    BY <1>9, <1>10

(* Where an upsert writes, no other path tracks the document and the other *)
(* documents keep their paths.                                             *)
LEMMA AssignsFree ==
  ASSUME StoreInv, NEW x \in Paths, NEW c, NEW d, NEW from, Assigns(x, c, d, from)
  PROVE  /\ x # from
         /\ \A y \in Paths : y # x /\ y # from /\ row[y] # None => row[y].doc # d
         /\ \A e \in Docs : e # d /\ doc[e] # None =>
              \E y \in Paths : y # x /\ y # from /\ row[y] # None /\ row[y].doc = e
         /\ \A t \in tomb : t.doc # d
         /\ minted' \in Nat /\ d <= minted' /\ minted <= minted'
  <1>1. /\ \A y \in Paths : row[y] # None => row[y].doc \in Docs /\ doc[row[y].doc] # None
        /\ \A y \in Paths : row[y] # None => row[y].doc <= minted
        /\ \A y, z \in Paths : row[y] # None /\ row[z] # None /\ row[y].doc = row[z].doc => y = z
        /\ \A e \in Docs : doc[e] # None => \E y \in Paths : row[y] # None /\ row[y].doc = e
        /\ \A t \in tomb : doc[t.doc] = None /\ t.doc <= minted
    BY DEF StoreInv, TypeInv, TypeOK, Row, OneIdentity
  <1>2. minted \in Nat /\ d \in Nat /\ minted' = IF d > minted THEN d ELSE minted
    BY ConstantsAssumption DEF StoreInv, TypeInv, TypeOK, Assigns, Docs
  <1>3. x # None
    BY NoneAssumption
  <1>4. \/ row[x] # None /\ d = row[x].doc /\ from = None
        \/ row[x] = None /\ d = minted + 1 /\ from = None
        \/ row[x] = None /\ from \in Paths /\ row[from] # None /\ d = row[from].doc
    BY DEF Assigns
  <1>5. \A t \in tomb : t.doc # d
    BY <1>1, <1>2, <1>4
  <1>6. \A y \in Paths : y # x /\ y # from /\ row[y] # None => row[y].doc # d
    BY <1>1, <1>2, <1>4
  <1>7. \A y \in Paths : y # None
    BY NoneAssumption
  <1>8. \A e \in Docs : e # d /\ doc[e] # None =>
              \E y \in Paths : y # x /\ y # from /\ row[y] # None /\ row[y].doc = e
    BY <1>1, <1>4, <1>7
  <1>9. x # from /\ minted' \in Nat /\ d <= minted' /\ minted <= minted'
    BY <1>2, <1>3, <1>4
  <1> QED
    BY <1>5, <1>6, <1>8, <1>9

LEMMA AssignsStore ==
  ASSUME StoreInv, NEW x \in Paths, NEW c, NEW d, NEW from, Assigns(x, c, d, from)
  PROVE  OneIdentity' /\ VectorsCurrent'
  <1> DEFINE r == [doc |-> d, content |-> c, missing |-> FALSE]
             vec == IF doc[d] # None /\ doc[d].content = c THEN doc[d].vec ELSE None
             n == [content |-> c, at |-> None, vec |-> vec]
  <1>1. d \in Docs /\ c \in Contents /\ tomb' = tomb
    BY DEF Assigns, Upsert
  <1>2. /\ \A y \in Paths : row'[y] = IF y = x THEN r ELSE IF y = from THEN None ELSE row[y]
        /\ \A e \in Docs : doc'[e] = IF e = d THEN n ELSE doc[e]
    BY <1>1 DEF Assigns, Upsert, StoreInv, TypeInv, TypeOK
  <1>3. r \in Row /\ n \in Document
    <2>1. vec \in Contents \cup {None}
      BY <1>1 DEF StoreInv, TypeInv, TypeOK, Document
    <2> HIDE DEF vec
    <2> QED
      BY <1>1, <2>1 DEF Row, Document
  <1>4. r # None /\ n # None
    BY <1>3, NoneAssumption
  <1>5. r.doc = d /\ r.content = c /\ r.missing = FALSE
    OBVIOUS
  <1>6. n.content = c /\ n.at = None /\ (n.vec # None => n.vec = c)
    BY <1>1 DEF StoreInv, VectorsCurrent
  <1> HIDE DEF r, n
  <1>7. \A y, z \in Paths : row'[y] # None /\ row'[z] # None /\ row'[y].doc = row'[z].doc => y = z
    BY <1>2, <1>5, AssignsFree DEF StoreInv, OneIdentity
  <1>8. \A y \in Paths : row'[y] # None =>
          /\ doc'[row'[y].doc] # None
          /\ doc'[row'[y].doc].content = row'[y].content
          /\ row'[y].missing <=> doc'[row'[y].doc].at # None
    <2> SUFFICES ASSUME NEW y \in Paths, row'[y] # None
                 PROVE  /\ doc'[row'[y].doc] # None
                        /\ doc'[row'[y].doc].content = row'[y].content
                        /\ row'[y].missing <=> doc'[row'[y].doc].at # None
      OBVIOUS
    <2>1. CASE y = x
      BY <1>1, <1>2, <1>4, <1>5, <1>6, <2>1
    <2>2. CASE y # x
      <3>1. row'[y] = row[y] /\ row[y].doc # d /\ row[y].doc \in Docs
        BY <1>2, <2>2, AssignsFree DEF StoreInv, TypeInv, TypeOK, Row
      <3> QED
        BY <1>2, <3>1 DEF StoreInv, OneIdentity
    <2> QED
      BY <2>1, <2>2
  <1>9. \A e \in Docs : doc'[e] # None =>
          e <= minted' /\ \E y \in Paths : row'[y] # None /\ row'[y].doc = e
    <2> SUFFICES ASSUME NEW e \in Docs, doc'[e] # None
                 PROVE  e <= minted' /\ \E y \in Paths : row'[y] # None /\ row'[y].doc = e
      OBVIOUS
    <2>1. CASE e = d
      BY <1>2, <1>4, <1>5, <2>1, AssignsFree
    <2>2. CASE e # d
      <3>1. doc[e] # None /\ e <= minted /\ minted \in Nat /\ e \in Nat
        BY <1>2, <2>2, ConstantsAssumption DEF StoreInv, OneIdentity, TypeInv, TypeOK, Docs
      <3>2. PICK y \in Paths : y # x /\ y # from /\ row[y] # None /\ row[y].doc = e
        BY <2>2, <3>1, AssignsFree
      <3> QED
        BY <1>2, <3>1, <3>2, AssignsFree
    <2> QED
      BY <2>1, <2>2
  <1>10. \A t \in tomb' : doc'[t.doc] = None /\ t.doc <= minted'
    <2>1. \A t \in tomb : t.doc \in Docs /\ t.doc \in Nat /\ minted \in Nat
      BY ConstantsAssumption DEF StoreInv, TypeInv, TypeOK, Tombstone, Docs
    <2> QED
      BY <1>1, <1>2, <2>1, AssignsFree DEF StoreInv, OneIdentity
  <1>11. VectorsCurrent'
    BY <1>2, <1>6 DEF StoreInv, VectorsCurrent
  <1> QED
    BY <1>7, <1>8, <1>9, <1>10, <1>11 DEF OneIdentity

LEMMA EmbedsStore ==
  ASSUME StoreInv, NEW d \in Docs, NEW c \in Contents, Embeddable(d, c),
         doc' = [doc EXCEPT ![d].vec = c], UNCHANGED <<row, minted, tomb>>
  PROVE  OneIdentity' /\ VectorsCurrent'
  <1> DEFINE n == [doc[d] EXCEPT !.vec = c]
  <1>1. doc[d] \in Document /\ doc[d].at = None /\ doc[d].content = c
    BY DEF Embeddable, StoreInv, TypeInv, TypeOK
  <1>2. \A e \in Docs : doc'[e] = IF e = d THEN n ELSE doc[e]
    BY DEF StoreInv, TypeInv, TypeOK
  <1>3. n \in Document
    BY <1>1 DEF Document
  <1>4. n.at = None /\ n.content = c /\ n.vec = c
    BY <1>1 DEF Document
  <1>5. n # None
    BY <1>3, NoneAssumption
  <1> HIDE DEF n
  <1>6. /\ \A e \in Docs : doc'[e] # None <=> doc[e] # None
        /\ \A e \in Docs : doc[e] # None => doc'[e].content = doc[e].content
        /\ \A e \in Docs : doc[e] # None => doc'[e].at = doc[e].at
    BY <1>1, <1>2, <1>4, <1>5 DEF Embeddable
  <1>7. /\ \A y \in Paths : row[y] # None => row[y].doc \in Docs
        /\ \A t \in tomb : t.doc \in Docs
    BY DEF StoreInv, TypeInv, TypeOK, Row, Tombstone
  <1>8. OneIdentity'
    BY <1>6, <1>7 DEF StoreInv, OneIdentity
  <1>9. VectorsCurrent'
    BY <1>2, <1>4 DEF StoreInv, VectorsCurrent
  <1> QED
    BY <1>8, <1>9

LEMMA PurgesStore ==
  ASSUME StoreInv, NEW u \in Purgers, PurgesBatch(u)
  PROVE  OneIdentity' /\ VectorsCurrent'
  <1> DEFINE gone == Purged(purge[u])
  <1>1. gone \subseteq Docs /\ \A d \in gone : doc[d] # None
    BY EligibleType DEF Purged, StoreInv, TypeInv
  <1>2. /\ \A y \in Paths : row'[y] = IF row[y] # None /\ row[y].doc \in gone THEN None ELSE row[y]
        /\ \A d \in Docs : doc'[d] = IF d \in gone THEN None ELSE doc[d]
        /\ tomb' = tomb \cup {[doc |-> d, at |-> doc[d].at, deleted |-> clock] : d \in gone}
        /\ minted' = minted
    BY DEF PurgesBatch, RowsWithout
  <1>3. \A y \in Paths : row[y] # None => row[y].doc \in Docs
    BY DEF StoreInv, TypeInv, TypeOK, Row
  <1>4. \A t \in tomb : t.doc \in Docs
    BY DEF StoreInv, TypeInv, TypeOK, Tombstone
  <1> HIDE DEF gone
  <1>5. \A t \in tomb' : t \in tomb \/ t.doc \in gone
    BY <1>2
  <1>6. \A t \in tomb' : doc'[t.doc] = None /\ t.doc <= minted'
    BY <1>1, <1>2, <1>4, <1>5 DEF StoreInv, OneIdentity
  <1>7. \A y \in Paths : row'[y] # None =>
          row'[y] = row[y] /\ row[y].doc \in Docs /\ doc'[row[y].doc] = doc[row[y].doc]
    BY <1>2, <1>3
  <1>8. \A d \in Docs : doc'[d] # None =>
          d <= minted' /\ \E y \in Paths : row'[y] # None /\ row'[y].doc = d
    BY <1>2 DEF StoreInv, OneIdentity
  <1>9. OneIdentity'
    BY <1>6, <1>7, <1>8 DEF StoreInv, OneIdentity
  <1>10. VectorsCurrent'
    BY <1>2 DEF StoreInv, VectorsCurrent
  <1> QED
    BY <1>9, <1>10

-----------------------------------------------------------------------------
(* Every step changes the store in one of four ways, or not at all.        *)
Vectorizes(d, c) ==
  /\ d \in Docs /\ c \in Contents /\ Embeddable(d, c)
  /\ doc' = [doc EXCEPT ![d].vec = c] /\ UNCHANGED <<row, minted, tomb>>

StoreStep ==
  \/ UNCHANGED store
  \/ \E x \in Paths : row[x] # None /\ Detach(x) /\ UNCHANGED <<purge, clock>>
  \/ \E x \in Paths : \E c, d, from : Assigns(x, c, d, from) /\ UNCHANGED <<purge, clock>>
  \/ \E d, c : Vectorizes(d, c) /\ UNCHANGED <<purge, clock>>
  \/ \E u \in Purgers : PurgesBatch(u)

LEMMA RunsStore ==
  ASSUME TypeInv, NEW p \in Indexers, Runs(p)
  PROVE  StoreStep
  <1>1. ASSUME NEW confirm, Plans(p, confirm) PROVE StoreStep
    BY <1>1 DEF Plans, StoreStep
  <1>2. ASSUME NEW x \in Paths, Commits(p, x) PROVE StoreStep
    BY <1>2, CommitCases DEF Reports, Writes, Commits, StoreStep
  <1>3. ASSUME NEW x \in Paths, Embeds(p, x) PROVE StoreStep
    <2>1. job[p].id \in Docs
      BY <1>3 DEF TypeInv, TypeOK, Job, Shape, Embeds
    <2>2. CASE Embeddable(job[p].id, job[p].content)
      <3>1. job[p].content \in Contents
        BY <2>1, <2>2 DEF TypeInv, TypeOK, Document, Embeddable
      <3>2. Vectorizes(job[p].id, job[p].content)
        BY <1>3, <2>1, <2>2, <3>1 DEF Embeds, Vectorizes
      <3> QED
        BY <1>3, <3>2 DEF Embeds, StoreStep
    <2>3. CASE ~Embeddable(job[p].id, job[p].content)
      BY <1>3, <2>3 DEF Embeds, StoreStep, store
    <2> QED
      BY <2>2, <2>3
  <1>4. ASSUME NEW x \in Paths, Detaches(p, x) PROVE StoreStep
    BY <1>4 DEF Detaches, StoreStep
  <1>5. ASSUME NEW x \in Paths,
               Walks(p, x) \/ Reads(p, x) \/ Looks(p, x) \/ EmbedFails(p, x) \/ Stats(p, x)
        PROVE  StoreStep
    BY <1>5 DEF Walks, Reads, Looks, EmbedFails, Stats, StoreStep
  <1>6. First(job[p].todo) \subseteq Paths
    BY DEF First, TypeInv, TypeOK, Job
  <1> QED
    BY <1>1, <1>2, <1>3, <1>4, <1>5, <1>6 DEF Runs

LEMMA NextStore ==
  ASSUME TypeInv, [Next]_vars
  PROVE  StoreStep
  <1>1. CASE UNCHANGED vars
    BY <1>1 DEF vars, store, StoreStep
  <1>2. CASE Happening
    <2>1. ASSUME NEW x \in Paths, Deletes(x) PROVE StoreStep
      BY <2>1 DEF Deletes, StoreStep
    <2>2. ASSUME NEW x \in Paths, Removes(x) \/ Unlinks(x) PROVE StoreStep
      BY <2>2 DEF Removes, Unlinks, StoreStep
    <2>3. ASSUME NEW x, NEW c, Edits(x, c) \/ Renames(x, c) PROVE StoreStep
      BY <2>3 DEF Edits, Renames, StoreStep
    <2>4. ASSUME NEW p, Dies(p) \/ Ticks PROVE StoreStep
      BY <2>4 DEF Dies, Ticks, StoreStep
    <2> QED
      BY <1>2, <2>1, <2>2, <2>3, <2>4 DEF Happening
  <1>3. ASSUME NEW p \in Indexers, Starts(p) PROVE StoreStep
    BY <1>3 DEF Starts, StartsFull, StartsFile, StoreStep
  <1>4. ASSUME NEW u \in Purgers, Purges(u) PROVE StoreStep
    BY <1>4 DEF Purges, Previews, Applies, Lists, StoreStep
  <1> QED
    BY <1>1, <1>2, <1>3, <1>4, RunsStore DEF Next

(* The invariant, and its induction.                                       *)
LEMMA InitStore == Init => StoreInv
  <1> SUFFICES ASSUME Init PROVE StoreInv
    OBVIOUS
  <1>1. OneIdentity /\ VectorsCurrent
    BY DEF Init, OneIdentity, VectorsCurrent
  <1> QED
    BY <1>1, InitType DEF StoreInv

LEMMA NextInv ==
  ASSUME StoreInv, [Next]_vars
  PROVE  StoreInv'
  <1>1. TypeInv'
    BY NextType DEF StoreInv
  <1>2. OneIdentity' /\ VectorsCurrent'
    <2>1. CASE UNCHANGED store
      BY <2>1 DEF store, StoreInv, OneIdentity, VectorsCurrent
    <2>2. CASE \E x \in Paths : row[x] # None /\ Detach(x)
      BY <2>2, DetachStore
    <2>3. CASE \E x \in Paths : \E c, d, from : Assigns(x, c, d, from)
      BY <2>3, AssignsStore
    <2>4. CASE \E d, c : Vectorizes(d, c)
      BY <2>4, EmbedsStore DEF Vectorizes
    <2>5. CASE \E u \in Purgers : PurgesBatch(u)
      BY <2>5, PurgesStore
    <2>6. StoreStep
      BY NextStore DEF StoreInv
    <2> QED
      BY <2>1, <2>2, <2>3, <2>4, <2>5, <2>6 DEF StoreStep
  <1> QED
    BY <1>1, <1>2 DEF StoreInv

LEMMA StoreInvariant == Spec => []StoreInv
  BY InitStore, NextInv, PTL DEF Spec

(* Every reachable state of the vault, the database, the jobs and the      *)
(* purges has its type, in particular the ids that are given out.          *)
THEOREM TypeInvariant == Spec => []TypeOK
  <1>1. StoreInv => TypeOK
    BY DEF StoreInv, TypeInv
  <1> QED
    BY <1>1, StoreInvariant, PTL

(* Whatever several indexers, deletions and purges do between each other's *)
(* transactions, a document is tracked by exactly one path, its row and it *)
(* agree, and an id that was purged does not come back (OneIdentity).      *)
THEOREM IdentityInvariant == Spec => []OneIdentity
  <1>1. StoreInv => OneIdentity
    BY DEF StoreInv
  <1> QED
    BY <1>1, StoreInvariant, PTL

(* A stored vector always embeds what its attached document says: the      *)
(* check of storeEmbedding is enough, however long an embedding takes.     *)
THEOREM VectorInvariant == Spec => []VectorsCurrent
  <1>1. StoreInv => VectorsCurrent
    BY DEF StoreInv
  <1> QED
    BY <1>1, StoreInvariant, PTL

(* The path of a document keeps it while it has a row, and hands it on     *)
(* only with its content (IdentityStays), in every step of any processes.  *)
THEOREM IdentityIsStable == Spec => IdentityStays
  <1> DEFINE Stays(x) ==
        \/ row'[x] # None /\ row'[x].doc = row[x].doc
        \/ /\ row'[x] = None
           /\ \A y \in Paths : row'[y] # None /\ row'[y].doc = row[x].doc =>
                row'[y].content = row[x].content
  <1>1. ASSUME StoreInv, [Next]_vars, NEW x \in Paths, row[x] # None
        PROVE  Stays(x)
    <2>1. CASE UNCHANGED store
      BY <1>1, <2>1 DEF store
    <2>2. ASSUME NEW y \in Paths, row[y] # None, Detach(y) PROVE Stays(x)
      <3>1. row[x] \in Row
        BY <1>1 DEF StoreInv, TypeInv, TypeOK
      <3>2. row'[x] = IF x = y THEN [row[x] EXCEPT !.missing = TRUE] ELSE row[x]
        BY <1>1, <2>2 DEF Detach, StoreInv, TypeInv, TypeOK
      <3>3. [row[x] EXCEPT !.missing = TRUE] \in Row
            /\ [row[x] EXCEPT !.missing = TRUE].doc = row[x].doc
        BY <3>1 DEF Row
      <3> QED
        BY <1>1, <3>2, <3>3, NoneAssumption
    <2>3. ASSUME NEW y \in Paths, NEW c, NEW d, NEW from, Assigns(y, c, d, from)
          PROVE  Stays(x)
      <3> DEFINE r == [doc |-> d, content |-> c, missing |-> FALSE]
      <3>1. \A z \in Paths : row'[z] = IF z = y THEN r ELSE IF z = from THEN None ELSE row[z]
        BY <2>3 DEF Assigns, Upsert
      <3>2. r \in Row /\ r.doc = d /\ r.content = c
        BY <2>3 DEF Assigns, Row
      <3>3. r # None
        BY <3>2, NoneAssumption
      <3> HIDE DEF r
      <3>4. CASE x = y
        <4>1. d = row[x].doc
          BY <1>1, <2>3, <3>4 DEF Assigns
        <4> QED
          BY <3>1, <3>2, <3>3, <3>4, <4>1
      <3>5. CASE x # y /\ x = from
        <4>1. d = row[x].doc /\ c = row[x].content
          BY <1>1, <2>3, <3>5, NoneAssumption DEF Assigns
        <4>2. \A z \in Paths : row'[z] # None /\ row'[z].doc = d => z = y
          BY <1>1, <2>3, <3>1, AssignsFree
        <4> QED
          BY <3>1, <3>2, <3>3, <3>5, <4>1, <4>2
      <3>6. CASE x # y /\ x # from
        BY <1>1, <3>1, <3>6
      <3> QED
        BY <3>4, <3>5, <3>6
    <2>4. ASSUME NEW u \in Purgers, PurgesBatch(u) PROVE Stays(x)
      BY <1>1, <2>4 DEF PurgesBatch, RowsWithout
    <2> QED
      BY <1>1, <2>1, <2>2, <2>3, <2>4, NextStore DEF StoreStep, Vectorizes, StoreInv
  <1>2. StoreInv /\ [Next]_vars =>
          [\A x \in Paths : row[x] # None => Stays(x)]_vars
    BY <1>1
  <1> QED
    BY <1>2, StoreInvariant, PTL DEF Spec, IdentityStays

-----------------------------------------------------------------------------
(* Purges.  What a purge still finds expired, its preview has shown as it  *)
(* is: what is detached later is too young for it.                         *)
Covers(g) ==
  g.pc # "none" =>
    /\ g.before + Grace <= clock
    /\ \A d \in Docs : doc[d] # None /\ Expired(doc[d].at, g.before) => g.shown[d] = doc[d].at

PurgeInv == \A u \in Purgers : Covers(purge[u])

LEMMA LaterDay ==
  ASSUME NEW D \in Nat \ {0}, NEW a \in Nat, NEW b \in Nat, a >= b + D
  PROVE  ~(a \div D <= b \div D)
  <1>1. /\ a \div D \in Int /\ b \div D \in Int
        /\ D * (a \div D) <= a /\ a < D * (a \div D) + D
        /\ D * (b \div D) <= b /\ b < D * (b \div D) + D
    OBVIOUS
  <1> DEFINE q == a \div D
             r == b \div D
  <1> HIDE DEF q, r
  <1>2. SUFFICES ASSUME q <= r PROVE FALSE
    BY DEF q, r
  <1>3. D * q <= D * r
    BY <1>1, <1>2 DEF q, r
  <1> QED
    BY <1>1, <1>3 DEF q, r

(* A step detaches a document now, or leaves when it was detached alone,   *)
(* or attaches it.                                                         *)
LEMMA AtStays ==
  ASSUME StoreInv, [Next]_vars, NEW d \in Docs, doc'[d] # None
  PROVE  \/ doc'[d].at = None
         \/ doc'[d].at = clock
         \/ doc[d] # None /\ doc'[d].at = doc[d].at
  <1>1. CASE UNCHANGED store
    BY <1>1 DEF store
  <1>2. ASSUME NEW x \in Paths, row[x] # None, Detach(x)
        PROVE  \/ doc'[d].at = clock
               \/ doc[d] # None /\ doc'[d].at = doc[d].at
    <2>1. row[x].doc \in Docs /\ doc[row[x].doc] \in Document /\ doc[row[x].doc] # None
      BY <1>2 DEF StoreInv, TypeInv, TypeOK, OneIdentity, Row
    <2>2. doc'[d] = IF d = row[x].doc THEN Detached(d) ELSE doc[d]
      BY <1>2, <2>1 DEF Detach, StoreInv, TypeInv, TypeOK
    <2>3. d = row[x].doc => Detached(d).at = IF doc[d].at = None THEN clock ELSE doc[d].at
      BY <2>1 DEF Detached, Document
    <2> QED
      BY <2>1, <2>2, <2>3
  <1>3. ASSUME NEW x \in Paths, NEW c, NEW e, NEW from, Assigns(x, c, e, from)
        PROVE  doc'[d].at = None \/ doc'[d] = doc[d]
    BY <1>3 DEF Assigns, Upsert, StoreInv, TypeInv, TypeOK
  <1>4. ASSUME NEW e, NEW c, Vectorizes(e, c)
        PROVE  doc[d] # None /\ doc'[d].at = doc[d].at
    <2>1. doc'[d] = IF d = e THEN [doc[d] EXCEPT !.vec = c] ELSE doc[d]
      BY <1>4 DEF Vectorizes, StoreInv, TypeInv, TypeOK
    <2>2. d = e => doc[d] \in Document /\ doc[d] # None
      BY <1>4 DEF Vectorizes, Embeddable, StoreInv, TypeInv, TypeOK
    <2> QED
      BY <2>1, <2>2 DEF Document
  <1>5. ASSUME NEW u \in Purgers, PurgesBatch(u) PROVE doc'[d] = doc[d]
    BY <1>5 DEF PurgesBatch
  <1>6. StoreStep
    BY NextStore DEF StoreInv
  <1>7. CASE \E x \in Paths : row[x] # None /\ Detach(x)
    BY <1>2, <1>7
  <1>8. CASE \E x \in Paths : \E c, e, from : Assigns(x, c, e, from)
    BY <1>3, <1>8
  <1>9. CASE \E e, c : Vectorizes(e, c)
    BY <1>4, <1>9
  <1>10. CASE \E u \in Purgers : PurgesBatch(u)
    BY <1>5, <1>10
  <1> QED
    BY <1>1, <1>6, <1>7, <1>8, <1>9, <1>10 DEF StoreStep

(* What a step does to a purge: it starts one, ends it, or keeps what its  *)
(* preview was.                                                            *)
LEMMA PurgeSteps ==
  ASSUME TypeInv, [Next]_vars, NEW u \in Purgers
  PROVE  \/ Previews(u)
         \/ purge'[u] = NoPurge
         \/ /\ purge[u].pc # "none" \/ purge'[u] = purge[u]
            /\ purge'[u].before = purge[u].before /\ purge'[u].shown = purge[u].shown
  <1> DEFINE g == purge[u]
             Keeps(h) == h.before = g.before /\ h.shown = g.shown
  <1>1. g \in Purge /\ purge \in [Purgers -> Purge]
    BY DEF TypeInv, TypeOK
  <1>2. CASE UNCHANGED purge
    BY <1>2
  <1>3. ASSUME NEW v \in Purgers, Purges(v), v # u PROVE purge'[u] = purge[u]
    BY <1>1, <1>3 DEF Purges, Previews, Applies, Lists, PurgesBatch
  <1>4. CASE Applies(u)
    <2>1. ASSUME NEW top PROVE Keeps([g EXCEPT !.pc = "list", !.max = top])
      BY <1>1 DEF Purge
    <2>2. g.pc # "none"
      BY <1>4 DEF Applies
    <2>3. purge'[u] = NoPurge \/ \E top : purge'[u] = [g EXCEPT !.pc = "list", !.max = top]
      BY <1>1, <1>4 DEF Applies
    <2> QED
      BY <2>1, <2>2, <2>3
  <1>5. CASE Lists(u)
    <2> DEFINE ids == NextBatch(g)
    <2>1. purge'[u] = NoPurge
          \/ \E top : purge'[u] = [g EXCEPT !.pc = "batch", !.ids = ids, !.after = top]
      BY <1>1, <1>5 DEF Lists
    <2>2. g.pc # "none"
      BY <1>5 DEF Lists
    <2> HIDE DEF ids
    <2>3. ASSUME NEW top
          PROVE  Keeps([g EXCEPT !.pc = "batch", !.ids = ids, !.after = top])
      BY <1>1 DEF Purge
    <2> QED
      BY <2>1, <2>2, <2>3
  <1>6. CASE PurgesBatch(u)
    <2>1. Keeps([g EXCEPT !.pc = "list", !.ids = {}])
      BY <1>1 DEF Purge
    <2>2. g.pc # "none"
      BY <1>6 DEF PurgesBatch
    <2>3. purge'[u] \in {NoPurge, [g EXCEPT !.pc = "list", !.ids = {}]}
      BY <1>1, <1>6 DEF PurgesBatch
    <2> QED
      BY <2>1, <2>2, <2>3
  <1>7. (\E v \in Purgers : Purges(v)) \/ UNCHANGED purge
    <2>1. ASSUME NEW p, Runs(p) PROVE UNCHANGED purge
      BY <2>1 DEF Runs, Plans, Walks, Reads, Looks, Commits, Embeds, EmbedFails, Stats, Detaches
    <2>2. ASSUME NEW p, Starts(p) PROVE UNCHANGED purge
      BY <2>2 DEF Starts, StartsFull, StartsFile
    <2>3. CASE Happening
      BY <2>3 DEF Happening, Removes, Deletes, Unlinks, Edits, Renames, Dies, Ticks
    <2> QED
      BY <2>1, <2>2, <2>3 DEF Next, vars
  <1> QED
    BY <1>2, <1>3, <1>4, <1>5, <1>6, <1>7 DEF Purges

LEMMA ClockGoesOn ==
  ASSUME TypeInv, [Next]_vars
  PROVE  clock \in Nat /\ clock' \in Nat /\ clock' >= clock
  <1>1. ASSUME NEW p, Runs(p) \/ Starts(p) PROVE UNCHANGED clock
    BY <1>1 DEF Runs, Plans, Walks, Reads, Looks, Commits, Embeds, EmbedFails, Stats, Detaches,
                Starts, StartsFull, StartsFile
  <1>2. ASSUME NEW u, Purges(u) PROVE UNCHANGED clock
    BY <1>2 DEF Purges, Previews, Applies, Lists, PurgesBatch
  <1>3. CASE Happening
    <2>1. UNCHANGED clock \/ clock' = clock + 1
      BY <1>3 DEF Happening, Removes, Deletes, Unlinks, Edits, Renames, Dies, Ticks
    <2> QED
      BY <2>1, ConstantsAssumption DEF TypeInv, TypeOK
  <1> QED
    BY <1>1, <1>2, <1>3, ConstantsAssumption DEF Next, vars, TypeInv, TypeOK

LEMMA NextPurge ==
  ASSUME StoreInv, PurgeInv, [Next]_vars
  PROVE  PurgeInv'
  <1> SUFFICES ASSUME NEW u \in Purgers, purge'[u].pc # "none"
               PROVE  /\ purge'[u].before + Grace <= clock'
                      /\ \A d \in Docs : doc'[d] # None /\ Expired(doc'[d].at, purge'[u].before) =>
                           purge'[u].shown[d] = doc'[d].at
    BY DEF PurgeInv, Covers, Expired
  <1> DEFINE g == purge[u]
  <1>1. clock \in Nat /\ clock' \in Nat /\ clock' >= clock
    BY ClockGoesOn DEF StoreInv
  <1>2. CASE Previews(u)
    <2> DEFINE before == clock - Grace
               shown == [d \in Docs |-> IF d \in Eligible(before) THEN doc[d].at ELSE None]
               h == [NoPurge EXCEPT !.pc = "previewed", !.before = before, !.shown = shown]
    <2>1. purge'[u] = h /\ UNCHANGED <<doc, clock>>
      BY <1>2 DEF Previews, StoreInv, TypeInv, TypeOK, store
    <2>2. h.before = before /\ h.shown = shown
      BY DEF NoPurge
    <2>3. before + Grace = clock
      BY <1>1, ConstantsAssumption
    <2>4. \A d \in Docs : doc[d] # None /\ Expired(doc[d].at, before) => shown[d] = doc[d].at
      BY DEF Eligible
    <2> HIDE DEF before, shown, h
    <2> QED
      BY <1>1, <2>1, <2>2, <2>3, <2>4
  <1>3. CASE /\ g.pc # "none" \/ purge'[u] = g
             /\ purge'[u].before = g.before /\ purge'[u].shown = g.shown
    <2>1. /\ g.before \in Nat /\ g.before + Grace <= clock
          /\ \A d \in Docs : doc[d] # None /\ Expired(doc[d].at, g.before) => g.shown[d] = doc[d].at
      BY <1>3 DEF PurgeInv, Covers, StoreInv, TypeInv, TypeOK, Purge
    <2>2. ~Expired(clock, g.before)
      <3>1. clock >= g.before + Day
        BY <1>1, <2>1, ConstantsAssumption
      <3> QED
        BY <1>1, <2>1, <3>1, LaterDay, ConstantsAssumption DEF Expired
    <2>3. ~Expired(None, g.before)
      BY DEF Expired
    <2>4. g.before + Grace <= clock'
      BY <1>1, <2>1, ConstantsAssumption
    <2>5. ASSUME NEW d \in Docs, doc'[d] # None, Expired(doc'[d].at, g.before)
          PROVE  g.shown[d] = doc'[d].at
      BY <2>1, <2>2, <2>3, <2>5, AtStays
    <2> QED
      BY <1>3, <2>4, <2>5
  <1>4. purge'[u] # NoPurge
    BY DEF NoPurge
  <1> QED
    BY <1>2, <1>3, <1>4, PurgeSteps DEF StoreInv

(* What a purge deletes was in the preview that was confirmed, detached    *)
(* then and ever since (PurgesWhatWasShown), for any number of purges and  *)
(* indexers: nothing that is detached after the preview can be old enough, *)
(* since the grace is a day at least.                                      *)
THEOREM PurgesAreShown == Spec => PurgesWhatWasShown
  <1>1. Init => PurgeInv
    BY DEF Init, PurgeInv, Covers, NoPurge
  <1>2. StoreInv /\ PurgeInv /\ [Next]_vars => PurgeInv'
    BY NextPurge
  <1> DEFINE Spared(d) ==
        doc[d] # None /\ doc'[d] = None =>
          \E u \in Purgers : purge[u].pc = "batch" /\ purge[u].shown[d] = doc[d].at
  <1>3. ASSUME StoreInv, PurgeInv, [Next]_vars, NEW d \in Docs, doc[d] # None, doc'[d] = None
        PROVE  \E u \in Purgers : purge[u].pc = "batch" /\ purge[u].shown[d] = doc[d].at
    <2>1. ASSUME NEW u \in Purgers, PurgesBatch(u)
          PROVE  purge[u].pc = "batch" /\ purge[u].shown[d] = doc[d].at
      <3>1. d \in Purged(purge[u])
        BY <1>3, <2>1 DEF PurgesBatch
      <3> QED
        BY <1>3, <2>1, <3>1 DEF PurgesBatch, Purged, Eligible, PurgeInv, Covers
    <2>2. CASE UNCHANGED store
      BY <1>3, <2>2 DEF store
    <2>3. ASSUME NEW x \in Paths, row[x] # None, Detach(x) PROVE FALSE
      <3>1. row[x].doc \in Docs /\ doc[row[x].doc] \in Document
        BY <1>3, <2>3 DEF StoreInv, TypeInv, TypeOK, OneIdentity, Row
      <3>2. Detached(row[x].doc) \in Document
        BY <1>3, <3>1, ClockGoesOn DEF Detached, Document, StoreInv
      <3> QED
        BY <1>3, <2>3, <3>2, NoneAssumption DEF Detach, StoreInv, TypeInv, TypeOK
    <2>4. ASSUME NEW x \in Paths, NEW c, NEW e, NEW from, Assigns(x, c, e, from) PROVE FALSE
      <3>1. doc' \in [Docs -> Document \cup {None}] /\ OneIdentity'
        BY <1>3, NextInv DEF StoreInv, TypeInv, TypeOK
      <3>2. d = e
        BY <1>3, <2>4 DEF Assigns, Upsert, StoreInv, TypeInv, TypeOK
      <3>3. row'[x].doc = e /\ row'[x] # None
        <4>1. [doc |-> e, content |-> c, missing |-> FALSE] \in Row
          BY <2>4 DEF Assigns, Row
        <4> QED
          BY <2>4, <4>1, NoneAssumption DEF Assigns, Upsert
      <3> QED
        BY <1>3, <3>1, <3>2, <3>3 DEF OneIdentity
    <2>5. ASSUME NEW e, NEW c, Vectorizes(e, c) PROVE FALSE
      BY <1>3, <2>5, NoneAssumption, EmbedsStore DEF Vectorizes, Embeddable, StoreInv, TypeInv, TypeOK, Document
    <2>6. StoreStep
      BY <1>3, NextStore DEF StoreInv
    <2> QED
      BY <2>1, <2>2, <2>3, <2>4, <2>5, <2>6 DEF StoreStep
  <1>4. StoreInv /\ PurgeInv /\ [Next]_vars => [\A d \in Docs : Spared(d)]_vars
    BY <1>3
  <1> QED
    BY <1>1, <1>2, <1>4, StoreInvariant, PTL DEF Spec, PurgesWhatWasShown

-----------------------------------------------------------------------------
(* The safety check.  A full run that goes past it has too little missing  *)
(* to be refused, or was told how much; what it prunes was missing then.   *)
Bounded(j) ==
  \/ Gone(j) = {}
  \/ Cardinality(Gone(j)) <= LimitFor(Cardinality(Existing(j.snap))) /\ j.seen # {}
  \/ j.confirm # None /\ Cardinality(Gone(j)) <= j.confirm

Checked(j) ==
  /\ j.pc = "walk" => j.full
  /\ j.full /\ j.pc \notin {"idle", "walk"} => Bounded(j)
  /\ j.pc \in {"stat", "detach"} => j.full /\ j.todo \subseteq Gone(j) /\ Gone(j) # {}

CheckInv == \A p \in Indexers : Checked(job[p])

Alike(j, k) ==
  k.full = j.full /\ k.snap = j.snap /\ k.seen = j.seen /\ k.confirm = j.confirm

LEMMA AlikeBounded ==
  ASSUME NEW j, NEW k, Alike(j, k)
  PROVE  Gone(k) = Gone(j) /\ (Bounded(k) <=> Bounded(j))
  BY DEF Alike, Gone, Existing, Bounded

LEMMA IdleChecked == Checked(Idle)
  BY DEF Checked, Idle

LEMMA PruningChecked ==
  ASSUME NEW j \in Job, j.full, Bounded(j)
  PROVE  Checked(Pruning(j))
  <1> DEFINE k == [j EXCEPT !.pc = "stat", !.todo = Unseen(j)]
  <1>1. Unseen(j) \subseteq Gone(j)
    BY DEF Unseen
  <1>2. k.pc = "stat" /\ k.todo = Unseen(j) /\ Alike(j, k)
    BY DEF Job, Alike
  <1>3. Pruning(j) = Idle \/ (Pruning(j) = k /\ Unseen(j) # {})
    BY DEF Pruning
  <1> HIDE DEF k
  <1> QED
    BY <1>1, <1>2, <1>3, IdleChecked, AlikeBounded DEF Checked, Alike

LEMMA PastFileChecked ==
  ASSUME NEW j \in Job, NEW x \in Paths, j.full => Bounded(j)
  PROVE  Checked(PastFile(j, x))
  <1> DEFINE past == [j EXCEPT !.pc = "read", !.todo = @ \ {x}, !.cached[x] = None,
                               !.renameFrom[x] = None, !.content = None,
                               !.was = None, !.from = None, !.id = None]
  <1>1. past \in Job /\ past.pc = "read" /\ Alike(j, past)
    BY DEF Job, Alike
  <1>2. PastFile(j, x) \in {past, Idle} \/ (j.full /\ PastFile(j, x) = Pruning(past))
    BY DEF PastFile
  <1> HIDE DEF past
  <1>3. Checked(past)
    BY <1>1, AlikeBounded DEF Checked, Alike
  <1>4. j.full => Checked(Pruning(past))
    BY <1>1, AlikeBounded, PruningChecked DEF Alike
  <1> QED
    BY <1>2, <1>3, <1>4, IdleChecked

LEMMA FileFailsChecked ==
  ASSUME NEW j \in Job, NEW x \in Paths, j.full => Bounded(j)
  PROVE  Checked(FileFails(j, x))
  <1> DEFINE kept == [j EXCEPT !.kept = @ \cup ({j.renameFrom[x]} \ {None})]
  <1>1. kept \in Job /\ Alike(j, kept)
    BY DEF Job, Alike
  <1>2. FileFails(j, x) = PastFile(kept, x)
    BY DEF FileFails
  <1> HIDE DEF kept
  <1> QED
    BY <1>1, <1>2, AlikeBounded, PastFileChecked DEF Alike

LEMMA PastPruneChecked ==
  ASSUME NEW j \in Job, NEW x \in Paths, Checked(j), j.pc \in {"stat", "detach"}
  PROVE  Checked(PastPrune(j, x))
  <1> DEFINE k == [j EXCEPT !.pc = "stat", !.todo = @ \ {x}]
  <1>1. k.pc = "stat" /\ k.todo = j.todo \ {x} /\ Alike(j, k)
    BY DEF Job, Alike
  <1>2. PastPrune(j, x) \in {Idle, k}
    BY DEF PastPrune
  <1> HIDE DEF k
  <1>3. Checked(k)
    BY <1>1, AlikeBounded DEF Checked, Alike
  <1> QED
    BY <1>2, <1>3, IdleChecked

(* A run that is not refused.                                              *)
LEMMA NotRefused ==
  ASSUME TypeInv, NEW j \in Job, NEW confirm \in Confirmations,
         ~RefusesPrune(j.snap, j.seen, confirm),
         j.confirm = IF RefusesPrune(j.snap, j.seen, None) THEN confirm ELSE None
  PROVE  Bounded(j)
  <1>1. /\ IsFiniteSet(Existing(j.snap)) /\ IsFiniteSet(j.seen) /\ IsFiniteSet(Gone(j))
        /\ Gone(j) = Existing(j.snap) \ j.seen
    <2>1. Existing(j.snap) \subseteq Paths /\ j.seen \subseteq Paths /\ Gone(j) \subseteq Paths
      BY DEF Existing, Gone, Job
    <2> QED
      BY <2>1, FS_Subset, ConstantsAssumption DEF Gone
  <1> DEFINE existing == Cardinality(Existing(j.snap))
             scanned == Cardinality(j.seen)
             missing == Cardinality(Gone(j))
  <1>2. existing \in Nat /\ scanned \in Nat /\ missing \in Nat
    BY <1>1, FS_CardinalityType
  <1>3. /\ existing = 0 => Gone(j) = {}
        /\ scanned = 0 <=> j.seen = {}
    BY <1>1, FS_EmptySet
  <1>4. LimitFor(existing) \in Int
    BY <1>2, ConstantsAssumption DEF LimitFor
  <1>5. None # missing
    BY <1>2, NoneAssumption
  <1>6. CASE ~RefusesPrune(j.snap, j.seen, None)
    <2>1. ~(existing > 0 /\ scanned = 0) /\ ~(missing > LimitFor(existing))
      BY <1>1, <1>5, <1>6 DEF RefusesPrune, Refuses
    <2> HIDE DEF existing, scanned, missing
    <2>2. Gone(j) = {} \/ (missing <= LimitFor(existing) /\ j.seen # {})
      BY <1>2, <1>3, <1>4, <2>1
    <2> QED
      BY <2>2 DEF Bounded, existing, missing
  <1>7. CASE RefusesPrune(j.snap, j.seen, None)
    <2>1. confirm = missing /\ j.confirm = confirm
      BY <1>1, <1>7 DEF RefusesPrune, Refuses
    <2> QED
      BY <1>2, <1>5, <2>1 DEF Bounded
  <1> QED
    BY <1>6, <1>7

LEMMA PlansChecked ==
  ASSUME TypeInv, CheckInv, NEW p \in Indexers, NEW confirm \in Confirmations,
         Plans(p, confirm)
  PROVE  Checked(job'[p])
  <1> DEFINE c == IF RefusesPrune(job[p].snap, job[p].seen, None) THEN confirm ELSE None
             j == [job[p] EXCEPT !.confirm = c]
             planned == [j EXCEPT !.pc = "read", !.todo = j.seen, !.cached = Cached(j),
                                  !.renameFrom = RenameFrom(j)]
  <1>1. job[p] \in Job /\ c \in Nat \cup {None}
    <2>1. Cardinality(Paths) \in Nat
      BY FS_CardinalityType, ConstantsAssumption
    <2> QED
      BY <2>1 DEF Confirmations, TypeInv, TypeOK
  <1>2. job'[p] = IF RefusesPrune(j.snap, j.seen, confirm) THEN Idle
                  ELSE IF j.seen = {} THEN Pruning(j) ELSE planned
    BY DEF Plans, Becomes, TypeInv, TypeOK
  <1>3. j \in Job /\ j.full = job[p].full /\ j.confirm = c
        /\ j.snap = job[p].snap /\ j.seen = job[p].seen
    <2> HIDE DEF c
    <2> QED
      BY <1>1 DEF Job
  <1>4. j.full
    BY <1>3 DEF Plans, CheckInv, Checked
  <1>5. ~RefusesPrune(j.snap, j.seen, confirm) => Bounded(j)
    <2>1. j.confirm = IF RefusesPrune(j.snap, j.seen, None) THEN confirm ELSE None
      BY <1>3
    <2> HIDE DEF j
    <2> QED
      BY <1>3, <2>1, NotRefused
  <1>6. planned.pc = "read" /\ Alike(j, planned)
    <2> HIDE DEF j
    <2> QED
      BY <1>3 DEF Job, Alike
  <1> HIDE DEF planned, j
  <1>7. Bounded(j) => Checked(planned)
    BY <1>6, AlikeBounded DEF Checked
  <1> QED
    BY <1>2, <1>3, <1>4, <1>5, <1>7, PruningChecked, IdleChecked

(* The other steps of a run.                                               *)
LEMMA RunsChecked ==
  ASSUME TypeInv, CheckInv, NEW p \in Indexers, Runs(p)
  PROVE  Checked(job'[p])
  <1> DEFINE j == job[p]
  <1>1. job \in [Indexers -> Job] /\ j \in Job /\ Checked(j)
    BY DEF TypeInv, TypeOK, CheckInv
  <1>2. ASSUME NEW k, Becomes(p, k) PROVE job'[p] = k
    BY <1>1, <1>2 DEF Becomes
  <1>3. ASSUME NEW k, Alike(j, k), k.pc \in {"look", "commit", "embed"},
               j.pc \notin {"idle", "walk"}
        PROVE  Checked(k)
    BY <1>1, <1>3, AlikeBounded DEF Checked, Alike
  <1>4. j.pc \notin {"idle", "walk"} => (j.full => Bounded(j))
    BY <1>1 DEF Checked
  <1>5. ASSUME NEW x \in Paths, Walks(p, x) PROVE Checked(job'[p])
    <2> DEFINE k == [j EXCEPT !.todo = @ \ {x},
                              !.seen = IF disk[x] # None THEN @ \cup {x} ELSE @]
    <2>1. k.pc = "walk" /\ k.full
      BY <1>1, <1>5 DEF Job, Walks, Checked
    <2>2. job'[p] = k
      BY <1>2, <1>5 DEF Walks
    <2> HIDE DEF k
    <2> QED
      BY <2>1, <2>2 DEF Checked
  <1>6. ASSUME NEW x \in Paths, Reads(p, x) PROVE Checked(job'[p])
    <2> DEFINE c == IF j.cached[x] # None THEN j.cached[x] ELSE disk[x]
               looking == [j EXCEPT !.pc = "look", !.content = c, !.cached[x] = None]
               embedding == [j EXCEPT !.pc = "embed", !.id = row[x].doc,
                                      !.content = doc[row[x].doc].content]
    <2>1. job'[p] \in {FileFails(j, x), looking, embedding, PastFile(j, x)}
      BY <1>2, <1>6 DEF Reads
    <2>2. /\ Alike(j, looking) /\ looking.pc = "look"
          /\ Alike(j, embedding) /\ embedding.pc = "embed"
      BY <1>1 DEF Job, Alike
    <2>3. j.pc = "read"
      BY <1>6 DEF Reads
    <2> HIDE DEF looking, embedding
    <2> QED
      BY <1>1, <1>3, <1>4, <2>1, <2>2, <2>3, FileFailsChecked, PastFileChecked
  <1>7. ASSUME NEW x \in Paths, Looks(p, x) PROVE Checked(job'[p])
    <2> DEFINE k == [j EXCEPT !.pc = "commit", !.was = row[x],
                              !.from = ComesFrom(j, x, j.content)]
    <2>1. job'[p] \in {FileFails(j, x), k} /\ j.pc = "look"
      BY <1>2, <1>7 DEF Looks
    <2>2. Alike(j, k) /\ k.pc = "commit"
      BY <1>1 DEF Job, Alike
    <2> HIDE DEF k
    <2> QED
      BY <1>1, <1>3, <1>4, <2>1, <2>2, FileFailsChecked
  <1>8. ASSUME NEW x \in Paths, Commits(p, x) PROVE Checked(job'[p])
    <2> DEFINE k == [j EXCEPT !.pc = "embed", !.id = Owner(j, x), !.was = None, !.from = None]
    <2>1. job'[p] \in {FileFails(j, x), k} /\ j.pc = "commit"
      BY <1>2, <1>8 DEF Commits
    <2>2. Alike(j, k) /\ k.pc = "embed"
      BY <1>1 DEF Job, Alike
    <2> HIDE DEF k
    <2> QED
      BY <1>1, <1>3, <1>4, <2>1, <2>2, FileFailsChecked
  <1>9. ASSUME NEW x \in Paths, Embeds(p, x) \/ EmbedFails(p, x) PROVE Checked(job'[p])
    <2>1. job'[p] = PastFile(j, x) /\ j.pc = "embed"
      BY <1>2, <1>9 DEF Embeds, EmbedFails
    <2> QED
      BY <1>1, <1>4, <2>1, PastFileChecked
  <1>10. ASSUME NEW x \in Paths, Stats(p, x) PROVE Checked(job'[p])
    <2> DEFINE k == [j EXCEPT !.pc = "detach"]
    <2>1. job'[p] \in {PastPrune(j, x), k} /\ j.pc = "stat"
      BY <1>2, <1>10 DEF Stats
    <2>2. Alike(j, k) /\ k.pc = "detach" /\ k.todo = j.todo
      BY <1>1 DEF Job, Alike
    <2> HIDE DEF k
    <2>3. Checked(k)
      BY <1>1, <2>1, <2>2, AlikeBounded DEF Checked, Alike
    <2> QED
      BY <1>1, <2>1, <2>3, PastPruneChecked
  <1>11. ASSUME NEW x \in Paths, Detaches(p, x) PROVE Checked(job'[p])
    <2>1. job'[p] = PastPrune(j, x) /\ j.pc = "detach"
      BY <1>2, <1>11 DEF Detaches
    <2> QED
      BY <1>1, <2>1, PastPruneChecked
  <1>12. First(j.todo) \subseteq Paths
    BY <1>1 DEF First, Job
  <1> QED
    BY <1>5, <1>6, <1>7, <1>8, <1>9, <1>10, <1>11, <1>12, PlansChecked DEF Runs

LEMMA NextCheck ==
  ASSUME TypeInv, CheckInv, [Next]_vars
  PROVE  CheckInv'
  <1>1. CASE UNCHANGED job
    BY <1>1 DEF CheckInv
  <1>2. ASSUME NEW p \in Indexers, NEW k, Becomes(p, k), Checked(job'[p])
        PROVE  CheckInv'
    BY <1>2 DEF CheckInv, Becomes, TypeInv, TypeOK
  <1>3. ASSUME NEW p \in Indexers, Runs(p) PROVE CheckInv'
    <2>1. \E k : Becomes(p, k)
      BY <1>3 DEF Runs, Plans, Walks, Reads, Looks, Commits, Embeds, EmbedFails, Stats, Detaches
    <2> QED
      BY <1>2, <1>3, <2>1, RunsChecked
  <1>4. ASSUME NEW p \in Indexers, Starts(p) PROVE CheckInv'
    <2>1. CASE StartsFull(p)
      <3> DEFINE k == [Idle EXCEPT !.pc = "walk", !.full = TRUE, !.snap = row, !.todo = Paths]
      <3>1. Becomes(p, k) /\ job'[p] = k
        BY <2>1 DEF StartsFull, Becomes, TypeInv, TypeOK
      <3>2. Checked(k)
        BY DEF Checked, Idle
      <3> QED
        BY <1>2, <3>1, <3>2
    <2>2. ASSUME NEW x \in Paths, StartsFile(p, x) PROVE CheckInv'
      <3> DEFINE k == [Idle EXCEPT !.pc = "read", !.snap[x] = row[x], !.seen = {x},
                                   !.todo = {x}]
      <3>1. Becomes(p, k) /\ job'[p] = k
        BY <2>2 DEF StartsFile, Becomes, TypeInv, TypeOK
      <3>2. Checked(k)
        BY DEF Checked, Idle
      <3> QED
        BY <1>2, <3>1, <3>2
    <2> QED
      BY <1>4, <2>1, <2>2 DEF Starts
  <1>5. CASE Happening
    <2>1. ASSUME NEW p \in Indexers, Dies(p) PROVE CheckInv'
      BY <2>1, IdleChecked DEF Dies, CheckInv, TypeInv, TypeOK
    <2> QED
      BY <1>1, <1>5, <2>1 DEF Happening, Removes, Deletes, Unlinks, Edits, Renames, Ticks
  <1>6. ASSUME NEW u, Purges(u) PROVE UNCHANGED job
    BY <1>6 DEF Purges, Previews, Applies, Lists, PurgesBatch
  <1> QED
    BY <1>1, <1>3, <1>4, <1>5, <1>6 DEF Next, vars

(* A run never sets out to detach more documents than the limit, or than   *)
(* the number it was told, and none when it saw no file (BlastRadius), for *)
(* vaults of any size: the check is made on what is pruned later, whatever *)
(* the files that are indexed in between add to or fail.                   *)
THEOREM PrunesAreBounded == Spec => []BlastRadius
  <1>1. Init => CheckInv
    BY IdleChecked DEF Init, CheckInv
  <1>2. StoreInv /\ CheckInv /\ [Next]_vars => CheckInv'
    BY NextCheck DEF StoreInv
  <1>3. StoreInv /\ CheckInv => BlastRadius
    <2> SUFFICES ASSUME StoreInv, CheckInv, NEW p \in Indexers,
                        job[p].pc \in {"stat", "detach"}
                 PROVE  LET j == job[p] IN
                        \/ /\ Cardinality(j.todo) <= LimitFor(Cardinality(Existing(j.snap)))
                           /\ j.seen # {}
                        \/ j.confirm # None /\ Cardinality(j.todo) <= j.confirm
      BY DEF BlastRadius
    <2> DEFINE j == job[p]
    <2>1. j \in Job /\ Bounded(j) /\ j.todo \subseteq Gone(j) /\ Gone(j) # {}
      BY DEF CheckInv, Checked, StoreInv, TypeInv, TypeOK
    <2>2. /\ IsFiniteSet(Gone(j)) /\ IsFiniteSet(Existing(j.snap))
      BY FS_Subset, ConstantsAssumption DEF Gone, Existing
    <2>3. /\ Cardinality(j.todo) <= Cardinality(Gone(j))
          /\ Cardinality(j.todo) \in Nat /\ Cardinality(Gone(j)) \in Nat
          /\ Cardinality(Existing(j.snap)) \in Nat
      BY <2>1, <2>2, FS_Subset, FS_CardinalityType
    <2>4. LimitFor(Cardinality(Existing(j.snap))) \in Int /\ j.confirm \in Nat \cup {None}
      BY <2>1, <2>3, ConstantsAssumption DEF LimitFor, Job
    <2> HIDE DEF j
    <2>5. \/ Cardinality(j.todo) <= LimitFor(Cardinality(Existing(j.snap))) /\ j.seen # {}
          \/ j.confirm # None /\ Cardinality(j.todo) <= j.confirm
      BY <2>1, <2>3, <2>4 DEF Bounded
    <2> QED
      BY <2>5 DEF j
  <1> QED
    BY <1>1, <1>2, <1>3, StoreInvariant, PTL DEF Spec
=============================================================================
