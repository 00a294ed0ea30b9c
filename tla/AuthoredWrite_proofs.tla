------------------------- MODULE AuthoredWrite_proofs -------------------------
(***************************************************************************)
(* The authored-write lock, for every set of calls, processes and notes:   *)
(* the types, mutual exclusion of the calls, that a row of a running       *)
(* process is always on its way out, that the calls implement AtomicNotes, *)
(* and that they duplicate no note.                                        *)
(***************************************************************************)
EXTENDS AuthoredWrite, TLAPS

-----------------------------------------------------------------------------
(* Types.  A call or a reindex that indexes has a note to index, a call    *)
(* that retires has a target.                                              *)

HasNote ==
  /\ \A w \in Writers : /\ pc[w] \in {"index", "commit", "embed"} => landed[w] \in Notes
                        /\ pc[w] = "retire" => target[w] \in Notes
  /\ \A r \in Reindexers : reindex[r].at # "idle" => reindex[r].on \in Notes

TypeInv == TypeOK /\ HasNote

LEMMA InitTypeInv ==
  ASSUME Init
  PROVE  TypeInv
<1> USE ConstantsAssumption
<1>1. target \in [Writers -> Notes \cup {None}]
  BY DEF Init
<1>2. embedded \subseteq Notes
  BY DEF Init
<1>3. file \in [Notes -> Topics \cup {None}]
  BY DEF Init
<1>4. reindex \in [Reindexers -> [at : {"idle", "commit", "embed"}, on : Notes \cup {None},
                                 copy : Topics \cup {None}]]
  BY DEF Init, Idle
<1>5. pc \in [Writers -> Critical \cup Outside]
  BY DEF Init, Critical, Outside
<1> QED
  BY <1>1, <1>2, <1>3, <1>4, <1>5 DEF Init, TypeInv, TypeOK, HasNote, Idle

(* A step of a call, whatever it makes of the history variable.            *)
LEMMA WriterStepTypeOK ==
  ASSUME TypeInv, NEW w \in Writers, WriterStep(w), strayed' \subseteq Notes
  PROVE  TypeOK'
<1> USE ConstantsAssumption DEF TypeInv, TypeOK, Goes, calls, corpus, Critical, Outside
<1>0. Writers \subseteq Notes
  BY DEF Notes
<1>w. HasNote
  BY DEF TypeInv
<1>1. CASE Begins(w)
  BY <1>1, <1>0 DEF Begins
<1>2. CASE Inserts(w)
  BY <1>2, <1>0 DEF Inserts
<1>3. CASE LooksBusy(w)
  BY <1>3, <1>0 DEF LooksBusy
<1>4. CASE LooksDead(w)
  BY <1>4, <1>0 DEF LooksDead
<1>5. CASE Steals(w)
  BY <1>5, <1>0 DEF Steals
<1>6. CASE TriesAgain(w)
  BY <1>6, <1>0 DEF TriesAgain
<1>7. CASE GivesUp(w)
  BY <1>7, <1>0 DEF GivesUp
<1>8. CASE ChecksCorpus(w)
  BY <1>8, <1>0 DEF ChecksCorpus
<1>9. CASE FindsSimilar(w)
  BY <1>9, <1>0 DEF FindsSimilar
<1>10. CASE SimilarUnavailable(w)
  BY <1>10, <1>0 DEF SimilarUnavailable
<1>11. CASE \E n \in Notes : CreatesFile(w, n)
  <2>1. PICK n \in Notes : CreatesFile(w, n)
    BY <1>11
  <2> QED
    BY <2>1, <1>0 DEF CreatesFile
<1>12. CASE CreateFails(w)
  BY <1>12, <1>0 DEF CreateFails
<1>13. CASE WriterReads(w)
  BY <1>13, <1>0, <1>w DEF WriterReads, HasNote
<1>14. CASE WriterCommits(w)
  BY <1>14, <1>0 DEF WriterCommits, Commits
<1>15. CASE WriterEmbeds(w)
  BY <1>15, <1>0, <1>w DEF WriterEmbeds, Embeds, HasNote
<1>16. CASE IndexFails(w)
  BY <1>16, <1>0 DEF IndexFails
<1>17. CASE Releases(w)
  BY <1>17, <1>0 DEF Releases, Leaves
<1>18. CASE ReleaseFails(w)
  BY <1>18, <1>0 DEF ReleaseFails, Leaves
<1>19. CASE TimerReleases(w)
  BY <1>19, <1>0 DEF TimerReleases
<1>20. CASE Retires(w)
  BY <1>20, <1>0, <1>w DEF Retires, HasNote
<1>21. CASE RetireFails(w)
  BY <1>21, <1>0 DEF RetireFails
<1> QED
  BY <1>1, <1>2, <1>3, <1>4, <1>5, <1>6, <1>7, <1>8, <1>9, <1>10,
     <1>11, <1>12, <1>13, <1>14, <1>15, <1>16, <1>17, <1>18, <1>19, <1>20, <1>21 DEF WriterStep

LEMMA WriterStepHasNote ==
  ASSUME TypeInv, NEW w \in Writers, WriterStep(w)
  PROVE  HasNote'
<1> USE ConstantsAssumption DEF TypeInv, TypeOK, HasNote, Goes, calls, corpus, Critical, Outside
<1>1. CASE Begins(w)
  BY <1>1 DEF Begins
<1>2. CASE Inserts(w)
  BY <1>2 DEF Inserts, Notes
<1>3. CASE LooksBusy(w)
  BY <1>3 DEF LooksBusy
<1>4. CASE LooksDead(w)
  BY <1>4 DEF LooksDead
<1>5. CASE Steals(w)
  BY <1>5 DEF Steals
<1>6. CASE TriesAgain(w)
  BY <1>6 DEF TriesAgain
<1>7. CASE GivesUp(w)
  BY <1>7 DEF GivesUp
<1>8. CASE ChecksCorpus(w)
  BY <1>8 DEF ChecksCorpus
<1>9. CASE FindsSimilar(w)
  BY <1>9 DEF FindsSimilar
<1>10. CASE SimilarUnavailable(w)
  BY <1>10 DEF SimilarUnavailable
<1>11. CASE \E n \in Notes : CreatesFile(w, n)
  <2>1. PICK n \in Notes : CreatesFile(w, n)
    BY <1>11
  <2> QED
    BY <2>1 DEF CreatesFile
<1>12. CASE CreateFails(w)
  BY <1>12 DEF CreateFails
<1>13. CASE WriterReads(w)
  BY <1>13 DEF WriterReads
<1>14. CASE WriterCommits(w)
  BY <1>14 DEF WriterCommits, Commits
<1>15. CASE WriterEmbeds(w)
  BY <1>15 DEF WriterEmbeds, Embeds
<1>16. CASE IndexFails(w)
  BY <1>16 DEF IndexFails
<1>17. CASE Releases(w)
  BY <1>17 DEF Releases, Leaves
<1>18. CASE ReleaseFails(w)
  BY <1>18 DEF ReleaseFails, Leaves
<1>19. CASE TimerReleases(w)
  BY <1>19 DEF TimerReleases
<1>20. CASE Retires(w)
  BY <1>20 DEF Retires
<1>21. CASE RetireFails(w)
  BY <1>21 DEF RetireFails
<1> QED
  BY <1>1, <1>2, <1>3, <1>4, <1>5, <1>6, <1>7, <1>8, <1>9, <1>10,
     <1>11, <1>12, <1>13, <1>14, <1>15, <1>16, <1>17, <1>18, <1>19, <1>20, <1>21 DEF WriterStep

ReindexState == [at : {"idle", "commit", "embed"}, on : Notes \cup {None},
                 copy : Topics \cup {None}]

LEMMA ReindexStepTypeInv ==
  ASSUME TypeInv, strayed' \subseteq Notes, NEW r \in Reindexers,
         \/ \E n \in Notes : ReindexReads(r, n)
         \/ ReindexCommits(r) \/ ReindexEmbeds(r) \/ ReindexFails(r)
  PROVE  TypeInv'
<1> USE ConstantsAssumption
<1>0. /\ reindex \in [Reindexers -> ReindexState]
      /\ reindex[r] \in ReindexState
      /\ reindex[r].at # "idle" => reindex[r].on \in Notes
  BY DEF TypeInv, TypeOK, HasNote, ReindexState
<1>1. SUFFICES ASSUME NEW next \in ReindexState,
                      next.at # "idle" => next.on \in Notes,
                      reindex' = [reindex EXCEPT ![r] = next],
                      doc' \in [Notes -> Topics \cup {None}], embedded' \subseteq Notes,
                      UNCHANGED <<lock, alive, owed, calls, file, retired, edits>>
               PROVE  TypeInv'
  <2>1. CASE \E n \in Notes : ReindexReads(r, n)
    <3>1. PICK n \in Notes : ReindexReads(r, n)
      BY <2>1
    <3> DEFINE next == [at |-> IF doc[n] = file[n] THEN "embed" ELSE "commit", on |-> n,
                        copy |-> file[n]]
    <3>2. next \in ReindexState /\ next.on \in Notes
      BY DEF TypeInv, TypeOK, ReindexState
    <3>3. reindex' = [reindex EXCEPT ![r] = next]
      BY <3>1 DEF ReindexReads
    <3>4. UNCHANGED <<lock, alive, owed, calls, file, doc, embedded, retired, edits>>
      BY <3>1 DEF ReindexReads, corpus
    <3>5. doc' \in [Notes -> Topics \cup {None}] /\ embedded' \subseteq Notes
      BY <3>4 DEF TypeInv, TypeOK
    <3> HIDE DEF next
    <3> QED
      BY <3>2, <3>3, <3>4, <3>5, <1>1
  <2>2. CASE ReindexCommits(r)
    <3> DEFINE next == [reindex[r] EXCEPT !.at = "embed"]
    <3>2. next \in ReindexState /\ next.on \in Notes
      BY <1>0, <2>2 DEF ReindexState, ReindexCommits
    <3>3. reindex' = [reindex EXCEPT ![r] = next]
      BY <2>2 DEF ReindexCommits
    <3>4. UNCHANGED <<lock, alive, owed, calls, file, retired, edits>>
      BY <2>2 DEF ReindexCommits, Commits
    <3>5. reindex[r].copy \in Topics \cup {None}
      BY <1>0 DEF ReindexState
    <3>6. doc' \in [Notes -> Topics \cup {None}] /\ embedded' \subseteq Notes
      BY <2>2, <3>5 DEF TypeInv, TypeOK, ReindexCommits, Commits
    <3> HIDE DEF next
    <3> QED
      BY <3>2, <3>3, <3>4, <3>6, <1>1
  <2>3. CASE ReindexEmbeds(r)
    <3>1. embedded' \subseteq Notes
      BY <1>0, <2>3 DEF TypeInv, TypeOK, ReindexEmbeds, Embeds
    <3>2. Idle \in ReindexState /\ Idle.at = "idle"
      BY DEF Idle, ReindexState
    <3> QED
      BY <2>3, <3>1, <3>2, <1>1 DEF TypeInv, TypeOK, ReindexEmbeds, Embeds
  <2>4. CASE ReindexFails(r)
    <3>1. Idle \in ReindexState /\ Idle.at = "idle"
      BY DEF Idle, ReindexState
    <3> QED
      BY <2>4, <3>1, <1>1 DEF TypeInv, TypeOK, ReindexFails, corpus
  <2> QED
    BY <2>1, <2>2, <2>3, <2>4
<1>2. reindex' \in [Reindexers -> ReindexState]
  BY <1>0, <1>1
<1>3. \A q \in Reindexers : reindex'[q].at # "idle" => reindex'[q].on \in Notes
  BY <1>0, <1>1 DEF TypeInv, HasNote
<1>4. TypeOK'
  BY <1>1, <1>2 DEF TypeInv, TypeOK, calls, ReindexState
<1>5. HasNote'
  BY <1>1, <1>3 DEF TypeInv, HasNote, calls
<1> QED
  BY <1>4, <1>5 DEF TypeInv

LEMMA CrashTypeInv ==
  ASSUME TypeInv, strayed' \subseteq Notes, NEW p \in Procs, Crashes(p)
  PROVE  TypeInv'
BY ConstantsAssumption DEF TypeInv, TypeOK, HasNote, calls, corpus, Crashes, Critical, Outside

LEMMA EditTypeInv ==
  ASSUME TypeInv, strayed' \subseteq Notes, NEW n \in Notes, NEW topic \in Topics,
         Edits(n, topic)
  PROVE  TypeInv'
BY ConstantsAssumption DEF TypeInv, TypeOK, HasNote, calls, Edits

LEMMA NextTypeInv ==
  ASSUME TypeInv, [Next]_vars
  PROVE  TypeInv'
<1>1. CASE UNCHANGED vars
  BY <1>1 DEF vars, calls, corpus, TypeInv, TypeOK, HasNote
<1>2. CASE Next
  <2>1. strayed' \subseteq Notes
    BY <1>2 DEF Next, Astray, TypeInv, TypeOK
  <2>2. CASE \E w \in Writers : WriterStep(w)
    BY <2>1, <2>2, WriterStepTypeOK, WriterStepHasNote DEF TypeInv
  <2>3. CASE ~ \E w \in Writers : WriterStep(w)
    BY <1>2, <2>1, <2>3, ReindexStepTypeInv, CrashTypeInv, EditTypeInv DEF Next, Step
  <2> QED
    BY <2>2, <2>3
<1> QED
  BY <1>1, <1>2

(* Every variable keeps its type (write-note.js, indexer.js).              *)
THEOREM TypeInvariant == Spec => []TypeOK
<1>1. Init => TypeInv
  BY InitTypeInv
<1>2. TypeInv /\ [Next]_vars => TypeInv'
  BY NextTypeInv
<1>3. TypeInv => TypeOK
  BY DEF TypeInv
<1> QED
  BY <1>1, <1>2, <1>3, PTL DEF Spec

-----------------------------------------------------------------------------
(* The lock.  A call in the critical section owns the row; a call about to *)
(* take the row over has seen the token of a dead process, which no later  *)
(* call ever writes again; a release that is owed concerns a call that has *)
(* left; and no call of a dead process moves.                              *)

Owned == \A w \in Writers : pc[w] \in Critical => lock = w
SeenDead == \A w \in Writers : pc[w] = "steal" => seen[w] \in Writers /\ ~alive[ProcOf[seen[w]]]
OwedLeft == \A w \in owed : pc[w] \in {"retire", "done"}
DeadStill == \A w \in Writers : ~alive[ProcOf[w]] => pc[w] \in {"done", "gone"}

LockInv == TypeInv /\ Owned /\ SeenDead /\ OwedLeft /\ DeadStill /\ LockAccounted

LEMMA InitLockInv ==
  ASSUME Init
  PROVE  LockInv
BY InitTypeInv, ConstantsAssumption
   DEF Init, LockInv, Owned, SeenDead, OwedLeft, DeadStill, LockAccounted, Critical

LEMMA WriterStepLock ==
  ASSUME LockInv, NEW w \in Writers, WriterStep(w)
  PROVE  (Owned /\ SeenDead /\ OwedLeft /\ DeadStill /\ LockAccounted)'
<1> USE ConstantsAssumption DEF LockInv, TypeInv, TypeOK, Owned, SeenDead, OwedLeft, DeadStill,
        LockAccounted, Goes, calls, corpus, Critical, Outside
<1>1. CASE Begins(w)
  BY <1>1 DEF Begins
<1>2. CASE Inserts(w)
  BY <1>2 DEF Inserts, Notes
<1>3. CASE LooksBusy(w)
  BY <1>3 DEF LooksBusy
<1>4. CASE LooksDead(w)
  BY <1>4 DEF LooksDead
<1>5. CASE Steals(w)
  BY <1>5 DEF Steals
<1>6. CASE TriesAgain(w)
  BY <1>6 DEF TriesAgain
<1>7. CASE GivesUp(w)
  BY <1>7 DEF GivesUp
<1>8. CASE ChecksCorpus(w)
  BY <1>8 DEF ChecksCorpus
<1>9. CASE FindsSimilar(w)
  BY <1>9 DEF FindsSimilar
<1>10. CASE SimilarUnavailable(w)
  BY <1>10 DEF SimilarUnavailable
<1>11. CASE \E n \in Notes : CreatesFile(w, n)
  <2>1. PICK n \in Notes : CreatesFile(w, n)
    BY <1>11
  <2> QED
    BY <2>1 DEF CreatesFile
<1>12. CASE CreateFails(w)
  BY <1>12 DEF CreateFails
<1>13. CASE WriterReads(w)
  BY <1>13 DEF WriterReads
<1>14. CASE WriterCommits(w)
  BY <1>14 DEF WriterCommits, Commits
<1>15. CASE WriterEmbeds(w)
  BY <1>15 DEF WriterEmbeds, Embeds
<1>16. CASE IndexFails(w)
  BY <1>16 DEF IndexFails
<1>17. CASE Releases(w)
  BY <1>17 DEF Releases, Leaves
<1>18. CASE ReleaseFails(w)
  BY <1>18 DEF ReleaseFails, Leaves
<1>19. CASE TimerReleases(w)
  BY <1>19 DEF TimerReleases
<1>20. CASE Retires(w)
  BY <1>20 DEF Retires
<1>21. CASE RetireFails(w)
  BY <1>21 DEF RetireFails
<1> QED
  BY <1>1, <1>2, <1>3, <1>4, <1>5, <1>6, <1>7, <1>8, <1>9, <1>10,
     <1>11, <1>12, <1>13, <1>14, <1>15, <1>16, <1>17, <1>18, <1>19, <1>20, <1>21 DEF WriterStep

LEMMA CrashLock ==
  ASSUME LockInv, NEW p \in Procs, Crashes(p)
  PROVE  (Owned /\ SeenDead /\ OwedLeft /\ DeadStill /\ LockAccounted)'
<1> USE ConstantsAssumption DEF LockInv, TypeInv, TypeOK, Crashes, Critical, Outside
<1>1. Owned'
  BY DEF Owned
<1>2. SeenDead'
  BY DEF SeenDead
<1>3. OwedLeft'
  BY DEF OwedLeft
<1>4. DeadStill'
  BY DEF DeadStill
<1>5. LockAccounted'
  BY DEF LockAccounted
<1> QED
  BY <1>1, <1>2, <1>3, <1>4, <1>5

LEMMA NextLockInv ==
  ASSUME LockInv, [Next]_vars
  PROVE  LockInv'
<1>1. TypeInv'
  BY NextTypeInv DEF LockInv
<1>2. ASSUME UNCHANGED <<lock, alive, owed, calls>>
      PROVE  (Owned /\ SeenDead /\ OwedLeft /\ DeadStill /\ LockAccounted)'
  BY <1>2 DEF calls, LockInv, Owned, SeenDead, OwedLeft, DeadStill, LockAccounted
<1>3. CASE UNCHANGED vars
  BY <1>1, <1>2, <1>3 DEF vars, LockInv
<1>4. CASE \E w \in Writers : WriterStep(w)
  BY <1>1, <1>4, WriterStepLock DEF LockInv
<1>5. CASE \E p \in Procs : Crashes(p)
  BY <1>1, <1>5, CrashLock DEF LockInv
<1>6. CASE \E r \in Reindexers :
             \/ \E n \in Notes : ReindexReads(r, n)
             \/ ReindexCommits(r) \/ ReindexEmbeds(r) \/ ReindexFails(r)
  BY <1>1, <1>2, <1>6 DEF LockInv, ReindexReads, ReindexCommits, ReindexEmbeds, ReindexFails
<1>7. CASE \E n \in Notes, topic \in Topics : Edits(n, topic)
  BY <1>1, <1>2, <1>7 DEF LockInv, Edits
<1> QED
  BY <1>3, <1>4, <1>5, <1>6, <1>7 DEF Next, Step

(* writeNote is serialized across processes, through any number of crashes *)
(* and takeovers.                                                          *)
THEOREM MutualExclusion == Spec => []OneWriter
<1>1. Init => LockInv
  BY InitLockInv
<1>2. LockInv /\ [Next]_vars => LockInv'
  BY NextLockInv
<1>3. LockInv => OneWriter
  BY DEF LockInv, Owned, OneWriter
<1> QED
  BY <1>1, <1>2, <1>3, PTL DEF Spec

(* A running process never leaves the lock row behind.                     *)
THEOREM NoLeakedLock == Spec => []LockAccounted
<1>1. Init => LockInv
  BY InitLockInv
<1>2. LockInv /\ [Next]_vars => LockInv'
  BY NextLockInv
<1>3. LockInv => LockAccounted
  BY DEF LockInv
<1> QED
  BY <1>1, <1>2, <1>3, PTL DEF Spec

-----------------------------------------------------------------------------
(* Atomicity.  A call has no note until it creates its file, and a call    *)
(* that retires has one.  A note that never strayed says what its document *)
(* says unless the call in the critical section has just written it: so    *)
(* what a routine call finds in the database is what the vault holds, and  *)
(* stays so until its file is there.                                       *)

Unlanded ==
  \A w \in Writers :
    /\ pc[w] \in {"new", "try", "look", "steal", "wait", "check", "similar", "create"}
         => landed[w] = None
    /\ pc[w] = "retire" => landed[w] # None
Tracked == Astray \subseteq strayed
Held == {n \in Notes \ (retired \cup strayed) : file[n] # None}
SeesAll ==
  \A w \in Writers : pc[w] = "similar" /\ target[w] = None => Held \subseteq embedded
SeesClear ==
  \A w \in Writers : pc[w] = "create" /\ target[w] = None =>
    \A n \in Held : <<file[n], Topic[w]>> \notin Similar

AtomicInv == LockInv /\ Unlanded /\ Tracked /\ SeesAll /\ SeesClear

LEMMA InitAtomicInv ==
  ASSUME Init
  PROVE  AtomicInv
BY InitLockInv DEF Init, AtomicInv, Unlanded, Tracked, Astray, SeesAll, SeesClear

LEMMA WriterStepUnlanded ==
  ASSUME AtomicInv, NEW w \in Writers, WriterStep(w)
  PROVE  Unlanded'
<1> USE ConstantsAssumption DEF AtomicInv, LockInv, TypeInv, TypeOK, Unlanded, Goes, calls, corpus,
        Critical, Outside
<1>1. CASE Begins(w)
  BY <1>1 DEF Begins
<1>2. CASE Inserts(w)
  BY <1>2 DEF Inserts
<1>3. CASE LooksBusy(w)
  BY <1>3 DEF LooksBusy
<1>4. CASE LooksDead(w)
  BY <1>4 DEF LooksDead
<1>5. CASE Steals(w)
  BY <1>5 DEF Steals
<1>6. CASE TriesAgain(w)
  BY <1>6 DEF TriesAgain
<1>7. CASE GivesUp(w)
  BY <1>7 DEF GivesUp
<1>8. CASE ChecksCorpus(w)
  BY <1>8 DEF ChecksCorpus
<1>9. CASE FindsSimilar(w)
  BY <1>9 DEF FindsSimilar
<1>10. CASE SimilarUnavailable(w)
  BY <1>10 DEF SimilarUnavailable
<1>11. CASE \E n \in Notes : CreatesFile(w, n)
  <2>1. PICK n \in Notes : CreatesFile(w, n)
    BY <1>11
  <2> QED
    BY <2>1 DEF CreatesFile
<1>12. CASE CreateFails(w)
  BY <1>12 DEF CreateFails
<1>13. CASE WriterReads(w)
  BY <1>13 DEF WriterReads
<1>14. CASE WriterCommits(w)
  BY <1>14 DEF WriterCommits, Commits
<1>15. CASE WriterEmbeds(w)
  BY <1>15 DEF WriterEmbeds, Embeds
<1>16. CASE IndexFails(w)
  BY <1>16 DEF IndexFails
<1>17. CASE Releases(w)
  BY <1>17 DEF Releases, Leaves
<1>18. CASE ReleaseFails(w)
  BY <1>18 DEF ReleaseFails, Leaves
<1>19. CASE TimerReleases(w)
  BY <1>19 DEF TimerReleases
<1>20. CASE Retires(w)
  BY <1>20 DEF Retires
<1>21. CASE RetireFails(w)
  BY <1>21 DEF RetireFails
<1> QED
  BY <1>1, <1>2, <1>3, <1>4, <1>5, <1>6, <1>7, <1>8, <1>9, <1>10,
     <1>11, <1>12, <1>13, <1>14, <1>15, <1>16, <1>17, <1>18, <1>19, <1>20, <1>21 DEF WriterStep

(* While a routine call is deciding, the notes that never strayed agree    *)
(* with their documents.                                                   *)
LEMMA Agreement ==
  ASSUME AtomicInv, NEW w \in Writers, pc[w] \in {"check", "similar", "create"},
         NEW n \in Notes \ strayed
  PROVE  file[n] = doc[n]
BY ConstantsAssumption
   DEF AtomicInv, LockInv, Owned, Unlanded, Tracked, Astray, Critical

(* No call but the one deciding touches what the decision is about.        *)
LEMMA WriterKeepsCorpus ==
  ASSUME AtomicInv, NEW w \in Writers, WriterStep(w),
         NEW v \in Writers, pc[v] \in {"similar", "create"}, pc'[v] = pc[v]
  PROVE  file' = file /\ doc' = doc /\ embedded' = embedded /\ retired \subseteq retired'
<1>0. /\ pc \in [Writers -> Critical \cup Outside]
      /\ pc[w] \in Critical => w = v
  BY DEF AtomicInv, LockInv, TypeInv, TypeOK, Owned, Critical
<1> USE DEF Goes, corpus, Critical, Outside
<1>1. CASE Begins(w)
  BY <1>0, <1>1 DEF Begins
<1>2. CASE Inserts(w)
  BY <1>0, <1>2 DEF Inserts
<1>3. CASE LooksBusy(w)
  BY <1>0, <1>3 DEF LooksBusy
<1>4. CASE LooksDead(w)
  BY <1>0, <1>4 DEF LooksDead
<1>5. CASE Steals(w)
  BY <1>0, <1>5 DEF Steals
<1>6. CASE TriesAgain(w)
  BY <1>0, <1>6 DEF TriesAgain
<1>7. CASE GivesUp(w)
  BY <1>0, <1>7 DEF GivesUp
<1>8. CASE ChecksCorpus(w)
  BY <1>0, <1>8 DEF ChecksCorpus
<1>9. CASE FindsSimilar(w)
  BY <1>0, <1>9 DEF FindsSimilar
<1>10. CASE SimilarUnavailable(w)
  BY <1>0, <1>10 DEF SimilarUnavailable
<1>11. CASE \E n \in Notes : CreatesFile(w, n)
  <2>1. PICK n \in Notes : CreatesFile(w, n)
    BY <1>11
  <2> QED
    BY <1>0, <2>1 DEF CreatesFile
<1>12. CASE CreateFails(w)
  BY <1>0, <1>12 DEF CreateFails
<1>13. CASE WriterReads(w)
  BY <1>0, <1>13 DEF WriterReads
<1>14. CASE WriterCommits(w)
  BY <1>0, <1>14 DEF WriterCommits, Commits
<1>15. CASE WriterEmbeds(w)
  BY <1>0, <1>15 DEF WriterEmbeds, Embeds
<1>16. CASE IndexFails(w)
  BY <1>0, <1>16 DEF IndexFails
<1>17. CASE Releases(w)
  BY <1>0, <1>17 DEF Releases, Leaves
<1>18. CASE ReleaseFails(w)
  BY <1>0, <1>18 DEF ReleaseFails, Leaves
<1>19. CASE TimerReleases(w)
  BY <1>0, <1>19 DEF TimerReleases
<1>20. CASE Retires(w)
  BY <1>0, <1>20 DEF Retires
<1>21. CASE RetireFails(w)
  BY <1>0, <1>21 DEF RetireFails
<1> QED
  BY <1>1, <1>2, <1>3, <1>4, <1>5, <1>6, <1>7, <1>8, <1>9, <1>10,
     <1>11, <1>12, <1>13, <1>14, <1>15, <1>16, <1>17, <1>18, <1>19, <1>20, <1>21 DEF WriterStep

(* What a deciding call may rely on shrinks, and does not change.          *)
LEMMA HeldShrinks ==
  ASSUME AtomicInv, Next,
         NEW v \in Writers, pc[v] \in {"similar", "create"}, pc'[v] = pc[v],
         NEW n \in Held'
  PROVE  n \in Held /\ file'[n] = file[n] /\ (n \in embedded => n \in embedded')
<1>0. n \in Notes /\ n \notin retired' /\ n \notin strayed' /\ file'[n] # None
  BY DEF Held
<1>1. strayed \subseteq strayed' /\ n \notin strayed
  BY <1>0 DEF Next
<1>2. file[n] = doc[n]
  BY <1>0, <1>1, Agreement
<1>3. SUFFICES /\ retired \subseteq retired'
               /\ file'[n] = file[n]
               /\ n \in embedded => n \in embedded'
  BY <1>0, <1>1 DEF Held
<1>4. CASE \E w \in Writers : WriterStep(w)
  BY <1>4, WriterKeepsCorpus
<1>5. CASE \E p \in Procs : Crashes(p)
  BY <1>5 DEF Crashes, corpus
<1>6. ASSUME NEW r \in Reindexers, NEW m \in Notes, ReindexReads(r, m)
      PROVE  corpus' = corpus
  BY <1>6 DEF ReindexReads
<1>7. ASSUME NEW r \in Reindexers, ReindexCommits(r), strayed' = strayed \cup Astray'
      PROVE  /\ retired \subseteq retired'
             /\ file'[n] = file[n]
             /\ n \in embedded => n \in embedded'
  <2>1. landed' = landed /\ pc' = pc /\ file' = file /\ retired' = retired
    BY <1>7 DEF ReindexCommits, Commits, calls
  <2>2. \A w \in Writers : pc[w] \in Critical => w = v
    BY DEF AtomicInv, LockInv, Owned, Critical
  <2>3. landed[v] = None /\ None \notin Notes
    BY ConstantsAssumption DEF AtomicInv, Unlanded
  <2>4. n \notin Astray'
    BY <1>0, <1>7
  <2>5. doc'[n] = file[n]
    BY <1>0, <2>1, <2>2, <2>3, <2>4 DEF Astray
  <2>6. doc \in [Notes -> Topics \cup {None}]
    BY DEF AtomicInv, LockInv, TypeInv, TypeOK
  <2>7. reindex[r].on = n => doc[n] = reindex[r].copy
    BY <1>0, <1>2, <1>7, <2>5, <2>6 DEF ReindexCommits, Commits
  <2> QED
    BY <1>7, <2>1, <2>7 DEF ReindexCommits, Commits
<1>8. ASSUME NEW r \in Reindexers, ReindexEmbeds(r)
      PROVE  file' = file /\ retired' = retired /\ embedded \subseteq embedded'
  BY <1>8 DEF ReindexEmbeds, Embeds
<1>9. ASSUME NEW r \in Reindexers, ReindexFails(r)
      PROVE  corpus' = corpus
  BY <1>9 DEF ReindexFails
<1>10. ASSUME NEW m \in Notes, NEW topic \in Topics, Edits(m, topic), strayed' = strayed \cup {m}
       PROVE  file'[n] = file[n] /\ retired' = retired /\ embedded' = embedded
  BY <1>0, <1>10 DEF Edits, AtomicInv, LockInv, TypeInv, TypeOK
<1> QED
  BY <1>4, <1>5, <1>6, <1>7, <1>8, <1>9, <1>10 DEF Next, Step, corpus

(* How a routine call comes to decide: it found no gap, then no duplicate. *)
LEMMA EntersSimilar ==
  ASSUME AtomicInv, NEW w \in Writers, WriterStep(w),
         NEW v \in Writers, pc[v] # "similar", pc'[v] = "similar", target'[v] = None
  PROVE  /\ corpus' = corpus /\ pc[v] = "check"
         /\ Gap = {}
<1>0. pc \in [Writers -> Critical \cup Outside]
  BY DEF AtomicInv, LockInv, TypeInv, TypeOK
<1> USE DEF Goes, calls, corpus
<1>1. CASE Begins(w)
  BY <1>0, <1>1 DEF Begins
<1>2. CASE Inserts(w)
  BY <1>0, <1>2 DEF Inserts
<1>3. CASE LooksBusy(w)
  BY <1>0, <1>3 DEF LooksBusy
<1>4. CASE LooksDead(w)
  BY <1>0, <1>4 DEF LooksDead
<1>5. CASE Steals(w)
  BY <1>0, <1>5 DEF Steals
<1>6. CASE TriesAgain(w)
  BY <1>0, <1>6 DEF TriesAgain
<1>7. CASE GivesUp(w)
  BY <1>0, <1>7 DEF GivesUp
<1>8. CASE ChecksCorpus(w)
  BY <1>0, <1>8 DEF ChecksCorpus
<1>9. CASE FindsSimilar(w)
  BY <1>0, <1>9 DEF FindsSimilar
<1>10. CASE SimilarUnavailable(w)
  BY <1>0, <1>10 DEF SimilarUnavailable
<1>11. CASE \E n \in Notes : CreatesFile(w, n)
  <2>1. PICK n \in Notes : CreatesFile(w, n)
    BY <1>11
  <2> QED
    BY <1>0, <2>1 DEF CreatesFile
<1>12. CASE CreateFails(w)
  BY <1>0, <1>12 DEF CreateFails
<1>13. CASE WriterReads(w)
  BY <1>0, <1>13 DEF WriterReads
<1>14. CASE WriterCommits(w)
  BY <1>0, <1>14 DEF WriterCommits, Commits
<1>15. CASE WriterEmbeds(w)
  BY <1>0, <1>15 DEF WriterEmbeds, Embeds
<1>16. CASE IndexFails(w)
  BY <1>0, <1>16 DEF IndexFails
<1>17. CASE Releases(w)
  BY <1>0, <1>17 DEF Releases, Leaves
<1>18. CASE ReleaseFails(w)
  BY <1>0, <1>18 DEF ReleaseFails, Leaves
<1>19. CASE TimerReleases(w)
  BY <1>0, <1>19 DEF TimerReleases
<1>20. CASE Retires(w)
  BY <1>0, <1>20 DEF Retires
<1>21. CASE RetireFails(w)
  BY <1>0, <1>21 DEF RetireFails
<1> QED
  BY <1>1, <1>2, <1>3, <1>4, <1>5, <1>6, <1>7, <1>8, <1>9, <1>10,
     <1>11, <1>12, <1>13, <1>14, <1>15, <1>16, <1>17, <1>18, <1>19, <1>20, <1>21 DEF WriterStep

LEMMA EntersCreate ==
  ASSUME AtomicInv, NEW w \in Writers, WriterStep(w),
         NEW v \in Writers, pc[v] # "create", pc'[v] = "create", target'[v] = None
  PROVE  /\ corpus' = corpus /\ pc[v] = "similar" /\ target[v] = None
         /\ Duplicates(v) = {}
<1>0. pc \in [Writers -> Critical \cup Outside]
  BY DEF AtomicInv, LockInv, TypeInv, TypeOK
<1> USE DEF Goes, calls, corpus
<1>1. CASE Begins(w)
  BY <1>0, <1>1 DEF Begins
<1>2. CASE Inserts(w)
  BY <1>0, <1>2 DEF Inserts
<1>3. CASE LooksBusy(w)
  BY <1>0, <1>3 DEF LooksBusy
<1>4. CASE LooksDead(w)
  BY <1>0, <1>4 DEF LooksDead
<1>5. CASE Steals(w)
  BY <1>0, <1>5 DEF Steals
<1>6. CASE TriesAgain(w)
  BY <1>0, <1>6 DEF TriesAgain
<1>7. CASE GivesUp(w)
  BY <1>0, <1>7 DEF GivesUp
<1>8. CASE ChecksCorpus(w)
  BY <1>0, <1>8 DEF ChecksCorpus
<1>9. CASE FindsSimilar(w)
  BY <1>0, <1>9 DEF FindsSimilar
<1>10. CASE SimilarUnavailable(w)
  BY <1>0, <1>10 DEF SimilarUnavailable
<1>11. CASE \E n \in Notes : CreatesFile(w, n)
  <2>1. PICK n \in Notes : CreatesFile(w, n)
    BY <1>11
  <2> QED
    BY <1>0, <2>1 DEF CreatesFile
<1>12. CASE CreateFails(w)
  BY <1>0, <1>12 DEF CreateFails
<1>13. CASE WriterReads(w)
  BY <1>0, <1>13 DEF WriterReads
<1>14. CASE WriterCommits(w)
  BY <1>0, <1>14 DEF WriterCommits, Commits
<1>15. CASE WriterEmbeds(w)
  BY <1>0, <1>15 DEF WriterEmbeds, Embeds
<1>16. CASE IndexFails(w)
  BY <1>0, <1>16 DEF IndexFails
<1>17. CASE Releases(w)
  BY <1>0, <1>17 DEF Releases, Leaves
<1>18. CASE ReleaseFails(w)
  BY <1>0, <1>18 DEF ReleaseFails, Leaves
<1>19. CASE TimerReleases(w)
  BY <1>0, <1>19 DEF TimerReleases
<1>20. CASE Retires(w)
  BY <1>0, <1>20 DEF Retires
<1>21. CASE RetireFails(w)
  BY <1>0, <1>21 DEF RetireFails
<1> QED
  BY <1>1, <1>2, <1>3, <1>4, <1>5, <1>6, <1>7, <1>8, <1>9, <1>10,
     <1>11, <1>12, <1>13, <1>14, <1>15, <1>16, <1>17, <1>18, <1>19, <1>20, <1>21 DEF WriterStep

LEMMA TargetsStay ==
  ASSUME Next
  PROVE  target' = target /\ strayed \subseteq strayed'
<1>1. ASSUME NEW w \in Writers, WriterStep(w)
      PROVE  target' = target
  BY <1>1 DEF WriterStep, Begins, Inserts, LooksBusy, LooksDead, Steals, TriesAgain, GivesUp,
       ChecksCorpus, FindsSimilar, SimilarUnavailable, CreatesFile, CreateFails, WriterReads,
       WriterCommits, WriterEmbeds, IndexFails, Releases, ReleaseFails, TimerReleases, Retires,
       RetireFails, calls
<1>2. ASSUME ~ \E w \in Writers : WriterStep(w)
      PROVE  target' = target
  BY <1>2 DEF Next, Step, Crashes, ReindexReads, ReindexCommits, ReindexEmbeds, ReindexFails,
       Edits, calls
<1> QED
  BY <1>1, <1>2 DEF Next

(* A step that moves a call to a deciding state is a step of a call.       *)
LEMMA OthersDoNotDecide ==
  ASSUME AtomicInv, Next, NEW v \in Writers, pc'[v] # pc[v], pc'[v] # "gone"
  PROVE  \E w \in Writers : WriterStep(w)
<1>1. pc \in [Writers -> Critical \cup Outside]
  BY DEF AtomicInv, LockInv, TypeInv, TypeOK
<1> QED
  BY <1>1 DEF Next, Step, Crashes, ReindexReads, ReindexCommits, ReindexEmbeds, ReindexFails,
       Edits, calls

LEMMA NextSeesAll ==
  ASSUME AtomicInv, Next
  PROVE  SeesAll'
<1> SUFFICES ASSUME NEW v \in Writers, pc'[v] = "similar", target'[v] = None, NEW n \in Held'
             PROVE  n \in embedded'
  BY DEF SeesAll
<1>1. CASE pc[v] = "similar"
  BY <1>1, HeldShrinks, TargetsStay DEF AtomicInv, SeesAll
<1>2. CASE pc[v] # "similar"
  <2>1. PICK w \in Writers : WriterStep(w)
    BY <1>2, OthersDoNotDecide
  <2>2. corpus' = corpus /\ pc[v] = "check" /\ Gap = {}
    BY <1>2, <2>1, EntersSimilar
  <2>3. n \in Notes /\ n \notin strayed /\ n \notin retired /\ file[n] # None
    BY <2>2, TargetsStay DEF Held, corpus
  <2>4. file[n] = doc[n]
    BY <2>2, <2>3, Agreement
  <2> QED
    BY <2>2, <2>3, <2>4 DEF Gap, Live, corpus
<1> QED
  BY <1>1, <1>2

LEMMA NextSeesClear ==
  ASSUME AtomicInv, Next
  PROVE  SeesClear'
<1> SUFFICES ASSUME NEW v \in Writers, pc'[v] = "create", target'[v] = None, NEW n \in Held'
             PROVE  <<file'[n], Topic[v]>> \notin Similar
  BY DEF SeesClear
<1>1. CASE pc[v] = "create"
  BY <1>1, HeldShrinks, TargetsStay DEF AtomicInv, SeesClear
<1>2. CASE pc[v] # "create"
  <2>1. PICK w \in Writers : WriterStep(w)
    BY <1>2, OthersDoNotDecide
  <2>2. corpus' = corpus /\ pc[v] = "similar" /\ target[v] = None /\ Duplicates(v) = {}
    BY <1>2, <2>1, EntersCreate
  <2>3. n \in Held /\ n \in Notes /\ n \notin strayed /\ n \notin retired /\ file[n] # None
    BY <2>2, TargetsStay DEF Held, corpus
  <2>4. file[n] = doc[n]
    BY <2>2, <2>3, Agreement
  <2>5. n \in embedded
    BY <2>2, <2>3 DEF AtomicInv, SeesAll
  <2> QED
    BY <2>2, <2>3, <2>4, <2>5, ConstantsAssumption DEF Duplicates, Live, corpus
<1> QED
  BY <1>1, <1>2

LEMMA NextAtomicInv ==
  ASSUME AtomicInv, [Next]_vars
  PROVE  AtomicInv'
<1>1. LockInv'
  BY NextLockInv DEF AtomicInv
<1>2. CASE UNCHANGED vars
  BY <1>1, <1>2
     DEF vars, calls, corpus, AtomicInv, Unlanded, Tracked, Astray, SeesAll, SeesClear, Held
<1>3. CASE Next
  <2>1. Unlanded'
    <3>1. CASE \E w \in Writers : WriterStep(w)
      BY <3>1, WriterStepUnlanded
    <3>2. CASE ~ \E w \in Writers : WriterStep(w)
      BY <1>3, <3>2, OthersDoNotDecide DEF AtomicInv, Unlanded, Next, Step, Crashes,
         ReindexReads, ReindexCommits, ReindexEmbeds, ReindexFails, Edits, calls
    <3> QED
      BY <3>1, <3>2
  <2>2. Tracked'
    <3>1. ASSUME NEW n \in Notes, NEW topic \in Topics, Edits(n, topic),
                 strayed' = strayed \cup {n}
          PROVE  Tracked'
      <4>1. \A m \in Notes : m # n => file'[m] = file[m]
        BY <3>1 DEF Edits, AtomicInv, LockInv, TypeInv, TypeOK
      <4> QED
        BY <3>1, <4>1 DEF Edits, AtomicInv, Tracked, Astray, calls
    <3> QED
      BY <1>3, <3>1 DEF Next, Tracked
  <2> QED
    BY <1>1, <1>3, <2>1, <2>2, NextSeesAll, NextSeesClear DEF AtomicInv
<1> QED
  BY <1>2, <1>3

-----------------------------------------------------------------------------
(* The refinement: creating the file is the atomic write, retiring is the  *)
(* atomic retirement, and everything else is the world's or invisible.     *)

LEMMA InitRefines ==
  ASSUME Init
  PROVE  Atomic!Init
<1>1. /\ target \in [Writers -> Notes \cup {None}]
      /\ file \in [Notes -> Topics \cup {None}]
  BY ConstantsAssumption DEF Init
<1>2. Verdict = [w \in Writers |-> "pending"]
  BY DEF Init, Verdict
<1> QED
  BY <1>1, <1>2 DEF Init, Atomic!Init

(* The verdict of a step that creates no file.                             *)
VerdictStep ==
  \A v \in Writers :
    Verdict'[v] # Verdict[v] => Verdict[v] = "pending" /\ Verdict'[v] = "ended"

LEMMA UnseenStep ==
  ASSUME landed' = landed,
         \A v \in Writers : pc[v] \in {"done", "gone"} => pc'[v] \in {"done", "gone"}
  PROVE  VerdictStep
BY DEF VerdictStep, Verdict

(* What calls do besides creating a file or retiring.                      *)
LEMMA WriterStepUnseen ==
  ASSUME AtomicInv, NEW w \in Writers, WriterStep(w),
         ~ \E n \in Notes : CreatesFile(w, n), ~Retires(w)
  PROVE  /\ file' = file /\ retired' = retired /\ landed' = landed
         /\ \A v \in Writers : pc[v] \in {"done", "gone"} => pc'[v] \in {"done", "gone"}
<1>0. pc \in [Writers -> Critical \cup Outside]
  BY DEF AtomicInv, LockInv, TypeInv, TypeOK
<1> USE DEF Goes, calls, corpus
<1>1. CASE Begins(w)
  BY <1>0, <1>1 DEF Begins
<1>2. CASE Inserts(w)
  BY <1>0, <1>2 DEF Inserts
<1>3. CASE LooksBusy(w)
  BY <1>0, <1>3 DEF LooksBusy
<1>4. CASE LooksDead(w)
  BY <1>0, <1>4 DEF LooksDead
<1>5. CASE Steals(w)
  BY <1>0, <1>5 DEF Steals
<1>6. CASE TriesAgain(w)
  BY <1>0, <1>6 DEF TriesAgain
<1>7. CASE GivesUp(w)
  BY <1>0, <1>7 DEF GivesUp
<1>8. CASE ChecksCorpus(w)
  BY <1>0, <1>8 DEF ChecksCorpus
<1>9. CASE FindsSimilar(w)
  BY <1>0, <1>9 DEF FindsSimilar
<1>10. CASE SimilarUnavailable(w)
  BY <1>0, <1>10 DEF SimilarUnavailable
<1>11. CASE \E n \in Notes : CreatesFile(w, n)
  BY <1>11
<1>12. CASE CreateFails(w)
  BY <1>0, <1>12 DEF CreateFails
<1>13. CASE WriterReads(w)
  BY <1>0, <1>13 DEF WriterReads
<1>14. CASE WriterCommits(w)
  BY <1>0, <1>14 DEF WriterCommits, Commits
<1>15. CASE WriterEmbeds(w)
  BY <1>0, <1>15 DEF WriterEmbeds, Embeds
<1>16. CASE IndexFails(w)
  BY <1>0, <1>16 DEF IndexFails
<1>17. CASE Releases(w)
  BY <1>0, <1>17 DEF Releases, Leaves
<1>18. CASE ReleaseFails(w)
  BY <1>0, <1>18 DEF ReleaseFails, Leaves
<1>19. CASE TimerReleases(w)
  BY <1>0, <1>19 DEF TimerReleases
<1>20. CASE Retires(w)
  BY <1>20
<1>21. CASE RetireFails(w)
  BY <1>0, <1>21 DEF RetireFails
<1> QED
  BY <1>1, <1>2, <1>3, <1>4, <1>5, <1>6, <1>7, <1>8, <1>9, <1>10,
     <1>11, <1>12, <1>13, <1>14, <1>15, <1>16, <1>17, <1>18, <1>19, <1>20, <1>21 DEF WriterStep

LEMMA CreateRefines ==
  ASSUME AtomicInv, NEW w \in Writers, NEW n \in Notes, CreatesFile(w, n),
         strayed' = strayed \cup Astray'
  PROVE  Atomic!Creates(w) \/ Atomic!Corrects(w)
<1> USE ConstantsAssumption
<1>1. /\ pc[w] = "create" /\ landed[w] = None /\ n \in {w, target[w]}
      /\ file' = [file EXCEPT ![n] = Topic[w]]
      /\ landed' = [landed EXCEPT ![w] = n] /\ pc' = [pc EXCEPT ![w] = "index"]
      /\ UNCHANGED <<target, doc, retired>>
  BY DEF CreatesFile, Goes, AtomicInv, Unlanded
<1>2. /\ file \in [Notes -> Topics \cup {None}]
      /\ landed \in [Writers -> Notes \cup {None}]
      /\ pc \in [Writers -> Critical \cup Outside]
      /\ None \notin Notes
  BY DEF AtomicInv, LockInv, TypeInv, TypeOK
<1>3. strayed' = strayed
  <2> SUFFICES ASSUME NEW m \in Astray', m \notin strayed
               PROVE  FALSE
    BY DEF CreatesFile
  <2>1. m \in Notes /\ file'[m] # doc'[m]
    BY DEF Astray
  <2>2. m # n
    BY <1>1, <1>2 DEF Astray, Critical
  <2>3. file[m] = doc[m]
    BY <1>1, <2>1, Agreement
  <2> QED
    BY <1>1, <1>2, <2>1, <2>2, <2>3
<1>4. Verdict[w] = "pending" /\ Verdict' = [Verdict EXCEPT ![w] = "written"]
  BY <1>1, <1>2 DEF Verdict
<1>5. Atomic!Writes(w, n)
  BY <1>1, <1>3, <1>4 DEF Atomic!Writes
<1>6. CASE target[w] = None
  <2>1. n = w
    BY <1>1, <1>2, <1>6
  <2>2. \A m \in Atomic!Held : <<file[m], Topic[w]>> \notin Similar
    BY <1>1, <1>6 DEF Atomic!Held, Held, AtomicInv, SeesClear
  <2> QED
    BY <1>5, <1>6, <2>1, <2>2 DEF Atomic!Creates
<1>7. CASE target[w] # None
  BY <1>1, <1>5, <1>7 DEF Atomic!Corrects
<1> QED
  BY <1>6, <1>7

LEMMA RetireRefines ==
  ASSUME AtomicInv, NEW w \in Writers, Retires(w), strayed' = strayed \cup Astray'
  PROVE  \E n \in Notes : Atomic!Retires(n)
<1>1. /\ pc[w] = "retire" /\ pc' = [pc EXCEPT ![w] = "done"]
      /\ retired' = retired \cup {target[w]}
      /\ UNCHANGED <<file, doc, landed, target>>
  BY DEF Retires, Goes
<1>2. target[w] \in Notes /\ landed[w] # None
  BY <1>1 DEF AtomicInv, LockInv, TypeInv, HasNote, Unlanded
<1>3. pc \in [Writers -> Critical \cup Outside]
  BY DEF AtomicInv, LockInv, TypeInv, TypeOK
<1>4. strayed' = strayed
  BY <1>1, <1>3 DEF Astray, AtomicInv, Tracked, Critical
<1>5. Verdict' = Verdict
  BY <1>1, <1>2, <1>3 DEF Verdict
<1> QED
  BY <1>1, <1>2, <1>4, <1>5 DEF Atomic!Retires

LEMMA NextRefines ==
  ASSUME AtomicInv, [Next]_vars
  PROVE  [Atomic!Next]_Atomic!vars
<1>0. pc \in [Writers -> Critical \cup Outside]
  BY DEF AtomicInv, LockInv, TypeInv, TypeOK
<1>1. CASE UNCHANGED vars
  BY <1>1 DEF vars, calls, corpus, Atomic!vars, Verdict
<1>2. CASE Next
  <2>1. ASSUME retired' = retired, VerdictStep,
               \A n \in Notes \ strayed' : file'[n] = file[n]
        PROVE  Atomic!World
    BY <1>2, <2>1, TargetsStay DEF Atomic!World, VerdictStep
  <2>2. ASSUME NEW w \in Writers, WriterStep(w), strayed' = strayed \cup Astray'
        PROVE  Atomic!Next
    <3>1. CASE \E n \in Notes : CreatesFile(w, n)
      BY <2>2, <3>1, CreateRefines DEF Atomic!Next
    <3>2. CASE Retires(w)
      BY <2>2, <3>2, RetireRefines DEF Atomic!Next
    <3>3. CASE ~(\E n \in Notes : CreatesFile(w, n)) /\ ~Retires(w)
      <4>1. /\ file' = file /\ retired' = retired /\ landed' = landed
            /\ \A v \in Writers : pc[v] \in {"done", "gone"} => pc'[v] \in {"done", "gone"}
        BY <2>2, <3>3, WriterStepUnseen
      <4>2. VerdictStep
        BY <4>1, UnseenStep
      <4> QED
        BY <2>1, <4>1, <4>2 DEF Atomic!Next
    <3> QED
      BY <3>1, <3>2, <3>3
  <2>3. ASSUME ~ \E w \in Writers : WriterStep(w) /\ strayed' = strayed \cup Astray'
        PROVE  Atomic!Next
    <3>1. landed' = landed /\ retired' = retired
      BY <1>2, <2>3 DEF Next, Step, Crashes, ReindexReads, ReindexCommits, ReindexEmbeds,
         ReindexFails, Commits, Embeds, Edits, calls, corpus
    <3>2. \A v \in Writers : pc[v] \in {"done", "gone"} => pc'[v] \in {"done", "gone"}
      BY <1>0, <1>2, <2>3 DEF Next, Step, Crashes, ReindexReads, ReindexCommits, ReindexEmbeds,
         ReindexFails, Edits, calls
    <3>3. VerdictStep
      BY <3>1, <3>2, UnseenStep
    <3>4. ASSUME NEW m \in Notes, NEW topic \in Topics, Edits(m, topic),
                 strayed' = strayed \cup {m}, NEW n \in Notes \ strayed'
          PROVE  file'[n] = file[n]
      BY <3>4 DEF Edits, AtomicInv, LockInv, TypeInv, TypeOK
    <3>5. \A n \in Notes \ strayed' : file'[n] = file[n]
      BY <1>2, <2>3, <3>4 DEF Next, Step, Crashes, ReindexReads, ReindexCommits, ReindexEmbeds,
         ReindexFails, Commits, Embeds, corpus
    <3> QED
      BY <2>1, <3>1, <3>3, <3>5 DEF Atomic!Next
  <2> QED
    BY <1>2, <2>2, <2>3 DEF Next, Step
<1> QED
  BY <1>1, <1>2

(* A routine write is as if it checked the corpus and created its note in  *)
(* one step, whatever the other processes, reindexes and crashes do.       *)
THEOREM AtomicWrites == Spec => WritesAreAtomic
<1>1. Init => AtomicInv /\ Atomic!Init
  BY InitAtomicInv, InitRefines
<1>2. AtomicInv /\ [Next]_vars => AtomicInv'
  BY NextAtomicInv
<1>3. AtomicInv /\ [Next]_vars => [Atomic!Next]_Atomic!vars
  BY NextRefines
<1> QED
  BY <1>1, <1>2, <1>3, PTL DEF Spec, WritesAreAtomic, Atomic!Spec

-----------------------------------------------------------------------------
(* No duplicates.  A correction with a full verdict has seen as much as a  *)
(* routine call: when it comes to create its note nothing but its target   *)
(* holds the same ground.  So a file that says something new was compared  *)
(* with every note that is still live and has not strayed, and neither it  *)
(* nor they say anything else since.                                       *)

SeesClearBeside ==
  \A w \in Writers : pc[w] = "create" /\ w \notin blind =>
    \A n \in Held \ {target[w]} : <<file[n], Topic[w]>> \notin Similar

DuplicateInv == AtomicInv /\ SeesClearBeside /\ DuplicateFree

LEMMA EntersCreateSighted ==
  ASSUME AtomicInv, NEW w \in Writers, WriterStep(w),
         NEW v \in Writers, pc[v] # "create", pc'[v] = "create", v \notin blind'
  PROVE  /\ corpus' = corpus /\ pc[v] = "similar" /\ Duplicates(v) = {}
         /\ target[v] # None => Gap = {}
<1>0. pc \in [Writers -> Critical \cup Outside]
  BY DEF AtomicInv, LockInv, TypeInv, TypeOK
<1> USE DEF Goes
<1>1. CASE FindsSimilar(w)
  BY <1>0, <1>1 DEF FindsSimilar
<1>2. CASE SimilarUnavailable(w)
  <2>1. v = w /\ target[v] = None
    BY <1>0, <1>2 DEF SimilarUnavailable
  <2> QED
    BY <1>0, <1>2, <2>1 DEF SimilarUnavailable
<1>3. CASE \E n \in Notes : CreatesFile(w, n)
  BY <1>0, <1>3 DEF CreatesFile
<1>4. CASE ~FindsSimilar(w) /\ ~SimilarUnavailable(w) /\ ~ \E n \in Notes : CreatesFile(w, n)
  BY <1>0, <1>4 DEF WriterStep, Begins, Inserts, LooksBusy, LooksDead, Steals, TriesAgain,
       GivesUp, ChecksCorpus, CreateFails, WriterReads, WriterCommits, WriterEmbeds, IndexFails,
       Releases, ReleaseFails, Leaves, TimerReleases, Retires, RetireFails, calls
<1> QED
  BY <1>1, <1>2, <1>3, <1>4

(* Only a call that decides is ever entered as a blind one.                *)
LEMMA BlindStep ==
  ASSUME Next
  PROVE  /\ blind \subseteq blind'
         /\ \A v \in blind' \ blind : pc[v] = "similar"
<1>1. ASSUME NEW w \in Writers, FindsSimilar(w) \/ SimilarUnavailable(w)
      PROVE  blind \subseteq blind' /\ \A v \in blind' \ blind : pc[v] = "similar"
  BY <1>1 DEF FindsSimilar, SimilarUnavailable
<1>2. ASSUME NEW w \in Writers, WriterStep(w), ~FindsSimilar(w), ~SimilarUnavailable(w)
      PROVE  blind' = blind
  BY <1>2 DEF WriterStep, Begins, Inserts, LooksBusy, LooksDead, Steals, TriesAgain, GivesUp,
       ChecksCorpus, CreatesFile, CreateFails, WriterReads, WriterCommits, WriterEmbeds,
       IndexFails, Releases, ReleaseFails, TimerReleases, Retires, RetireFails, calls
<1>3. ASSUME ~ \E w \in Writers : WriterStep(w)
      PROVE  blind' = blind
  BY <1>3 DEF Next, Step, Crashes, ReindexReads, ReindexCommits, ReindexEmbeds, ReindexFails,
       Edits, calls
<1> QED
  BY <1>1, <1>2, <1>3

LEMMA NextSeesClearBeside ==
  ASSUME AtomicInv, SeesClearBeside, Next
  PROVE  SeesClearBeside'
<1> SUFFICES ASSUME NEW v \in Writers, pc'[v] = "create", v \notin blind',
                    NEW n \in Held' \ {target'[v]}
             PROVE  <<file'[n], Topic[v]>> \notin Similar
  BY DEF SeesClearBeside
<1>0. v \notin blind /\ n # target[v]
  BY BlindStep, TargetsStay
<1>1. CASE pc[v] = "create"
  BY <1>0, <1>1, HeldShrinks DEF SeesClearBeside
<1>2. CASE pc[v] # "create"
  <2>1. PICK w \in Writers : WriterStep(w)
    BY <1>2, OthersDoNotDecide
  <2>2. /\ corpus' = corpus /\ pc[v] = "similar" /\ Duplicates(v) = {}
        /\ target[v] # None => Gap = {}
    BY <1>2, <2>1, EntersCreateSighted
  <2>3. n \in Held /\ n \in Notes /\ n \notin strayed /\ n \notin retired /\ file[n] # None
    BY <2>2, TargetsStay DEF Held, corpus
  <2>4. file[n] = doc[n]
    BY <2>2, <2>3, Agreement
  <2>5. n \in embedded
    BY <2>2, <2>3, <2>4 DEF AtomicInv, SeesAll, Gap, Live
  <2> QED
    BY <1>0, <2>2, <2>3, <2>4, <2>5 DEF Duplicates, Live, corpus
<1> QED
  BY <1>1, <1>2

(* A step that writes no note leaves every kept pair as it was.            *)
LEMMA UnwrittenDuplicateFree ==
  ASSUME AtomicInv, DuplicateFree, Next, landed' = landed, retired \subseteq retired',
         \A n \in Notes \ strayed' : file'[n] = file[n]
  PROVE  DuplicateFree'
<1> SUFFICES ASSUME NEW n \in Kept', NEW m \in Kept', n # m, (Written(n) \/ Written(m))',
                    ~Correction(n, m)', ~Correction(m, n)'
             PROVE  ~Alike(file'[n], file'[m])
  BY DEF DuplicateFree
<1>1. target' = target /\ strayed \subseteq strayed' /\ blind \subseteq blind'
  BY TargetsStay, BlindStep
<1>2. ASSUME NEW k \in Kept' PROVE k \in Kept /\ file'[k] = file[k]
  <2>1. k \in Notes /\ k \notin retired' /\ k \notin strayed' /\ file'[k] # None /\ ~Blind(k)'
    BY <1>2 DEF Kept
  <2>2. ~Blind(k)
    BY <1>1, <2>1 DEF Blind
  <2> QED
    BY <1>1, <2>1, <2>2 DEF Kept
<1>3. /\ Written(n) \/ Written(m)
      /\ ~Correction(n, m) /\ ~Correction(m, n)
  BY <1>1 DEF Written, Correction
<1> QED
  BY <1>2, <1>3 DEF DuplicateFree

LEMMA CreateDuplicateFree ==
  ASSUME DuplicateInv, NEW w \in Writers, NEW f \in Notes, CreatesFile(w, f),
         strayed \subseteq strayed'
  PROVE  DuplicateFree'
<1>1. /\ pc[w] = "create" /\ landed[w] = None
      /\ file' = [file EXCEPT ![f] = Topic[w]]
      /\ landed' = [landed EXCEPT ![w] = f]
      /\ UNCHANGED <<target, retired, blind>>
  BY DEF CreatesFile, DuplicateInv, AtomicInv, Unlanded
<1>2. /\ file \in [Notes -> Topics \cup {None}]
      /\ landed \in [Writers -> Notes \cup {None}]
      /\ None \notin Notes /\ Topic[w] \in Topics /\ None \notin Topics
  BY ConstantsAssumption DEF DuplicateInv, AtomicInv, LockInv, TypeInv, TypeOK
<1>3. landed'[w] = f /\ \A v \in Writers : v # w => landed'[v] = landed[v]
  BY <1>1, <1>2
<1>4. ASSUME NEW k \in Kept', k # f
      PROVE  k \in Kept /\ k \in Held /\ file'[k] = file[k] /\ file[k] \in Topics
  <2>1. k \in Notes /\ k \notin retired' /\ k \notin strayed' /\ file'[k] # None /\ ~Blind(k)'
    BY <1>4 DEF Kept
  <2>2. file'[k] = file[k] /\ file[k] \in Topics
    BY <1>1, <1>2, <1>4, <2>1
  <2>3. ~Blind(k)
    BY <1>1, <1>2, <1>3, <2>1 DEF Blind
  <2> QED
    BY <1>1, <2>1, <2>2, <2>3 DEF Kept, Held
<1>5. ASSUME NEW k \in Kept', k # f, f \in Kept', ~Correction(f, k)'
      PROVE  ~Alike(file'[k], file'[f]) /\ ~Alike(file'[f], file'[k])
  <2>1. w \notin blind
    BY <1>1, <1>3, <1>5 DEF Kept, Blind
  <2>2. k # target[w]
    BY <1>1, <1>3, <1>5 DEF Correction
  <2>3. k \in Held /\ file'[k] = file[k] /\ file[k] \in Topics /\ file'[f] = Topic[w]
    BY <1>1, <1>2, <1>4, <1>5
  <2>4. <<file[k], Topic[w]>> \notin Similar
    BY <1>1, <2>1, <2>2, <2>3 DEF DuplicateInv, SeesClearBeside
  <2> QED
    BY <2>3, <2>4 DEF Alike
<1>6. ASSUME NEW n \in Kept', NEW m \in Kept', n # m, n # f, m # f, (Written(n) \/ Written(m))',
             ~Correction(n, m)', ~Correction(m, n)'
      PROVE  ~Alike(file'[n], file'[m])
  <2>1. Written(n) \/ Written(m)
    BY <1>3, <1>6 DEF Written
  <2>2. ~Correction(n, m) /\ ~Correction(m, n)
    BY <1>1, <1>2, <1>3, <1>6 DEF Correction, Kept
  <2> QED
    BY <1>4, <1>6, <2>1, <2>2 DEF DuplicateInv, DuplicateFree
<1> QED
  BY <1>5, <1>6 DEF DuplicateFree

LEMMA NextDuplicateInv ==
  ASSUME DuplicateInv, [Next]_vars
  PROVE  DuplicateInv'
<1>1. AtomicInv'
  BY NextAtomicInv DEF DuplicateInv
<1>2. CASE UNCHANGED vars
  BY <1>1, <1>2 DEF DuplicateInv, vars, calls, corpus, SeesClearBeside, Held, DuplicateFree,
     Kept, Blind, Written, Correction
<1>3. CASE Next
  <2>1. SeesClearBeside'
    BY <1>3, NextSeesClearBeside DEF DuplicateInv
  <2>2. CASE \E w \in Writers, n \in Notes : CreatesFile(w, n)
    BY <1>1, <1>3, <2>1, <2>2, TargetsStay, CreateDuplicateFree DEF DuplicateInv
  <2>3. CASE ~ \E w \in Writers, n \in Notes : CreatesFile(w, n)
    <3>1. landed' = landed /\ retired \subseteq retired'
      <4>1. ASSUME NEW w \in Writers, WriterStep(w)
            PROVE  landed' = landed /\ retired \subseteq retired'
        <5>1. CASE Retires(w)
          BY <5>1 DEF Retires
        <5>2. CASE ~Retires(w)
          BY <2>3, <4>1, <5>2, WriterStepUnseen DEF DuplicateInv
        <5> QED
          BY <5>1, <5>2
      <4>2. ASSUME ~ \E w \in Writers : WriterStep(w)
            PROVE  landed' = landed /\ retired \subseteq retired'
        BY <1>3, <4>2 DEF Next, Step, Crashes, ReindexReads, ReindexCommits, ReindexEmbeds,
           ReindexFails, Commits, Embeds, Edits, calls, corpus
      <4> QED
        BY <4>1, <4>2
    <3>2. \A n \in Notes \ strayed' : file'[n] = file[n]
      <4>1. ASSUME NEW w \in Writers, WriterStep(w) PROVE file' = file
        <5>1. CASE Retires(w)
          BY <5>1 DEF Retires
        <5>2. CASE ~Retires(w)
          BY <2>3, <4>1, <5>2, WriterStepUnseen DEF DuplicateInv
        <5> QED
          BY <5>1, <5>2
      <4>2. ASSUME NEW m \in Notes, NEW topic \in Topics, Edits(m, topic),
                   strayed' = strayed \cup {m}, NEW n \in Notes \ strayed'
            PROVE  file'[n] = file[n]
        BY <4>2 DEF Edits, DuplicateInv, AtomicInv, LockInv, TypeInv, TypeOK
      <4>3. ASSUME ~ \E w \in Writers : WriterStep(w), Step PROVE file' = file
        BY <4>3 DEF Step, Crashes, ReindexReads, ReindexCommits, ReindexEmbeds,
           ReindexFails, Commits, Embeds, corpus
      <4> QED
        BY <1>3, <4>1, <4>2, <4>3 DEF Next
    <3> QED
      BY <1>1, <1>3, <2>1, <3>1, <3>2, UnwrittenDuplicateFree DEF DuplicateInv
  <2> QED
    BY <2>2, <2>3
<1> QED
  BY <1>2, <1>3

(* Dedup holds across processes: whatever calls, reindexes, crashes and    *)
(* edits by hand interleave, a note a call wrote is no duplicate of a live *)
(* note, but for the exceptions the property names.                        *)
THEOREM NoDuplicates == Spec => []DuplicateFree
<1>1. Init => DuplicateInv
  <2>1. ASSUME Init PROVE ~ \E n : Written(n) /\ n \in Notes
    BY <2>1, ConstantsAssumption DEF Init, Written
  <2>2. ASSUME Init PROVE DuplicateFree
    BY <2>1, <2>2 DEF DuplicateFree, Kept
  <2>3. ASSUME Init PROVE SeesClearBeside
    BY <2>3 DEF Init, SeesClearBeside
  <2> QED
    BY <2>2, <2>3, InitAtomicInv DEF DuplicateInv
<1>2. DuplicateInv /\ [Next]_vars => DuplicateInv'
  BY NextDuplicateInv
<1>3. DuplicateInv => DuplicateFree
  BY DEF DuplicateInv
<1> QED
  BY <1>1, <1>2, <1>3, PTL DEF Spec
=============================================================================
