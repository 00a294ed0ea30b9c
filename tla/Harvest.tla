------------------------------- MODULE Harvest -------------------------------
(***************************************************************************)
(* The transcript harvest (src/harvest.js).  A sweep (the nightly job)     *)
(* selects transcripts whose session has gone quiet, a bounded number per  *)
(* run and in rotation; a capture (the daemon's drain, see SessionCapture) *)
(* is told which one to read.  Either reads a transcript chunk by chunk,   *)
(* in a facts pass if facts are wanted and in a lessons pass, records each *)
(* chunk it has finished in a ledger, and when nothing of the text is left *)
(* to read writes a watermark, after which sweeps pass the transcript by.  *)
(* Runs of several processes share the ledger and the watermarks, and      *)
(* transcripts grow under their hands.                                     *)
(*                                                                         *)
(* Text is counted in units of which a transcript only ever gets more, so  *)
(* where a chunk starts and ends says what is in it (the code has its hash *)
(* as well).  A chunk that was cut short by the end of the text is another *)
(* chunk once the text goes on.                                            *)
(***************************************************************************)
EXTENDS FiniteSets, FiniteSetsExt, Integers

CONSTANTS
  Transcripts,  \* paths: numbers, by the order in which they were written
  Healthy,      \* transcripts that can be read and extracted, in the end
  Sweepers,     \* processes that run the nightly job
  Captures,     \* processes that harvest one path
  WantFacts,    \* the values of KB_HARVEST_FACTS that sweeps may find
  None,         \* no watermark, no cursor
  Lengths,      \* how long a transcript may be at first
  Parsers,      \* the older watermarks there may be, see Watermark
  Size,         \* LESSON_CHARS and CHUNK_CHARS, by pass
  PerRun,       \* MAX_LESSON_CHUNKS_PER_RUN and MAX_CHUNKS, by pass
  MinText,      \* MIN_TEXT_CHARS
  MaxSessions,  \* MAX_SESSIONS_PER_RUN
  MaxGrowth,    \* bound: how often transcripts change
  MaxCrashes    \* bound: how often a run dies

Runs == Sweepers \cup Captures
Passes == {"facts", "lessons"}

ASSUME ConstantsAssumption ==
  /\ Transcripts \subseteq Nat
  /\ IsFiniteSet(Transcripts)
  /\ Healthy \subseteq Transcripts
  /\ Sweepers \cap Captures = {}
  /\ WantFacts \subseteq BOOLEAN
  /\ Lengths \subseteq Nat
  /\ Parsers \subseteq {"empty", "noted"}
  /\ Size \in [Passes -> Nat \ {0}]
  /\ PerRun \in [Passes -> Nat \ {0}]
  /\ MinText \in Nat
  /\ MaxSessions \in Nat \ {0}
  /\ MaxGrowth \in Nat
  /\ MaxCrashes \in Nat

(* What a run knows of a transcript it works on: when it was last changed, *)
(* and (history) how long its text was then.                               *)
Candidate == [path : Transcripts, mtime : Nat, upto : Nat]

(* A row of harvest_log.  facts = FALSE is a NULL facts_added.  Rows of an *)
(* older parser say nothing of the ledger: "empty" if they counted no note.*)
Watermark == [mtime : Nat, upto : Nat, facts : BOOLEAN,
              parser : {"current", "empty", "noted"}]

ASSUME NoneAssumption ==
  None \notin Watermark \cup Candidate \cup [path : Transcripts, mtime : Nat]

Chunk == [start : Nat, end : Nat]

VARIABLES
  len,      \* the length of each transcript's text
  mtime,    \* when it was last changed
  age,      \* inflight (QUIESCENT_MS), recent (sinceHours) or old
  ledger,   \* harvest_chunk_log: the chunks finished, by transcript and pass
  log,      \* harvest_log: the watermarks
  cursor,   \* meta[HARVEST_CURSOR_META_KEY]
  run,      \* what each run is doing
  grown,    \* changes of transcripts so far, up to MaxGrowth
  crashes   \* runs that died so far, up to MaxCrashes

text == <<len, mtime, age, grown>>
store == <<ledger, log>>
vars == <<text, store, cursor, run, crashes>>

Idle == [at |-> "idle", facts |-> FALSE, on |-> None, work |-> {}, read |-> 0, todo |-> {}, short |-> FALSE]

Busy(on, work, facts) ==
  [at |-> "read", facts |-> facts, on |-> on, work |-> work, read |-> 0, todo |-> {}, short |-> FALSE]

(* on is the transcript a run is busy with, work what it will turn to then;*)
(* read is how much text was read; short says that something of it failed, *)
(* or was left over by the facts pass.                                     *)
RunState ==
  {x \in [at : {"idle", "read", "facts", "plan", "lessons"}, facts : BOOLEAN,
          on : Candidate \cup {None}, work : SUBSET Candidate,
          read : Nat, todo : SUBSET Chunk, short : BOOLEAN] :
     (x.at = "idle") = (x.on = None)}

TypeOK ==
  /\ len \in [Transcripts -> Nat]
  /\ mtime \in [Transcripts -> Nat]
  /\ age \in [Transcripts -> {"inflight", "recent", "old"}]
  /\ ledger \in [Transcripts -> [Passes -> SUBSET Chunk]]
  /\ log \in [Transcripts -> Watermark \cup {None}]
  /\ cursor \in [path : Transcripts, mtime : Nat] \cup {None}
  /\ run \in [Runs -> RunState]
  /\ grown \in 0..MaxGrowth
  /\ crashes \in 0..MaxCrashes

(* Transcripts written before this version ran, some with the watermark of *)
(* an older one.                                                           *)
Init ==
  /\ len \in [Transcripts -> Lengths]
  /\ mtime = [t \in Transcripts |-> t]
  /\ age = [t \in Transcripts |-> "inflight"]
  /\ ledger = [t \in Transcripts |-> [pass \in Passes |-> {}]]
  /\ \E parser \in [Transcripts -> Parsers \cup {"none"}] :
       log = [t \in Transcripts |->
                IF parser[t] = "none" THEN None
                ELSE [mtime |-> t, upto |-> 0, facts |-> FALSE, parser |-> parser[t]]]
  /\ cursor = None
  /\ run = [r \in Runs |-> Idle]
  /\ grown = 0
  /\ crashes = 0

-----------------------------------------------------------------------------
(* Chunks and coverage.                                                    *)

Shorter(m, n) == IF m <= n THEN m ELSE n

(* chunkTextWithIdentity of a text of length n.                            *)
Chunks(pass, n) ==
  {[start |-> i, end |-> Shorter(n, i + Size[pass])] : i \in {i \in 0..(n - 1) : i % Size[pass] = 0}}

Pending(t, pass, n) == Chunks(pass, n) \ ledger[t][pass]

(* The first k of a set of chunks.                                         *)
FirstFew(S, k) == {c \in S : Cardinality({d \in S : d.start < c.start}) < k}

Covered(t, facts, n) ==
  /\ Pending(t, "lessons", n) = {}
  /\ facts => Pending(t, "facts", n) = {}

-----------------------------------------------------------------------------
(* Selection.                                                              *)

(* stillPending: no watermark, one that the transcript has outgrown, one   *)
(* an older parser left where it found nothing, one without the facts.     *)
StillPending(t, facts) ==
  \/ log[t] = None
  \/ log[t].mtime < mtime[t]
  \/ /\ log[t].parser = "empty"
     /\ \A pass \in Passes : ledger[t][pass] = {}
     /\ len[t] >= MinText
  \/ facts /\ ~log[t].facts

(* isHistoricalBackfillCandidate: watermarks are not believed out here.    *)
Backfills(t, facts) == len[t] >= MinText /\ ~Covered(t, facts, len[t])

Recent(facts) == {t \in Transcripts : age[t] = "recent" /\ StillPending(t, facts)}
Historical == {t \in Transcripts : age[t] = "old"}

Known(t) == [path |-> t, mtime |-> mtime[t], upto |-> len[t]]

(* Mutant: every run starts from the oldest.                               *)
BeforeNever(s, t) == mtime[s] < mtime[t]

(* rotateAfterCursor: by age, but what is later than the cursor comes      *)
(* first.  The transcript it names may have changed since.                 *)
Before(s, t) ==
  LET ahead(u) == cursor # None /\ mtime[u] > cursor.mtime
  IN IF ahead(s) = ahead(t) THEN mtime[s] < mtime[t] ELSE ahead(s)

FirstOf(S, k) == {t \in S : Cardinality({s \in S : Before(s, t)}) < k}

(* The old ones are read and parsed to see if anything is missing, so only *)
(* so many are looked at.                                                  *)
Looked == FirstOf(Historical, MaxSessions)
Wanted(facts) == Recent(facts) \cup {t \in Looked : Backfills(t, facts)}

(* The scan: it ends when there is enough work.                            *)
Scanned(facts) ==
  {t \in Recent(facts) \cup Looked :
     Cardinality({s \in Wanted(facts) : Before(s, t)}) < MaxSessions}

(* Where the next scan starts: the old ones alone move the cursor once the *)
(* scan has come to one.  It stays where it is if there is little to do.   *)
Moves(facts) ==
  LET seen == IF Scanned(facts) \cap Looked = {} THEN Scanned(facts) ELSE Scanned(facts) \cap Looked
      last == {t \in seen : \A s \in seen : s = t \/ Before(s, t)}
  IN IF Historical = {} /\ Cardinality(Recent(facts)) <= MaxSessions THEN {} ELSE last

(* The next of the work, the oldest first.                                 *)
Works(r, work, facts) ==
  \/ /\ work = {}
     /\ run' = [run EXCEPT ![r] = Idle]
  \/ \E c \in work :
       /\ \A d \in work : c.mtime <= d.mtime
       /\ run' = [run EXCEPT ![r] = Busy(c, work \ {c}, facts)]

(* selectHarvestWork.                                                      *)
Sweeps(r, facts) ==
  /\ run[r].at = "idle"
  /\ Works(r, {Known(t) : t \in FirstOf(Wanted(facts), MaxSessions)}, facts)
  /\ cursor' = IF Moves(facts) = {} THEN cursor
               ELSE LET t == CHOOSE t \in Moves(facts) : TRUE IN [path |-> t, mtime |-> mtime[t]]
  /\ UNCHANGED <<text, store, crashes>>

(* onlyPath: whatever the watermark says, and with no facts.               *)
HarvestsPath(r, t) ==
  /\ run[r].at = "idle"
  /\ Works(r, {Known(t)}, FALSE)
  /\ UNCHANGED <<text, store, cursor, crashes>>

-----------------------------------------------------------------------------
(* One transcript after the other: harvestTranscript, and the loop around  *)
(* it in runHarvest.                                                       *)

On(r, t) == run[r].at # "idle" /\ run[r].on.path = t

NextTranscript(r) == Works(r, run[r].work, run[r].facts)

(* The whole file is read at once; a text that is too short is done with.  *)
ReadsTranscript(r) ==
  LET c == run[r].on
      n == len[c.path]
  IN /\ run[r].at = "read"
     /\ \/ /\ n < MinText
           /\ log' = [log EXCEPT ![c.path] = [mtime |-> c.mtime, upto |-> c.upto, facts |-> FALSE,
                                              parser |-> "current"]]
           /\ NextTranscript(r)
        \/ /\ n >= MinText
           /\ run' = [run EXCEPT ![r].at = IF run[r].facts THEN "facts" ELSE "plan", ![r].read = n,
                        ![r].todo = IF run[r].facts
                                    THEN FirstFew(Pending(c.path, "facts", n), PerRun["facts"])
                                    ELSE {}]
           /\ UNCHANGED log
     /\ UNCHANGED <<text, ledger, cursor, crashes>>

(* Unreadable, in an unknown format, or a note that cannot be written: the *)
(* rest of this transcript is left for another run.                        *)
TranscriptFails(r) ==
  /\ run[r].at # "idle"
  /\ NextTranscript(r)
  /\ UNCHANGED <<text, store, cursor, crashes>>

(* The next chunk is c: it is in the ledger, or it has an error.           *)
Upcoming(r, c) == c \in run[r].todo /\ \A d \in run[r].todo : c.start <= d.start

Finished(r, pass, c) ==
  /\ Upcoming(r, c)
  /\ ledger' = [ledger EXCEPT ![run[r].on.path][pass] = @ \cup {c}]
  /\ run' = [run EXCEPT ![r].todo = @ \ {c}]
  /\ UNCHANGED <<text, log, cursor, crashes>>

(* It failed: no ledger entry, and no watermark for this run.              *)
GivenUp(r, c) ==
  /\ Upcoming(r, c)
  /\ run' = [run EXCEPT ![r].todo = @ \ {c}, ![r].short = TRUE]
  /\ UNCHANGED <<text, store, cursor, crashes>>

ReadsFacts(r, c) == run[r].at = "facts" /\ Finished(r, "facts", c)
FactsFail(r, c) == run[r].at = "facts" /\ GivenUp(r, c)

(* What the facts pass has left unread is known by now; the lessons pass    *)
(* takes what is still missing.                                            *)
PlansLessons(r) ==
  /\ \/ run[r].at = "plan"
     \/ run[r].at = "facts" /\ run[r].todo = {}
  /\ run' = [run EXCEPT ![r].at = "lessons",
               ![r].short = @ \/ (run[r].facts /\ Pending(run[r].on.path, "facts", run[r].read) # {}),
               ![r].todo = FirstFew(Pending(run[r].on.path, "lessons", run[r].read), PerRun["lessons"])]
  /\ UNCHANGED <<text, store, cursor, crashes>>

(* The chunk's lessons are extracted, and all its notes written or refused *)
(* as duplicates.                                                          *)
ReadsLessons(r, c) == run[r].at = "lessons" /\ Finished(r, "lessons", c)

(* No valid answer in two attempts, or no verdict about duplicates.        *)
LessonsFail(r, c) == run[r].at = "lessons" /\ GivenUp(r, c)

(* Mutant: the watermark is the file's present mtime.                      *)
FinishesRestat(r) ==
  LET t == run[r].on.path
  IN /\ run[r].at = "lessons"
     /\ run[r].todo = {}
     /\ log' = IF ~run[r].short /\ Pending(t, "lessons", run[r].read) = {}
               THEN [log EXCEPT ![t] = [mtime |-> mtime[t], upto |-> len[t], facts |-> run[r].facts,
                                        parser |-> "current"]]
               ELSE log
     /\ NextTranscript(r)
     /\ UNCHANGED <<text, ledger, cursor, crashes>>

(* The watermark is the mtime taken when the transcript was selected, and  *)
(* is written if every chunk of the text read is in the ledger by now and  *)
(* no step of this run came to less than it should have.                   *)
Finishes(r) ==
  LET c == run[r].on
  IN /\ run[r].at = "lessons"
     /\ run[r].todo = {}
     /\ log' = IF ~run[r].short /\ Pending(c.path, "lessons", run[r].read) = {}
               THEN [log EXCEPT ![c.path] = [mtime |-> c.mtime, upto |-> c.upto,
                                             facts |-> run[r].facts, parser |-> "current"]]
               ELSE log
     /\ NextTranscript(r)
     /\ UNCHANGED <<text, ledger, cursor, crashes>>

Crashes(r) ==
  /\ run[r].at # "idle"
  /\ crashes < MaxCrashes
  /\ run' = [run EXCEPT ![r] = Idle]
  /\ crashes' = crashes + 1
  /\ UNCHANGED <<text, store, cursor>>

-----------------------------------------------------------------------------
(* The sessions.                                                           *)

(* More is appended, or only rows that are not text.  The clock does not   *)
(* stand still between two changes.                                        *)
Changes(t, more) ==
  /\ grown < MaxGrowth
  /\ len' = [len EXCEPT ![t] = @ + more]
  /\ mtime' = [mtime EXCEPT ![t] = 1 + Cardinality(Transcripts) + grown]
  /\ age' = [age EXCEPT ![t] = "inflight"]
  /\ grown' = grown + 1
  /\ UNCHANGED <<store, cursor, run, crashes>>

Older == [inflight |-> "recent", recent |-> "old"]

(* Time passes; what was changed earlier is no younger.                    *)
Ages(t) ==
  /\ age[t] # "old"
  /\ \A s \in Transcripts : mtime[s] < mtime[t] => age[s] # age[t]
  /\ age' = [age EXCEPT ![t] = Older[@]]
  /\ UNCHANGED <<len, mtime, grown, store, cursor, run, crashes>>

RunStep(r) ==
  \/ ReadsTranscript(r) \/ PlansLessons(r) \/ Finishes(r) \/ TranscriptFails(r)
  \/ \E c \in run[r].todo :
       ReadsFacts(r, c) \/ FactsFail(r, c) \/ ReadsLessons(r, c) \/ LessonsFail(r, c)

Next ==
  \/ \E r \in Sweepers, facts \in WantFacts : Sweeps(r, facts)
  \/ \E r \in Captures, t \in Transcripts : HarvestsPath(r, t)
  \/ \E r \in Runs : RunStep(r) \/ Crashes(r)
  \/ \E t \in Transcripts, more \in {0, 1} : Changes(t, more)
  \/ \E t \in Transcripts : Ages(t)

Spec == Init /\ [][Next]_vars

(* The job runs every night, its steps go on, and a healthy transcript is  *)
(* not unlucky for ever: some attempt at each step works out.              *)
Fairness ==
  /\ \A t \in Transcripts : WF_vars(Ages(t))
  /\ \A r \in Sweepers :
       /\ \A facts \in WantFacts : SF_vars(Sweeps(r, facts))
       /\ WF_vars(RunStep(r))
       /\ \A t \in Healthy :
            /\ SF_vars(On(r, t) /\ ReadsTranscript(r))
            /\ SF_vars(On(r, t) /\ PlansLessons(r))
            /\ SF_vars(On(r, t) /\ \E c \in run[r].todo : ReadsFacts(r, c))
            /\ SF_vars(On(r, t) /\ \E c \in run[r].todo : ReadsLessons(r, c))

FairSpec == Spec /\ Fairness

-----------------------------------------------------------------------------
(* Properties.                                                             *)

Whole(t, pass, n) == Chunks(pass, n) \subseteq ledger[t][pass]

(* A watermark is never ahead of what was read: some text at least as long *)
(* as the transcript had when that mtime was taken has every chunk in the  *)
(* ledger, for each pass the watermark stands for.  A sweep that passes    *)
(* the transcript by, or the receipt of a capture, so skips nothing.       *)
WatermarkHonest ==
  \A t \in Transcripts :
    (log[t] # None /\ log[t].parser = "current" /\ log[t].upto >= MinText) =>
      \E n \in log[t].upto..len[t] :
        Whole(t, "lessons", n) /\ (log[t].facts => Whole(t, "facts", n))

(* "A transcript still being appended to belongs to a session that is      *)
(* still happening, and harvesting it writes lessons the human is in the   *)
(* middle of writing by hand": no sweep reads one.                         *)
SweepsReadQuietSessions ==
  [][\A r \in Sweepers :
       run[r].at = "read" /\ run'[r] # run[r] /\ run'[r].at \in {"facts", "plan"}
         => age[run[r].on.path] # "inflight"]_vars

(* Whatever else waits or keeps failing, however small a night's share and *)
(* however often transcripts grow, each healthy one is read in full.       *)
Longest == Max(Lengths) + MaxGrowth
EventuallyRead ==
  \A t \in Healthy : \A n \in MinText..Longest :
    []<>(len[t] >= n => \E m \in n..Longest : Whole(t, "lessons", m))
=============================================================================
