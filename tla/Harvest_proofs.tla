--------------------------- MODULE Harvest_proofs ---------------------------
(***************************************************************************)
(* Theorems of Harvest, for any transcripts, any number of sweeps and      *)
(* captures, any chunk sizes, shares and bounds.                           *)
(***************************************************************************)
EXTENDS Harvest, FiniteSetTheorems, TLAPS

-----------------------------------------------------------------------------
(* The operators.                                                          *)

LEMMA ChunksType ==
  ASSUME NEW pass \in Passes, NEW n \in Nat
  PROVE  Chunks(pass, n) \subseteq Chunk
  BY ConstantsAssumption DEF Chunks, Chunk, Shorter

LEMMA FirstFewType ==
  ASSUME NEW t, NEW pass \in Passes, NEW n \in Nat, NEW k
  PROVE  FirstFew(Pending(t, pass, n), k) \subseteq Chunk
  BY ChunksType DEF FirstFew, Pending

LEMMA KnownType ==
  ASSUME TypeOK, NEW t \in Transcripts
  PROVE  Known(t) \in Candidate /\ Known(t).path = t /\ Known(t).upto = len[t]
  BY DEF TypeOK, Known, Candidate

LEMMA SelectionType ==
  ASSUME NEW facts, NEW k
  PROVE  FirstOf(Wanted(facts), k) \subseteq Transcripts /\ Moves(facts) \subseteq Transcripts
  <1>1. Looked \subseteq Transcripts /\ Recent(facts) \subseteq Transcripts
    BY DEF Looked, FirstOf, Historical, Recent
  <1>2. FirstOf(Wanted(facts), k) \subseteq Transcripts
    BY <1>1 DEF Wanted, FirstOf
  <1>3. Scanned(facts) \subseteq Transcripts
    BY <1>1 DEF Scanned
  <1> QED
    BY <1>2, <1>3 DEF Moves

LEMMA IdleType == Idle \in RunState
  BY DEF Idle, RunState

(* To be busy is to be on a transcript.                                    *)
LEMMA OnType ==
  ASSUME NEW x \in RunState, x.at # "idle"
  PROVE  x.on \in Candidate /\ x.on.path \in Transcripts /\ x.on.mtime \in Nat /\ x.on.upto \in Nat
  <1>1. x.on \in Candidate
    BY DEF RunState
  <1> QED
    BY <1>1 DEF Candidate

LEMMA BusyType ==
  ASSUME NEW c \in Candidate, NEW work \in SUBSET Candidate, NEW facts \in BOOLEAN
  PROVE  Busy(c, work, facts) \in RunState
  <1>1. c # None
    BY NoneAssumption
  <1> QED
    BY <1>1 DEF Busy, RunState

(* What a run may be after Works, whatever it was before.                  *)
Turned(work, facts) == {Idle} \cup {Busy(c, work \ {c}, facts) : c \in work}

LEMMA WorksRun ==
  ASSUME NEW r \in Runs, NEW work \in SUBSET Candidate, NEW facts \in BOOLEAN, Works(r, work, facts)
  PROVE  \E x \in Turned(work, facts) : x \in RunState /\ run' = [run EXCEPT ![r] = x]
  <1>1. CASE work = {} /\ run' = [run EXCEPT ![r] = Idle]
    BY <1>1, IdleType DEF Turned
  <1>2. ASSUME NEW c \in work, run' = [run EXCEPT ![r] = Busy(c, work \ {c}, facts)]
        PROVE  \E x \in Turned(work, facts) : x \in RunState /\ run' = [run EXCEPT ![r] = x]
    <2>1. Busy(c, work \ {c}, facts) \in RunState
      BY BusyType
    <2> QED
      BY <1>2, <2>1 DEF Turned
  <1> QED
    BY <1>1, <1>2 DEF Works

-----------------------------------------------------------------------------
(* Type correctness.                                                       *)

LEMMA InitType == Init => TypeOK
  <1> SUFFICES ASSUME Init PROVE TypeOK
    OBVIOUS
  <1>1. len \in [Transcripts -> Nat] /\ mtime \in [Transcripts -> Nat]
    BY ConstantsAssumption DEF Init
  <1>2. log \in [Transcripts -> Watermark \cup {None}]
    <2>1. PICK parser \in [Transcripts -> Parsers \cup {"none"}] :
            log = [t \in Transcripts |->
                     IF parser[t] = "none" THEN None
                     ELSE [mtime |-> t, upto |-> 0, facts |-> FALSE, parser |-> parser[t]]]
      BY DEF Init
    <2>2. ASSUME NEW t \in Transcripts, parser[t] # "none"
          PROVE  [mtime |-> t, upto |-> 0, facts |-> FALSE, parser |-> parser[t]] \in Watermark
      <3>1. t \in Nat /\ parser[t] \in {"current", "empty", "noted"}
        BY <2>2, ConstantsAssumption
      <3> QED
        BY <3>1 DEF Watermark
    <2> QED
      BY <2>1, <2>2
  <1>3. run \in [Runs -> RunState]
    BY IdleType DEF Init
  <1>4. ledger \in [Transcripts -> [Passes -> SUBSET Chunk]]
    BY DEF Init
  <1> QED
    BY <1>1, <1>2, <1>3, <1>4, ConstantsAssumption DEF Init, TypeOK

(* A step that only moves one run, to a well-typed state.                  *)
LEMMA RunType ==
  ASSUME TypeOK, NEW r \in Runs, NEW x \in RunState, run' = [run EXCEPT ![r] = x]
  PROVE  run' \in [Runs -> RunState]
  BY DEF TypeOK

LEMMA WorksType ==
  ASSUME TypeOK, NEW r \in Runs, NEW work \in SUBSET Candidate, NEW facts \in BOOLEAN,
         Works(r, work, facts)
  PROVE  run' \in [Runs -> RunState]
  BY WorksRun, RunType

LEMMA NextTranscriptType ==
  ASSUME TypeOK, NEW r \in Runs, NextTranscript(r)
  PROVE  run' \in [Runs -> RunState]
  <1>1. run[r].work \in SUBSET Candidate /\ run[r].facts \in BOOLEAN
    BY DEF TypeOK, RunState
  <1> QED
    BY <1>1, WorksType DEF NextTranscript

(* The watermark of the transcript a run is on.                            *)
LEMMA MarkType ==
  ASSUME TypeOK, NEW r \in Runs, run[r].at # "idle", NEW facts \in BOOLEAN
  PROVE  [log EXCEPT ![run[r].on.path] =
            [mtime |-> run[r].on.mtime, upto |-> run[r].on.upto, facts |-> facts,
             parser |-> "current"]] \in [Transcripts -> Watermark \cup {None}]
  <1>1. run[r].on.path \in Transcripts /\ run[r].on.mtime \in Nat /\ run[r].on.upto \in Nat
    BY OnType DEF TypeOK
  <1>2. [mtime |-> run[r].on.mtime, upto |-> run[r].on.upto, facts |-> facts,
         parser |-> "current"] \in Watermark
    BY <1>1 DEF Watermark
  <1> QED
    BY <1>1, <1>2 DEF TypeOK

LEMMA SweepsType ==
  ASSUME TypeOK, NEW r \in Sweepers, NEW facts \in WantFacts, Sweeps(r, facts)
  PROVE  TypeOK'
  <1>1. {Known(t) : t \in FirstOf(Wanted(facts), MaxSessions)} \in SUBSET Candidate
    BY SelectionType, KnownType
  <1>2. run' \in [Runs -> RunState]
    BY <1>1, WorksType, ConstantsAssumption DEF Sweeps, Runs
  <1>3. cursor' \in [path : Transcripts, mtime : Nat] \cup {None}
    <2>1. CASE Moves(facts) = {}
      BY <2>1 DEF Sweeps, TypeOK
    <2>2. CASE Moves(facts) # {}
      <3> DEFINE t == CHOOSE t \in Moves(facts) : TRUE
      <3>1. t \in Transcripts
        BY <2>2, SelectionType
      <3>2. cursor' = [path |-> t, mtime |-> mtime[t]]
        BY <2>2 DEF Sweeps
      <3> HIDE DEF t
      <3> QED
        BY <3>1, <3>2 DEF TypeOK
    <2> QED
      BY <2>1, <2>2
  <1> QED
    BY <1>2, <1>3 DEF Sweeps, TypeOK, text, store

LEMMA ReadsTranscriptType ==
  ASSUME TypeOK, NEW r \in Runs, ReadsTranscript(r)
  PROVE  TypeOK'
  <1> DEFINE c == run[r].on
             n == len[c.path]
  <1>1. run[r] \in RunState /\ run[r].at = "read" /\ c.path \in Transcripts /\ n \in Nat
    BY OnType DEF ReadsTranscript, TypeOK
  <1>2. CASE n < MinText /\ NextTranscript(r)
             /\ log' = [log EXCEPT ![c.path] = [mtime |-> c.mtime, upto |-> c.upto,
                                                facts |-> FALSE, parser |-> "current"]]
    BY <1>1, <1>2, NextTranscriptType, MarkType DEF ReadsTranscript, TypeOK, text, store
  <1>3. CASE /\ run' = [run EXCEPT ![r].at = IF run[r].facts THEN "facts" ELSE "plan", ![r].read = n,
                        ![r].todo = IF run[r].facts
                                    THEN FirstFew(Pending(c.path, "facts", n), PerRun["facts"])
                                    ELSE {}]
             /\ UNCHANGED log
    <2> DEFINE todo == IF run[r].facts THEN FirstFew(Pending(c.path, "facts", n), PerRun["facts"]) ELSE {}
               x == [run[r] EXCEPT !.at = IF run[r].facts THEN "facts" ELSE "plan", !.read = n,
                                   !.todo = todo]
    <2>1. todo \subseteq Chunk
      BY <1>1, FirstFewType DEF Passes
    <2>2. run' = [run EXCEPT ![r] = x]
      BY <1>3
    <2> HIDE DEF todo, n
    <2>3. x \in RunState
      BY <1>1, <2>1 DEF RunState
    <2> HIDE DEF x
    <2>4. run' \in [Runs -> RunState]
      BY <2>2, <2>3, RunType
    <2> QED
      BY <1>3, <2>4 DEF ReadsTranscript, TypeOK, text, store
  <1> QED
    BY <1>2, <1>3 DEF ReadsTranscript

LEMMA FinishedType ==
  ASSUME TypeOK, NEW r \in Runs, NEW pass \in Passes, NEW c \in run[r].todo,
         run[r].at # "idle", Finished(r, pass, c)
  PROVE  TypeOK'
  <1> DEFINE t == run[r].on.path
             x == [run[r] EXCEPT !.todo = @ \ {c}]
  <1>1. run[r] \in RunState /\ t \in Transcripts /\ c \in Chunk
    BY OnType DEF TypeOK, RunState
  <1>2. ledger[t][pass] \cup {c} \in SUBSET Chunk
    BY <1>1 DEF TypeOK
  <1>3. ledger' = [ledger EXCEPT ![t] = [ledger[t] EXCEPT ![pass] = ledger[t][pass] \cup {c}]]
    BY DEF Finished
  <1>4. ledger' \in [Transcripts -> [Passes -> SUBSET Chunk]]
    <2> HIDE DEF t
    <2> QED
      BY <1>1, <1>2, <1>3 DEF TypeOK
  <1>5. x \in RunState
    BY <1>1 DEF RunState
  <1>6. run' = [run EXCEPT ![r] = x]
    BY DEF Finished
  <1> HIDE DEF x
  <1>7. run' \in [Runs -> RunState]
    BY <1>5, <1>6, RunType
  <1> QED
    BY <1>4, <1>7 DEF Finished, TypeOK, text

LEMMA GivenUpType ==
  ASSUME TypeOK, NEW r \in Runs, NEW c \in run[r].todo, run[r].at # "idle", GivenUp(r, c)
  PROVE  TypeOK'
  <1> DEFINE x == [run[r] EXCEPT !.todo = @ \ {c}, !.short = TRUE]
  <1>1. run[r] \in RunState
    BY DEF TypeOK
  <1>2. x \in RunState
    BY <1>1 DEF RunState
  <1>3. run' = [run EXCEPT ![r] = x]
    BY DEF GivenUp
  <1> HIDE DEF x
  <1>4. run' \in [Runs -> RunState]
    BY <1>2, <1>3, RunType
  <1> QED
    BY <1>4 DEF GivenUp, TypeOK, text, store

LEMMA PlansLessonsType ==
  ASSUME TypeOK, NEW r \in Runs, PlansLessons(r)
  PROVE  TypeOK'
  <1> DEFINE todo == FirstFew(Pending(run[r].on.path, "lessons", run[r].read), PerRun["lessons"])
             short == run[r].short \/ (run[r].facts /\ Pending(run[r].on.path, "facts", run[r].read) # {})
             x == [run[r] EXCEPT !.at = "lessons", !.short = short, !.todo = todo]
  <1>1. run[r] \in RunState /\ run[r].at # "idle" /\ run[r].read \in Nat
    BY DEF TypeOK, RunState, PlansLessons
  <1>2. todo \subseteq Chunk
    BY <1>1, FirstFewType DEF Passes
  <1>3. short \in BOOLEAN
    BY <1>1 DEF RunState
  <1>4. run' = [run EXCEPT ![r] = x]
    BY DEF PlansLessons
  <1> HIDE DEF todo, short
  <1>5. x \in RunState
    BY <1>1, <1>2, <1>3 DEF RunState
  <1> HIDE DEF x
  <1>6. run' \in [Runs -> RunState]
    BY <1>4, <1>5, RunType
  <1> QED
    BY <1>6 DEF PlansLessons, TypeOK, text, store

LEMMA FinishesType ==
  ASSUME TypeOK, NEW r \in Runs, Finishes(r)
  PROVE  TypeOK'
  <1>1. run[r].at # "idle" /\ run[r].facts \in BOOLEAN
    BY DEF Finishes, TypeOK, RunState
  <1>2. run' \in [Runs -> RunState]
    BY NextTranscriptType DEF Finishes
  <1>3. log' \in [Transcripts -> Watermark \cup {None}]
    <2>1. CASE log' = log
      BY <2>1 DEF TypeOK
    <2>2. CASE log' = [log EXCEPT ![run[r].on.path] =
                        [mtime |-> run[r].on.mtime, upto |-> run[r].on.upto,
                         facts |-> run[r].facts, parser |-> "current"]]
      BY <1>1, <2>2, MarkType
    <2> QED
      BY <2>1, <2>2 DEF Finishes
  <1> QED
    BY <1>2, <1>3 DEF Finishes, TypeOK, text

LEMMA ChangesType ==
  ASSUME TypeOK, NEW t \in Transcripts, NEW more \in {0, 1}, Changes(t, more)
  PROVE  TypeOK'
  <1>1. grown' \in 0..MaxGrowth
    BY ConstantsAssumption DEF TypeOK, Changes
  <1>2. len' \in [Transcripts -> Nat]
    BY DEF TypeOK, Changes
  <1>3. mtime' \in [Transcripts -> Nat]
    BY ConstantsAssumption, FS_CardinalityType DEF TypeOK, Changes
  <1> QED
    BY <1>1, <1>2, <1>3 DEF TypeOK, Changes, store

LEMMA AgesType ==
  ASSUME TypeOK, NEW t \in Transcripts, Ages(t)
  PROVE  TypeOK'
  <1>1. age[t] \in {"inflight", "recent"}
    BY DEF TypeOK, Ages
  <1>2. Older[age[t]] \in {"recent", "old"}
    BY <1>1 DEF Older
  <1> QED
    BY <1>2 DEF TypeOK, Ages, store

LEMMA RunStepType ==
  ASSUME TypeOK, NEW r \in Runs, RunStep(r)
  PROVE  TypeOK'
  <1>1. CASE ReadsTranscript(r)
    BY <1>1, ReadsTranscriptType
  <1>2. CASE PlansLessons(r)
    BY <1>2, PlansLessonsType
  <1>3. CASE Finishes(r)
    BY <1>3, FinishesType
  <1>4. CASE TranscriptFails(r)
    BY <1>4, NextTranscriptType DEF TranscriptFails, TypeOK, text, store
  <1>5. ASSUME NEW c \in run[r].todo, ReadsFacts(r, c) \/ ReadsLessons(r, c)
        PROVE  TypeOK'
    BY <1>5, FinishedType DEF ReadsFacts, ReadsLessons, Passes
  <1>6. ASSUME NEW c \in run[r].todo, FactsFail(r, c) \/ LessonsFail(r, c)
        PROVE  TypeOK'
    BY <1>6, GivenUpType DEF FactsFail, LessonsFail
  <1> QED
    BY <1>1, <1>2, <1>3, <1>4, <1>5, <1>6 DEF RunStep

LEMMA NextType ==
  ASSUME TypeOK, [Next]_vars
  PROVE  TypeOK'
  <1>1. CASE UNCHANGED vars
    BY <1>1 DEF TypeOK, vars, text, store
  <1>2. ASSUME NEW r \in Sweepers, NEW facts \in WantFacts, Sweeps(r, facts) PROVE TypeOK'
    BY <1>2, SweepsType
  <1>3. ASSUME NEW r \in Captures, NEW t \in Transcripts, HarvestsPath(r, t) PROVE TypeOK'
    <2>1. run' \in [Runs -> RunState]
      BY <1>3, KnownType, WorksType DEF HarvestsPath, Runs
    <2> QED
      BY <1>3, <2>1 DEF HarvestsPath, TypeOK, text, store
  <1>4. ASSUME NEW r \in Runs, RunStep(r) PROVE TypeOK'
    BY <1>4, RunStepType
  <1>5. ASSUME NEW r \in Runs, Crashes(r) PROVE TypeOK'
    BY <1>5, IdleType, RunType, ConstantsAssumption DEF Crashes, TypeOK, text, store
  <1>6. ASSUME NEW t \in Transcripts, NEW more \in {0, 1}, Changes(t, more) PROVE TypeOK'
    BY <1>6, ChangesType
  <1>7. ASSUME NEW t \in Transcripts, Ages(t) PROVE TypeOK'
    BY <1>7, AgesType
  <1> QED
    BY <1>1, <1>2, <1>3, <1>4, <1>5, <1>6, <1>7 DEF Next

(* Each run is at most busy with transcripts there are, and has the fields *)
(* its stage is written with; the ledger holds chunks and the log marks.   *)
THEOREM TypeInvariant == Spec => []TypeOK
  <1>1. Init => TypeOK
    BY InitType
  <1>2. TypeOK /\ [Next]_vars => TypeOK'
    BY NextType
  <1> QED
    BY <1>1, <1>2, PTL DEF Spec

-----------------------------------------------------------------------------
(* The watermark is honest because a run never knows of more text than     *)
(* there is, has read at least what it knew of, and knows the facts pass   *)
(* to be whole unless it is short of something.                            *)

RunSound(x, l, g) ==
  /\ x.at # "idle" => x.on.upto <= l[x.on.path]
  /\ \A c \in x.work : c.upto <= l[c.path]
  /\ x.at \in {"facts", "plan", "lessons"} => x.on.upto <= x.read /\ x.read <= l[x.on.path]
  /\ (x.at = "lessons" /\ ~x.short /\ x.facts) =>
       Chunks("facts", x.read) \subseteq g[x.on.path]["facts"]

HonestInv ==
  /\ TypeOK
  /\ WatermarkHonest
  /\ \A r \in Runs : RunSound(run[r], len, ledger)

(* What there is to read, and what has been read, only grows.              *)
Growing ==
  \A t \in Transcripts :
    /\ len'[t] >= len[t]
    /\ \A pass \in Passes : ledger[t][pass] \subseteq ledger'[t][pass]

LEMMA Grows == ASSUME TypeOK, [Next]_vars PROVE Growing
  <1>1. CASE UNCHANGED <<len, ledger>>
    BY <1>1 DEF Growing, TypeOK
  <1>2. ASSUME NEW r \in Runs, NEW c \in run[r].todo, NEW pass \in Passes, run[r].at # "idle",
               Finished(r, pass, c)
        PROVE  Growing
    <2>1. run[r].on.path \in Transcripts
      BY <1>2, OnType DEF TypeOK
    <2>2. ledger' = [ledger EXCEPT ![run[r].on.path] =
                       [ledger[run[r].on.path] EXCEPT ![pass] = ledger[run[r].on.path][pass] \cup {c}]]
      BY <1>2 DEF Finished
    <2>3. len' = len
      BY <1>2 DEF Finished, text
    <2> QED
      BY <2>1, <2>2, <2>3 DEF Growing, TypeOK
  <1>3. ASSUME NEW t \in Transcripts, NEW more \in {0, 1}, Changes(t, more) PROVE Growing
    BY <1>3 DEF Changes, store, Growing, TypeOK
  <1> QED
    BY <1>1, <1>2, <1>3
    DEF Next, vars, text, store, RunStep, Sweeps, HarvestsPath, ReadsTranscript, PlansLessons,
        Finishes, TranscriptFails, ReadsFacts, FactsFail, ReadsLessons, LessonsFail, GivenUp,
        Crashes, Ages, Passes

LEMMA GrowsSound ==
  ASSUME TypeOK, TypeOK', Growing, NEW x \in RunState, RunSound(x, len, ledger)
  PROVE  RunSound(x, len', ledger')
  <1>1. ASSUME NEW c \in Candidate, c.upto <= len[c.path]
        PROVE  c.upto <= len'[c.path]
    <2>1. c.path \in Transcripts /\ c.upto \in Nat
      BY DEF Candidate
    <2>2. len[c.path] \in Nat /\ len'[c.path] \in Nat /\ len'[c.path] >= len[c.path]
      BY <2>1 DEF TypeOK, Growing
    <2> QED
      BY <1>1, <2>1, <2>2
  <1>2. ASSUME x.at # "idle"
        PROVE  /\ x.on \in Candidate /\ x.on.path \in Transcripts /\ x.read \in Nat
               /\ len[x.on.path] \in Nat /\ len'[x.on.path] \in Nat
               /\ len'[x.on.path] >= len[x.on.path]
               /\ ledger[x.on.path]["facts"] \subseteq ledger'[x.on.path]["facts"]
    <2>1. x.on \in Candidate /\ x.on.path \in Transcripts /\ x.read \in Nat
      BY <1>2, OnType DEF RunState
    <2> QED
      BY <2>1 DEF TypeOK, Growing, Passes
  <1>3. x.work \subseteq Candidate
    BY DEF RunState
  <1>4. x.at # "idle" => x.on.upto <= len'[x.on.path]
    BY <1>1, <1>2 DEF RunSound
  <1>5. \A c \in x.work : c.upto <= len'[c.path]
    BY <1>1, <1>3 DEF RunSound
  <1>6. ASSUME x.at \in {"facts", "plan", "lessons"}
        PROVE  x.on.upto <= x.read /\ x.read <= len'[x.on.path]
    BY <1>2, <1>6 DEF RunSound
  <1>7. ASSUME x.at = "lessons", ~x.short, x.facts
        PROVE  Chunks("facts", x.read) \subseteq ledger'[x.on.path]["facts"]
    BY <1>2, <1>7 DEF RunSound
  <1> QED
    BY <1>4, <1>5, <1>6, <1>7 DEF RunSound

LEMMA BusySound ==
  ASSUME NEW work, NEW facts, NEW l, NEW g, \A c \in work : c.upto <= l[c.path]
  PROVE  \A x \in Turned(work, facts) : RunSound(x, l, g)
  <1>1. RunSound(Idle, l, g)
    BY DEF Idle, RunSound
  <1>2. ASSUME NEW c \in work PROVE RunSound(Busy(c, work \ {c}, facts), l, g)
    BY DEF Busy, RunSound
  <1> QED
    BY <1>1, <1>2 DEF Turned

LEMMA WorksSound ==
  ASSUME TypeOK, NEW q \in Runs, NEW work \in SUBSET Candidate, NEW facts \in BOOLEAN,
         Works(q, work, facts), NEW l, NEW g, \A c \in work : c.upto <= l[c.path],
         NEW r \in Runs, RunSound(run[r], l, g)
  PROVE  RunSound(run'[r], l, g)
  <1>1. PICK x \in Turned(work, facts) : x \in RunState /\ run' = [run EXCEPT ![q] = x]
    BY WorksRun
  <1>2. RunSound(x, l, g)
    BY BusySound
  <1> QED
    BY <1>1, <1>2 DEF TypeOK

LEMMA NextTranscriptSound ==
  ASSUME TypeOK, NEW q \in Runs, NextTranscript(q), NEW l, NEW g,
         \A r \in Runs : RunSound(run[r], l, g)
  PROVE  \A r \in Runs : RunSound(run'[r], l, g)
  <1>1. run[q].work \in SUBSET Candidate /\ run[q].facts \in BOOLEAN
    BY DEF TypeOK, RunState
  <1>2. \A c \in run[q].work : c.upto <= l[c.path]
    BY DEF RunSound
  <1> QED
    BY <1>1, <1>2, WorksSound DEF NextTranscript

(* What a run is left to do says nothing about what it has done.           *)
LEMMA TodoSound ==
  ASSUME NEW x \in RunState, NEW todo, NEW short \in BOOLEAN, x.short => short,
         NEW l, NEW g, RunSound(x, l, g)
  PROVE  RunSound([x EXCEPT !.todo = todo, !.short = short], l, g)
  BY DEF RunSound, RunState

LEMMA FinishedSound ==
  ASSUME TypeOK, NEW q \in Runs, NEW pass, NEW c, Finished(q, pass, c), NEW l, NEW g,
         \A r \in Runs : RunSound(run[r], l, g)
  PROVE  \A r \in Runs : RunSound(run'[r], l, g)
  <1> DEFINE x == [run[q] EXCEPT !.todo = run[q].todo \ {c}, !.short = run[q].short]
  <1>1. run[q] \in RunState /\ run[q].short \in BOOLEAN
    BY DEF TypeOK, RunState
  <1>2. RunSound(x, l, g)
    BY <1>1, TodoSound
  <1>3. run' = [run EXCEPT ![q] = x]
    BY <1>1 DEF Finished, RunState
  <1> HIDE DEF x
  <1> QED
    BY <1>2, <1>3 DEF TypeOK

LEMMA GivenUpSound ==
  ASSUME TypeOK, NEW q \in Runs, NEW c, GivenUp(q, c), NEW l, NEW g,
         \A r \in Runs : RunSound(run[r], l, g)
  PROVE  \A r \in Runs : RunSound(run'[r], l, g)
  <1> DEFINE x == [run[q] EXCEPT !.todo = run[q].todo \ {c}, !.short = TRUE]
  <1>1. run[q] \in RunState
    BY DEF TypeOK
  <1>2. RunSound(x, l, g)
    BY <1>1, TodoSound
  <1>3. run' = [run EXCEPT ![q] = x]
    BY DEF GivenUp
  <1> HIDE DEF x
  <1> QED
    BY <1>2, <1>3 DEF TypeOK

LEMMA ReadsTranscriptSound ==
  ASSUME TypeOK, NEW q \in Runs, ReadsTranscript(q), NEW g,
         \A r \in Runs : RunSound(run[r], len, g)
  PROVE  \A r \in Runs : RunSound(run'[r], len, g)
  <1> DEFINE n == len[run[q].on.path]
             todo == IF run[q].facts
                     THEN FirstFew(Pending(run[q].on.path, "facts", n), PerRun["facts"]) ELSE {}
             x == [run[q] EXCEPT !.at = IF run[q].facts THEN "facts" ELSE "plan", !.read = n,
                                 !.todo = todo]
  <1>1. CASE NextTranscript(q)
    BY <1>1, NextTranscriptSound
  <1>2. CASE run' = [run EXCEPT ![q] = x]
    <2>1. run[q] \in RunState /\ run[q].at = "read" /\ run[q].on.path \in Transcripts
      BY OnType DEF TypeOK, ReadsTranscript
    <2>2. n \in Nat /\ run[q].on.upto <= n /\ RunSound(run[q], len, g)
      BY <2>1 DEF TypeOK, RunSound
    <2> HIDE DEF todo
    <2>3. /\ x.at \in {"facts", "plan"} /\ x.on = run[q].on /\ x.work = run[q].work
          /\ x.read = n
      BY <2>1 DEF RunState
    <2>4. RunSound(x, len, g)
      <3> HIDE DEF x
      <3> QED
        BY <2>1, <2>2, <2>3 DEF RunSound
    <2> HIDE DEF x
    <2> QED
      BY <1>2, <2>4 DEF TypeOK
  <1> QED
    BY <1>1, <1>2 DEF ReadsTranscript

LEMMA PlansLessonsSound ==
  ASSUME TypeOK, NEW q \in Runs, PlansLessons(q),
         \A r \in Runs : RunSound(run[r], len, ledger)
  PROVE  \A r \in Runs : RunSound(run'[r], len, ledger)
  <1> DEFINE path == run[q].on.path
             todo == FirstFew(Pending(path, "lessons", run[q].read), PerRun["lessons"])
             short == run[q].short \/ (run[q].facts /\ Pending(path, "facts", run[q].read) # {})
             x == [run[q] EXCEPT !.at = "lessons", !.short = short, !.todo = todo]
  <1>1. run[q] \in RunState /\ run[q].at \in {"plan", "facts"} /\ RunSound(run[q], len, ledger)
    BY DEF TypeOK, PlansLessons
  <1>2. run' = [run EXCEPT ![q] = x]
    BY DEF PlansLessons
  <1>3. (run[q].facts /\ ~short) => Chunks("facts", run[q].read) \subseteq ledger[path]["facts"]
    BY DEF Pending
  <1> HIDE DEF todo, short, path
  <1>4. /\ x.at = "lessons" /\ x.on = run[q].on /\ x.work = run[q].work
        /\ x.read = run[q].read /\ x.facts = run[q].facts /\ x.short = short
    BY <1>1 DEF RunState
  <1>5. RunSound(x, len, ledger)
    <2> HIDE DEF x
    <2> QED
      BY <1>1, <1>3, <1>4 DEF RunSound, path
  <1> HIDE DEF x
  <1> QED
    BY <1>2, <1>5 DEF TypeOK

LEMMA RunsStaySound ==
  ASSUME HonestInv, [Next]_vars
  PROVE  \A r \in Runs : RunSound(run'[r], len', ledger')
  <1>1. TypeOK /\ TypeOK' /\ Growing /\ \A r \in Runs : run[r] \in RunState
    BY NextType, Grows DEF HonestInv, TypeOK
  <1>2. \A r \in Runs : RunSound(run[r], len', ledger')
    BY <1>1, GrowsSound DEF HonestInv
  <1>3. CASE run' = run
    BY <1>2, <1>3
  <1>4. ASSUME NEW q \in Sweepers, NEW facts \in WantFacts, Sweeps(q, facts)
        PROVE  \A r \in Runs : RunSound(run'[r], len', ledger')
    <2> DEFINE work == {Known(t) : t \in FirstOf(Wanted(facts), MaxSessions)}
    <2>1. work \in SUBSET Candidate
      BY <1>1, SelectionType, KnownType
    <2>2. \A c \in work : c.upto <= len'[c.path]
      <3>1. len' = len
        BY <1>4 DEF Sweeps, text
      <3>2. ASSUME NEW t \in FirstOf(Wanted(facts), MaxSessions)
            PROVE  Known(t).upto <= len'[Known(t).path]
        BY <1>1, <3>1, SelectionType, KnownType DEF TypeOK
      <3> QED
        BY <3>2
    <2>3. Works(q, work, facts) /\ q \in Runs /\ facts \in BOOLEAN
      BY <1>4, ConstantsAssumption DEF Sweeps, Runs
    <2> HIDE DEF work
    <2> QED
      BY <1>1, <1>2, <2>1, <2>2, <2>3, WorksSound
  <1>5. ASSUME NEW q \in Captures, NEW t \in Transcripts, HarvestsPath(q, t)
        PROVE  \A r \in Runs : RunSound(run'[r], len', ledger')
    <2> DEFINE work == {Known(t)}
    <2>1. Known(t) \in Candidate /\ Known(t).upto <= len'[Known(t).path]
      BY <1>1, <1>5, KnownType DEF HarvestsPath, text, TypeOK
    <2>2. Works(q, work, FALSE) /\ q \in Runs
      BY <1>5 DEF HarvestsPath, Runs
    <2>3. work \in SUBSET Candidate /\ \A c \in work : c.upto <= len'[c.path]
      BY <2>1
    <2> HIDE DEF work
    <2> QED
      BY <1>1, <1>2, <2>2, <2>3, WorksSound
  <1>6. ASSUME NEW q \in Runs, NextTranscript(q)
        PROVE  \A r \in Runs : RunSound(run'[r], len', ledger')
    BY <1>1, <1>2, <1>6, NextTranscriptSound
  <1>7. ASSUME NEW q \in Runs, ReadsTranscript(q)
        PROVE  \A r \in Runs : RunSound(run'[r], len', ledger')
    BY <1>1, <1>2, <1>7, ReadsTranscriptSound DEF ReadsTranscript, text
  <1>8. ASSUME NEW q \in Runs, PlansLessons(q)
        PROVE  \A r \in Runs : RunSound(run'[r], len', ledger')
    BY <1>1, <1>2, <1>8, PlansLessonsSound DEF PlansLessons, text, store
  <1>9. ASSUME NEW q \in Runs, NEW c \in run[q].todo, NEW pass, Finished(q, pass, c)
        PROVE  \A r \in Runs : RunSound(run'[r], len', ledger')
    BY <1>1, <1>2, <1>9, FinishedSound
  <1>10. ASSUME NEW q \in Runs, NEW c \in run[q].todo, GivenUp(q, c)
         PROVE  \A r \in Runs : RunSound(run'[r], len', ledger')
    BY <1>1, <1>2, <1>10, GivenUpSound
  <1>11. ASSUME NEW q \in Runs, Crashes(q)
         PROVE  \A r \in Runs : RunSound(run'[r], len', ledger')
    <2>1. RunSound(Idle, len', ledger')
      BY DEF Idle, RunSound
    <2> QED
      BY <1>1, <1>2, <1>11, <2>1 DEF Crashes, TypeOK
  <1> QED
    BY <1>3, <1>4, <1>5, <1>6, <1>7, <1>8, <1>9, <1>10, <1>11
    DEF Next, vars, RunStep, Finishes, TranscriptFails, ReadsFacts, FactsFail, ReadsLessons,
        LessonsFail, Changes, Ages

(* A watermark as WatermarkHonest wants it.                                *)
MarkHonest(mark, l, chunks) ==
  (mark # None /\ mark.parser = "current" /\ mark.upto >= MinText) =>
    \E n \in mark.upto..l :
      /\ Chunks("lessons", n) \subseteq chunks["lessons"]
      /\ mark.facts => Chunks("facts", n) \subseteq chunks["facts"]

LEMMA HonestMarks ==
  WatermarkHonest <=> \A t \in Transcripts : MarkHonest(log[t], len[t], ledger[t])
  BY DEF WatermarkHonest, MarkHonest, Whole

LEMMA MarksStayHonest ==
  ASSUME HonestInv, [Next]_vars, NEW t \in Transcripts
  PROVE  MarkHonest(log'[t], len'[t], ledger'[t])
  <1>1. TypeOK /\ Growing /\ len[t] \in Nat /\ len'[t] \in Nat /\ len'[t] >= len[t]
    BY NextType, Grows DEF HonestInv, TypeOK, Growing
  <1>2. MarkHonest(log[t], len'[t], ledger'[t])
    <2>1. MarkHonest(log[t], len[t], ledger[t]) /\ log[t] \in Watermark \cup {None}
      BY HonestMarks DEF HonestInv, TypeOK
    <2>2. /\ ledger[t]["lessons"] \subseteq ledger'[t]["lessons"]
          /\ ledger[t]["facts"] \subseteq ledger'[t]["facts"]
      BY <1>1 DEF Growing, Passes
    <2>3. log[t] \in Watermark => log[t].upto \in Nat
      BY DEF Watermark
    <2> QED
      BY <1>1, <2>1, <2>2, <2>3 DEF MarkHonest
  <1>3. CASE log'[t] = log[t]
    BY <1>2, <1>3
  <1>4. ASSUME NEW r \in Runs, ReadsTranscript(r), log' # log, log'[t] # log[t]
        PROVE  MarkHonest(log'[t], len'[t], ledger'[t])
    <2>1. /\ run[r].on.path \in Transcripts /\ run[r].on.upto \in Nat
          /\ run[r].on.upto <= len[run[r].on.path]
      BY <1>1, <1>4, OnType DEF TypeOK, ReadsTranscript, HonestInv, RunSound
    <2>2. /\ len[run[r].on.path] < MinText
          /\ log' = [log EXCEPT ![run[r].on.path] =
                       [mtime |-> run[r].on.mtime, upto |-> run[r].on.upto, facts |-> FALSE,
                        parser |-> "current"]]
      BY <1>4 DEF ReadsTranscript
    <2>3. log'[t].upto = run[r].on.upto /\ len[run[r].on.path] \in Nat
      BY <1>1, <1>4, <2>1, <2>2 DEF TypeOK
    <2> QED
      BY <2>1, <2>2, <2>3, ConstantsAssumption DEF MarkHonest
  <1>5. ASSUME NEW r \in Runs, Finishes(r), log'[t] # log[t]
        PROVE  MarkHonest(log'[t], len'[t], ledger'[t])
    <2> DEFINE c == run[r].on
               n == run[r].read
    <2>1. /\ c.path \in Transcripts /\ c.upto \in Nat /\ n \in Nat
          /\ c.upto <= n /\ n <= len[c.path] /\ run[r].facts \in BOOLEAN
      BY <1>1, <1>5, OnType DEF TypeOK, RunState, Finishes, HonestInv, RunSound
    <2>2. /\ ~run[r].short
          /\ Pending(c.path, "lessons", n) = {}
          /\ log' = [log EXCEPT ![c.path] = [mtime |-> c.mtime, upto |-> c.upto,
                                             facts |-> run[r].facts, parser |-> "current"]]
      BY <1>5 DEF Finishes
    <2>3. /\ t = c.path
          /\ log'[t] = [mtime |-> c.mtime, upto |-> c.upto, facts |-> run[r].facts,
                        parser |-> "current"]
      BY <1>1, <1>5, <2>1, <2>2 DEF TypeOK
    <2>4. Chunks("lessons", n) \subseteq ledger[t]["lessons"]
      BY <2>2, <2>3 DEF Pending
    <2>5. run[r].facts => Chunks("facts", n) \subseteq ledger[t]["facts"]
      BY <1>5, <2>2, <2>3 DEF HonestInv, RunSound, Finishes
    <2>6. len' = len /\ ledger' = ledger
      BY <1>5 DEF Finishes, text
    <2>7. n \in c.upto..len[t]
      BY <1>1, <2>1, <2>3
    <2> HIDE DEF n, c
    <2> QED
      BY <2>3, <2>4, <2>5, <2>6, <2>7 DEF MarkHonest
  <1> QED
    BY <1>3, <1>4, <1>5
    DEF Next, vars, store, RunStep, Sweeps, HarvestsPath, PlansLessons, Finished, GivenUp,
        TranscriptFails, ReadsFacts, FactsFail, ReadsLessons, LessonsFail, Crashes, Changes, Ages

(* A watermark hides nothing: whatever runs overlap, die or fail, and      *)
(* however transcripts grow meanwhile, all the text a transcript had when  *)
(* its watermark's mtime was taken has been read by the passes it stands   *)
(* for.                                                                    *)
THEOREM HonestWatermarks == Spec => []WatermarkHonest
  <1>1. Init => HonestInv
    <2> SUFFICES ASSUME Init PROVE HonestInv
      OBVIOUS
    <2>1. \A t \in Transcripts : log[t] = None \/ log[t].parser # "current"
      BY ConstantsAssumption DEF Init
    <2>2. \A r \in Runs : RunSound(run[r], len, ledger)
      BY DEF Init, Idle, RunSound
    <2> QED
      BY <2>1, <2>2, InitType DEF HonestInv, WatermarkHonest
  <1>2. HonestInv /\ [Next]_vars => HonestInv'
    <2> SUFFICES ASSUME HonestInv, [Next]_vars PROVE HonestInv'
      OBVIOUS
    <2>1. WatermarkHonest'
      BY MarksStayHonest DEF WatermarkHonest, MarkHonest, Whole
    <2> QED
      BY <2>1, NextType, RunsStaySound DEF HonestInv
  <1>3. HonestInv => WatermarkHonest
    BY DEF HonestInv
  <1> QED
    BY <1>1, <1>2, <1>3, PTL DEF Spec
=============================================================================
