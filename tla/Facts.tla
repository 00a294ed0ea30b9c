-------------------------------- MODULE Facts --------------------------------
(* The fact ledger: facts.js (rows, renamed entities), the single-valued   *)
(* rule of predicates.js, the writers of extract.js and of the fact tools  *)
(* (tools.js), and the append-only reviews of fact-reviews.js.             *)
(*                                                                         *)
(* Any number of processes share the database.  What one transaction does  *)
(* is one action; an operation of several statements, or one that waits    *)
(* for a model or a person, has a step for each.  All facts have the one   *)
(* predicate, "status", that a new value of a ticket ends the old one of.  *)
(* A name stands for its spellings: what canonicalEntityId folds is equal. *)
EXTENDS Naturals, FiniteSets, Sequences

CONSTANTS
  None,
  Names,     \* the names of entities
  Tickets,   \* the names that SINGLE_ENTITY matches
  Subjects,  \* the names that facts are stated of
  Values,    \* the names that they state
  Renames,   \* pairs of names that kb entity-merge is called with
  Batches,   \* what a model may read in a text: facts, with a stated day or None
  Verdicts,  \* the dispositions that reviewers use
  Callers,   \* calls that overlap
  MaxReviews,\* bound: reviews ever written
  Setups     \* which operations an installation uses, and how much: its tools,
             \* the callers, what kb_fact_add is called with (a day or None),
             \* and the bounds, facts ever written and days

Dated == [s : Subjects, o : Values, from : Nat \cup {None}]

ASSUME FactsAssumption ==
  /\ Tickets \cup Subjects \cup Values \subseteq Names
  /\ None \notin Names \cup Nat
  /\ \A b \in Batches : b \in Seq(Dated) /\ Len(b) =< 2
  /\ << >> \in Batches
  /\ Renames \subseteq Names \X Names
  /\ Verdicts \subseteq {"current", "superseded", "rejected", "abstain"}
  /\ MaxReviews \in Nat
  /\ \A u \in Setups :
       /\ u.callers \subseteq Callers
       /\ u.byHand \subseteq [s : Subjects, o : Values, from : Nat \cup {None}, source : BOOLEAN]
       /\ u.facts \in Nat /\ u.days \in Nat \ {0}

VARIABLES
  setup,
  day,
  rows,      \* the table facts
  last,      \* how many facts were ever written: the last id
  alias,     \* the table entity_aliases
  entity,    \* the table entities: the name that is shown for one
  reviews,   \* the tables fact_reviews and fact_review_items
  preview,   \* what a dry run of kb_extract remembers
  call,      \* the calls
  split      \* ghost: entities that were given two values on purpose

ledger == <<rows, last>>
factVars == <<setup, day, rows, last, alias, entity, reviews, preview, call, split>>

Days == 1..setup.days

Offers(tool) == tool \in setup.tools

Calls(c, tool) == Offers(tool) /\ c \in setup.callers /\ call[c].pc = "idle"

(* A fact: source says whether it has one, at when it was recorded.        *)
Fact == [id : Nat, s : Names, o : Names, from : Nat \cup {None},
         to : Nat \cup {None}, source : BOOLEAN, at : Nat]

Idle == [pc |-> "idle", s |-> None, o |-> None, name |-> None, day |-> None,
         observed |-> None, dry |-> FALSE, replay |-> FALSE,
         batch |-> << >>, seen |-> {}]

FactsInit ==
  /\ setup \in Setups
  /\ day = 1
  /\ rows = {} /\ last = 0
  /\ alias = [n \in Names |-> None] /\ entity = [n \in Names |-> n]
  /\ reviews = << >>
  /\ preview = None
  /\ call = [c \in Callers |-> Idle]
  /\ split = {}

DayPasses ==
  /\ day < setup.days
  /\ day' = day + 1
  /\ UNCHANGED <<setup, rows, last, alias, entity, reviews, preview, call, split>>

(* entityKey: a renamed entity is found under its new name, in one hop.    *)
(* Overlapping merges can leave an alias of an alias; a fact stated of one *)
(* is found under another name than its own.                               *)
Key(n) == IF alias[n] = None THEN n ELSE alias[n]

Live(s) == {f \in rows : f.s = s /\ f.to = None}

Ids(facts) == {f.id : f \in facts}

(* predatesHeld, endsBeforeStart.                                          *)
StartsAfter(f, d) == f.from # None /\ f.from > d
-----------------------------------------------------------------------------
(* Writing: one rule for kb_fact_add and kb_extract.                       *)

(* sameValue, of the name that queryFact shows for a row's value.          *)
SameValue(f, o) == Key(entity[f.o]) = Key(o)

\* Mutant: the rows are looked up by the name as it was given.
ContradictedByName(facts, s, o) ==
  {f \in facts : s \in Tickets /\ f.s = s /\ f.to = None /\ ~SameValue(f, o)}

(* heldCurrentFacts, contradictedFacts, retiresOnContradiction.            *)
Contradicted(facts, s, o) ==
  {f \in facts : s \in Tickets /\ f.s = Key(s) /\ f.to = None /\ ~SameValue(f, o)}

(* invalidateFact looks for each by the name that was shown, so that it may*)
(* miss it; and it refuses if one that it finds starts after the day.      *)
Reached(facts, s, gone, d) ==
  LET found(g) == {f \in facts : f.s = Key(s) /\ f.o = Key(entity[g.o]) /\ f.to = None}
  IN UNION {found(g) : g \in {g \in gone : \A f \in found(g) : ~StartsAfter(f, d)}}

Retired(facts, gone, d) == (facts \ gone) \cup {[f EXCEPT !.to = d] : f \in gone}

Holds(facts, s, o) ==
  \E f \in facts : f.s = Key(s) /\ f.o = Key(o) /\ f.to = None

(* addFact: an identical live fact is left alone.                          *)
Added(facts, id, s, o, from, source) ==
  IF Holds(facts, s, o) THEN facts
  ELSE facts \cup {[id |-> id, s |-> Key(s), o |-> Key(o), from |-> from,
                    to |-> None, source |-> source, at |-> day]}

(* A name that is not a ticket's may be an alias of one that is.           *)
Splits(s) == IF s \in Tickets THEN {} ELSE {Key(s)}

(* kb_fact_add, in one transaction: a value that is older than what the    *)
(* ledger holds is refused; retireContradicted, then addFact, unless what  *)
(* was to be retired is still there.                                       *)
FactAdd(f) ==
  LET ends == IF f.from = None THEN day ELSE f.from
      gone == Contradicted(rows, f.s, f.o)
      left == Retired(rows, Reached(rows, f.s, gone, ends), ends)
  IN /\ Offers("add") /\ last < setup.facts
     /\ \A g \in gone : ~StartsAfter(g, ends)
     /\ rows' = IF Contradicted(left, f.s, f.o) # {} THEN left
                ELSE Added(left, last + 1, f.s, f.o, f.from, f.source)
     /\ last' = last + 1
     /\ split' = split \cup Splits(f.s)
     /\ UNCHANGED <<setup, day, alias, entity, reviews, preview, call>>

(* consolidate, for one fact of a batch: older news is dropped, and so is, *)
(* once the others are retired, what was held before; a row that could not *)
(* be retired stays beside the new one.                                    *)
Stored(facts, id, f, contested, c) ==
  LET from == IF f.from = None THEN c.day ELSE f.from
      against == Contradicted(facts, f.s, f.o)
      newer == {r \in against : \/ StartsAfter(r, from)
                                \/ c.observed # None /\ r.at > c.observed}
      gone == Reached(facts, f.s, IF contested THEN {} ELSE against, from)
      held == \E r \in facts : r.s = Key(f.s) /\ r.to = None /\ SameValue(r, f.o)
  IN IF newer # {} THEN facts
     ELSE IF held THEN Retired(facts, gone, from)
     ELSE Added(Retired(facts, gone, from), id, f.s, f.o, from, TRUE)

(* findSingleValuedConflicts: two values for one ticket in one batch.      *)
Contested(batch) ==
  /\ Len(batch) = 2
  /\ {batch[1].s, batch[2].s} \subseteq Tickets
  /\ Key(batch[1].s) = Key(batch[2].s) /\ Key(batch[1].o) # Key(batch[2].o)

\* Mutant: the rows of a batch are told apart by the time only.
ConsolidatedAtOnce(c) ==
  LET both == Contested(c.batch)
      one == Stored(rows, last + 1, c.batch[1], both, c)
  IN CASE Len(c.batch) = 0 -> rows
       [] Len(c.batch) = 1 -> one
       [] OTHER -> Stored(one, last + 1, c.batch[2], both, c)

(* consolidate.                                                            *)
Consolidated(c) ==
  LET both == Contested(c.batch)
      one == Stored(rows, last + 1, c.batch[1], both, c)
  IN CASE Len(c.batch) = 0 -> rows
       [] Len(c.batch) = 1 -> one
       [] OTHER -> Stored(one, last + 2, c.batch[2], both, c)
-----------------------------------------------------------------------------
(* kb_extract: a model reads a text, the candidates are consolidated.      *)

(* The observation day is part of a preview's key, the instant is not.     *)
Recalled(d) == preview # None /\ preview.day = d

ExtractStarts(c, d, observed, dry) ==
  LET replay == ~dry /\ Recalled(d) IN
  /\ Calls(c, "extract")
  /\ d =< day /\ (observed # None => observed =< day)
  /\ call' = [call EXCEPT ![c] =
       [Idle EXCEPT !.pc = IF replay THEN "stores" ELSE "asks",
                    !.day = d, !.observed = observed, !.dry = dry,
                    !.replay = replay,
                    !.batch = IF replay THEN preview.batch ELSE << >>]]
  /\ UNCHANGED <<setup, day, ledger, alias, entity, reviews, preview, split>>

(* extractFacts, groundExtraction: some chunks may have failed, twice or   *)
(* at the deadline; their facts are missing.                               *)
ExtractAnswers(c, batch) ==
  /\ call[c].pc = "asks"
  /\ preview' = IF call[c].dry THEN [batch |-> batch, day |-> call[c].day] ELSE preview
  /\ call' = [call EXCEPT ![c] =
       IF call[c].dry THEN Idle ELSE [call[c] EXCEPT !.pc = "stores", !.batch = batch]]
  /\ UNCHANGED <<setup, day, ledger, alias, entity, reviews, split>>

(* Every chunk failed, or the caller aborted.                              *)
ExtractFails(c) ==
  /\ call[c].pc = "asks"
  /\ call' = [call EXCEPT ![c] = Idle]
  /\ UNCHANGED <<setup, day, ledger, alias, entity, reviews, preview, split>>

(* consolidate, in one transaction; a preview is committed once.           *)
ExtractStores(c) ==
  LET b == call[c].batch IN
  /\ call[c].pc = "stores" /\ last + Len(b) =< setup.facts
  /\ rows' = Consolidated(call[c]) /\ last' = last + Len(b)
  /\ split' = split \cup (UNION {Splits(b[i].s) : i \in DOMAIN b})
                    \cup (IF Contested(b) THEN {Key(b[1].s)} ELSE {})
  /\ preview' = IF call[c].replay THEN None ELSE preview
  /\ call' = [call EXCEPT ![c] = Idle]
  /\ UNCHANGED <<setup, day, alias, entity, reviews>>

(* An hour has passed, or other previews have.                             *)
PreviewExpires ==
  /\ preview # None
  /\ preview' = None
  /\ UNCHANGED <<setup, day, ledger, alias, entity, reviews, call, split>>
-----------------------------------------------------------------------------
(* kb_fact_invalidate.                                                     *)

(* By triple: invalidateFact resolves the names and looks at the latest    *)
(* start in one statement ...                                              *)
InvalidateReads(c, s, o, d) ==
  LET hits == {f \in Live(Key(s)) : f.o = Key(o)} IN
  /\ Calls(c, "invalidate")
  /\ \A f \in hits : ~StartsAfter(f, d)
  /\ call' = [call EXCEPT ![c] = [Idle EXCEPT !.pc = "ends", !.s = Key(s),
                                              !.o = Key(o), !.day = d]]
  /\ UNCHANGED <<setup, day, ledger, alias, entity, reviews, preview, split>>

(* ... and ends what is live in another.                                   *)
InvalidateWrites(c) ==
  LET p == call[c] IN
  /\ p.pc = "ends"
  /\ rows' = Retired(rows, {f \in Live(p.s) : f.o = p.o}, p.day)
  /\ call' = [call EXCEPT ![c] = Idle]
  /\ UNCHANGED <<setup, day, last, alias, entity, reviews, preview, split>>

(* By id: a start never changes, so the two statements act as one.         *)
InvalidateById(f, d) ==
  /\ Offers("invalidate")
  /\ f \in rows /\ f.to = None /\ ~StartsAfter(f, d)
  /\ rows' = Retired(rows, {f}, d)
  /\ UNCHANGED <<setup, day, last, alias, entity, reviews, preview, call, split>>
-----------------------------------------------------------------------------
(* mergeEntity: kb entity-merge.                                           *)

(* Both names are resolved before the transaction.                         *)
MergeStarts(c, from, to) ==
  /\ Calls(c, "merge")
  /\ Key(from) # Key(to)
  /\ call' = [call EXCEPT ![c] = [Idle EXCEPT !.pc = "merges", !.s = Key(from), !.o = Key(to),
                                              !.name = to]]
  /\ UNCHANGED <<setup, day, ledger, alias, entity, reviews, preview, split>>

Renamed(n, from, to) == IF n = from THEN to ELSE n

RowRenamed(f, from, to) ==
  [f EXCEPT !.s = Renamed(@, from, to), !.o = Renamed(@, from, to)]

(* ORDER BY valid_from, where NULL is first; then the order of insertion.  *)
Earlier(f, g) ==
  \/ f.from = None /\ g.from # None
  \/ f.from # None /\ g.from # None /\ f.from < g.from
  \/ f.from = g.from /\ f.id < g.id

\* Mutant: the latest of equal facts is kept.
DedupedLatest(facts, n) ==
  {f \in facts : ~\E g \in facts :
     /\ {f.to, g.to} = {None} /\ n \in {f.s, f.o}
     /\ g.s = f.s /\ g.o = f.o /\ Earlier(f, g)}

(* dedupeLiveFacts: of live rows that say the same of an entity, the       *)
(* earliest stays.                                                         *)
Deduped(facts, n) ==
  {f \in facts : ~\E g \in facts :
     /\ {f.to, g.to} = {None} /\ n \in {f.s, f.o}
     /\ g.s = f.s /\ g.o = f.o /\ Earlier(g, f)}

MergeCommits(c) ==
  LET p == call[c]
      left == Deduped({RowRenamed(f, p.s, p.o) : f \in rows}, p.o)
      subjects == {f.s : f \in {g \in left : p.o \in {g.s, g.o}}}
      several(s) == Cardinality({f \in left : f.s = s /\ f.to = None}) > 1
  IN
  /\ p.pc = "merges"
  /\ rows' = left
  /\ alias' = [n \in Names |-> IF n = p.s \/ alias[n] = p.s THEN p.o ELSE alias[n]]
  /\ entity' = [entity EXCEPT ![p.o] = IF @ = None THEN p.name ELSE @, ![p.s] = None]
  /\ split' = split \cup {s \in subjects : several(s)}
  /\ call' = [call EXCEPT ![c] = Idle]
  /\ UNCHANGED <<setup, day, last, reviews, preview>>
-----------------------------------------------------------------------------
(* Reviews: fact-reviews.js.                                               *)

(* normalizeReviewItems: each fact once; what is superseded needs a fact   *)
(* that is current, what has no source can only be abstained from.         *)
Judgements(facts) ==
  {d \in [Ids(facts) -> Verdicts] :
     /\ (\E i \in DOMAIN d : d[i] = "superseded") => \E i \in DOMAIN d : d[i] = "current"
     /\ \A f \in facts : ~f.source => d[f.id] = "abstain"}

Seen(facts) == {<<f.id, f.o>> : f \in facts}

(* latestReviewForGroup, or 0.                                             *)
Latest(s) ==
  LET own == {i \in DOMAIN reviews : reviews[i].s = s \/ alias[reviews[i].s] = s}
  IN IF own = {} THEN 0 ELSE CHOOSE i \in own : \A j \in own : j =< i

\* Mutant: only facts that have gone make a review stale.
FreshOfRemoved(s) == DOMAIN reviews[Latest(s)].items \subseteq Ids(Live(s))

(* buildReviewState: neither added nor removed facts.                      *)
Fresh(s) == Ids(Live(s)) = DOMAIN reviews[Latest(s)].items

(* The projection: which facts are current, as far as a review says.       *)
Available(s) ==
  /\ Live(s) # {} /\ Latest(s) # 0 /\ Fresh(s)
  /\ \A i \in DOMAIN reviews[Latest(s)].items : reviews[Latest(s)].items[i] # "abstain"

(* reviewFactGroup, in one transaction: the judgement must cover the live  *)
(* facts exactly, and change something.                                    *)
Accepts(s, items) ==
  /\ Live(s) # {} /\ DOMAIN items = Ids(Live(s))
  /\ Latest(s) # 0 => reviews[Latest(s)].items # items

Reviewed(s, items, seen) ==
  reviews' = Append(reviews, [s |-> s, items |-> items, seen |-> seen])

(* Somebody reads the report of kb fact-conflicts ...                      *)
ReviewReads(c, s) ==
  /\ Calls(c, "review") /\ Live(Key(s)) # {}
  /\ call' = [call EXCEPT ![c] = [Idle EXCEPT !.pc = "judges", !.s = s, !.seen = Live(Key(s))]]
  /\ UNCHANGED <<setup, day, ledger, alias, entity, reviews, preview, split>>

(* ... and runs kb fact-adjudicate some time later.                        *)
ReviewWrites(c, items) ==
  LET p == call[c] IN
  /\ p.pc = "judges" /\ items \in Judgements(p.seen)
  /\ IF Accepts(Key(p.s), items)
     THEN Len(reviews) < MaxReviews /\ Reviewed(Key(p.s), items, Seen(p.seen))
     ELSE UNCHANGED reviews
  /\ call' = [call EXCEPT ![c] = Idle]
  /\ UNCHANGED <<setup, day, ledger, alias, entity, preview, split>>
-----------------------------------------------------------------------------
FactsNext ==
  \/ DayPasses
  \/ \E f \in setup.byHand : FactAdd(f)
  \/ PreviewExpires
  \/ \E f \in rows : \E d \in Days : InvalidateById(f, d)
  \/ \E c \in Callers :
       \/ \E d \in Days : \E observed \in Days \cup {None} : \E dry \in BOOLEAN :
            ExtractStarts(c, d, observed, dry)
       \/ \E batch \in Batches : ExtractAnswers(c, batch)
       \/ ExtractFails(c) \/ ExtractStores(c)
       \/ \E s \in Subjects : \E o \in Values : \E d \in Days : InvalidateReads(c, s, o, d)
       \/ InvalidateWrites(c)
       \/ \E pair \in Renames : MergeStarts(c, pair[1], pair[2])
       \/ MergeCommits(c)
       \/ \E s \in Subjects : ReviewReads(c, s)
       \/ \E items \in Judgements(call[c].seen) : ReviewWrites(c, items)

FactsSpec == FactsInit /\ [][FactsNext]_factVars
-----------------------------------------------------------------------------
Stages == {"idle", "asks", "stores", "ends", "merges", "judges"}

(* The type invariant.                                                     *)
FactsTypeOK ==
  /\ setup \in Setups /\ day \in Days
  /\ rows \subseteq Fact /\ last \in Nat
  /\ \A f \in rows : f.id =< last
  /\ \A f, g \in rows : f.id = g.id => f = g
  /\ {alias, entity} \subseteq [Names -> Names \cup {None}]
  /\ \A i \in DOMAIN reviews :
       /\ reviews[i].s \in Names
       /\ DOMAIN reviews[i].items \subseteq 1..last
       /\ \A n \in DOMAIN reviews[i].items : reviews[i].items[n] \in Verdicts
  /\ preview \in {None} \cup [batch : Batches, day : Days]
  /\ \A c \in Callers :
       /\ call[c].pc \in Stages
       /\ call[c].day \in Days \cup {None} /\ call[c].observed \in Days \cup {None}
       /\ call[c].batch \in Batches
       /\ call[c].pc \in {"ends", "merges", "judges"} => call[c].s \in Names
       /\ call[c].pc \in {"ends", "merges"} => call[c].o \in Names
  /\ split \subseteq Names

(* No relationship is stated by two live rows, and a ticket has one        *)
(* current value however many processes write it; but for values that one  *)
(* batch left contested, that a rename brought together, or that somebody  *)
(* stated of a name that no ticket has, yet that a ticket has been merged  *)
(* into; and but for a value that was itself merged away, which, as        *)
(* overlapping merges can leave it, neither writer finds to retire it.     *)
LedgerSound ==
  \A f, g \in rows : (f # g /\ f.to = None /\ g.to = None /\ f.s = g.s) =>
    /\ f.o # g.o
    /\ f.s \in Tickets => f.s \in split \/ alias[f.o] # None \/ alias[g.o] # None

(* A rename loses nothing: what was stated is stated under the new name,   *)
(* from no later a day, and what has ended stays in the history.           *)
MergesKeepFacts ==
  [][\A c \in Callers : (call[c].pc = "merges" /\ call'[c].pc = "idle") =>
       LET p == call[c] IN
       /\ \A f \in rows : f.to = None =>
            \E g \in rows' :
              /\ g.to = None /\ g.s = Renamed(f.s, p.s, p.o) /\ g.o = Renamed(f.o, p.s, p.o)
              /\ g.from # None => f.from # None /\ g.from =< f.from
       /\ Ids({f \in rows : f.to # None}) \subseteq Ids(rows')]_factVars

(* What the ledger calls current by a review rests on one reviewer who saw *)
(* exactly these facts, with the values they have but for a rename; a fact *)
(* that came, went or moved in since makes the review stale.               *)
SettledMeansSeen ==
  \A s \in Names : alias[s] = None /\ Available(s) =>
    /\ Ids(Live(s)) = {e[1] : e \in reviews[Latest(s)].seen}
    /\ \A f \in Live(s) : \E e \in reviews[Latest(s)].seen :
         e[1] = f.id /\ (e[2] = f.o \/ alias[e[2]] # None)
=============================================================================
