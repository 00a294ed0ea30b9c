------------------------ MODULE Reconciliation_proofs ------------------------
(* The safety properties of the fact ledger and of kb reconcile, for any    *)
(* number of processes, names, batches and days.                            *)
EXTENDS Reconciliation, WellFoundedInduction, FiniteSetTheorems, TLAPS

-----------------------------------------------------------------------------
(* Numbers and finite sets.                                                 *)

(* A set of numbers has a least one.                                        *)
LEMMA Least ==
  ASSUME NEW S, S \subseteq Nat, S # {}
  PROVE  \E m \in S : \A k \in S : m =< k
  <1> PICK n \in S : TRUE
    OBVIOUS
  <1> DEFINE F == {0..k : k \in {k \in S : k =< n}}
             R == StrictSubsetOrdering(0..n)
  <1>1. IsWellFoundedOn(R, SUBSET (0..n))
    <2>1. IsFiniteSet(0..n)
      BY FS_Interval
    <2> QED
      BY <2>1, FS_FiniteSubsetsOfFinite, FS_StrictSubsetOrderingWellFounded
  <1>2. F \subseteq SUBSET (0..n) /\ F # {}
    OBVIOUS
  <1> HIDE DEF R
  <1>3. \E x \in F : \A y \in F : <<y, x>> \notin R
    BY <1>1, <1>2, WFMin
  <1>4. PICK m \in S : m =< n /\ \A y \in F : <<y, 0..m>> \notin R
    BY <1>3
  <1>5. ASSUME NEW k \in S, k < m PROVE FALSE
    <2>1. 0..k \in F /\ 0..k \subseteq 0..m /\ 0..k # 0..m
      <3>1. m \in 0..m /\ m \notin 0..k
        BY <1>5
      <3> QED
        BY <1>4, <1>5, <3>1
    <2>2. 0..k \in SUBSET (0..n) /\ 0..m \in SUBSET (0..n)
      BY <1>4, <1>5
    <2> QED
      BY <1>4, <2>1, <2>2 DEF R, StrictSubsetOrdering
  <1> QED
    BY <1>4, <1>5

(* A set of numbers up to a bound has a greatest one.                       *)
LEMMA Greatest ==
  ASSUME NEW n \in Nat, NEW S, S \subseteq 0..n, S # {}
  PROVE  \E m \in S : \A k \in S : k =< m
  <1> DEFINE T == {n - k : k \in S}
  <1>1. T \subseteq Nat /\ T # {}
    OBVIOUS
  <1>2. PICK d \in T : \A k \in T : d =< k
    BY <1>1, Least
  <1>3. PICK m \in S : d = n - m
    OBVIOUS
  <1>4. ASSUME NEW k \in S PROVE k =< m
    <2>1. n - k \in T
      OBVIOUS
    <2>2. k \in Int /\ m \in Int
      OBVIOUS
    <2> HIDE DEF T
    <2> QED
      BY <1>2, <1>3, <2>1, <2>2
  <1> QED
    BY <1>4

(* Two elements of a finite set are more than one.                          *)
LEMMA MoreThanOne ==
  ASSUME NEW S, IsFiniteSet(S), NEW a \in S, NEW b \in S, a # b
  PROVE  Cardinality(S) > 1
  <1>1. Cardinality({a}) = 1 /\ IsFiniteSet({a})
    BY FS_Singleton
  <1>2. IsFiniteSet({a} \cup {b}) /\ Cardinality({a} \cup {b}) = 2
    <2>1. b \notin {a}
      OBVIOUS
    <2> QED
      BY <1>1, <2>1, FS_AddElement
  <1>3. Cardinality({a} \cup {b}) =< Cardinality(S)
    BY FS_Subset
  <1>4. Cardinality(S) \in Nat
    BY FS_CardinalityType
  <1> QED
    BY <1>2, <1>3, <1>4
-----------------------------------------------------------------------------
(* The rows of the ledger.                                                  *)

(* Facts are told apart by their ids, which have been given out.            *)
RowsOK(facts, upTo) ==
  /\ facts \subseteq Fact
  /\ \A f \in facts : f.id \in 1..upTo
  /\ \A f, g \in facts : f.id = g.id => f = g

(* LedgerSound, of any rows; what was merged away is stray.                 *)
Sound(facts, excused, stray) ==
  \A f, g \in facts : (f # g /\ f.to = None /\ g.to = None /\ f.s = g.s) =>
    /\ f.o # g.o
    /\ f.s \in Tickets => f.s \in excused \/ f.o \in stray \/ g.o \in stray

Stray == {n \in Names : alias[n] # None}

(* Nothing of what has an id up to a bound comes or gets another value.     *)
Follows(facts, old, upTo) ==
  \A g \in facts : g.id > upTo \/ \E f \in old : f.id = g.id /\ f.o = g.o

LEMMA RowsAreFinite ==
  ASSUME NEW F, NEW l \in Nat, RowsOK(F, l)
  PROVE  IsFiniteSet(F)
  <1> DEFINE h == [f \in F |-> f.id]
  <1>1. h \in Injection(F, 1..l)
    <2>1. h \in [F -> 1..l]
      BY DEF RowsOK
    <2>2. \A f, g \in F : h[f] = h[g] => f = g
      BY DEF RowsOK
    <2> HIDE DEF h
    <2> QED
      BY <2>1, <2>2 DEF Injection, IsInjective
  <1>2. IsFiniteSet(1..l)
    BY FS_Interval
  <1> HIDE DEF h
  <1> QED
    BY <1>1, <1>2, FS_Injection

(* A fact that is ended keeps everything else.                              *)
LEMMA EndedFact ==
  ASSUME NEW f \in Fact, NEW d \in Nat
  PROVE  LET e == [f EXCEPT !.to = d]
         IN e \in Fact /\ e.id = f.id /\ e.s = f.s /\ e.o = f.o /\ e.from = f.from /\ e.to = d
  BY FactsAssumption DEF Fact

LEMMA RetiredRows ==
  ASSUME NEW F, NEW l \in Nat, RowsOK(F, l),
         NEW gone, gone \subseteq F, NEW d \in Nat
  PROVE  /\ RowsOK(Retired(F, gone, d), l)
         /\ Follows(Retired(F, gone, d), F, l)
         /\ \A f \in Retired(F, gone, d) : f.to = None => f \in F /\ f \notin gone
  <1> DEFINE E(f) == [f EXCEPT !.to = d]
  <1>1. \A f \in gone : E(f) \in Fact /\ E(f).id = f.id /\ E(f).s = f.s /\ E(f).o = f.o /\ E(f).to = d
    BY EndedFact DEF RowsOK
  <1>2. None # d
    BY FactsAssumption
  <1>3. Retired(F, gone, d) = (F \ gone) \cup {E(f) : f \in gone}
    BY DEF Retired
  <1> HIDE DEF E
  <1>4. ASSUME NEW g \in Retired(F, gone, d)
        PROVE  \E f \in F : /\ f.id = g.id /\ f.o = g.o /\ g \in Fact
                            /\ \/ g = f /\ f \notin gone
                               \/ g = E(f) /\ f \in gone
    BY <1>1, <1>3 DEF RowsOK
  <1>5. \A f, g \in Retired(F, gone, d) : f.id = g.id => f = g
    BY <1>4 DEF RowsOK
  <1>6. RowsOK(Retired(F, gone, d), l)
    BY <1>4, <1>5 DEF RowsOK
  <1>7. Follows(Retired(F, gone, d), F, l)
    BY <1>4 DEF Follows
  <1> QED
    BY <1>1, <1>2, <1>4, <1>6, <1>7

LEMMA RetiredSound ==
  ASSUME NEW F, NEW l \in Nat, RowsOK(F, l), NEW sp, NEW st, Sound(F, sp, st),
         NEW gone, gone \subseteq F, NEW d \in Nat
  PROVE  Sound(Retired(F, gone, d), sp, st)
  BY RetiredRows DEF Sound

(* addFact, of a new id.                                                    *)
LEMMA AddedRows ==
  ASSUME NEW F, NEW l \in Nat, RowsOK(F, l), NEW id \in Nat, id > l,
         NEW s, NEW o, Key(s) \in Names, Key(o) \in Names,
         NEW from \in Nat \cup {None}, NEW source \in BOOLEAN, day \in Nat
  PROVE  /\ RowsOK(Added(F, id, s, o, from, source), id)
         /\ Follows(Added(F, id, s, o, from, source), F, l)
  <1> DEFINE new == [id |-> id, s |-> Key(s), o |-> Key(o), from |-> from,
                     to |-> None, source |-> source, at |-> day]
  <1>1. new \in Fact /\ new.id = id
    BY DEF Fact
  <1>2. Added(F, id, s, o, from, source) \in {F, F \cup {new}}
    BY DEF Added
  <1> HIDE DEF new
  <1>3. RowsOK(F, id) /\ RowsOK(F \cup {new}, id)
    BY <1>1 DEF RowsOK
  <1>4. Follows(F, F, l) /\ Follows(F \cup {new}, F, l)
    BY <1>1 DEF Follows
  <1> QED
    BY <1>2, <1>3, <1>4

LEMMA AddedSound ==
  ASSUME NEW F, NEW sp, NEW st, Sound(F, sp, st),
         NEW id, NEW s, NEW o, NEW from, NEW source,
         \/ Key(s) \in sp
         \/ \A f \in F : f.s = Key(s) /\ f.to = None => f.o = Key(o) \/ f.o \in st
  PROVE  Sound(Added(F, id, s, o, from, source), sp, st)
  <1> DEFINE new == [id |-> id, s |-> Key(s), o |-> Key(o), from |-> from,
                     to |-> None, source |-> source, at |-> day]
  <1>1. new.s = Key(s) /\ new.o = Key(o)
    OBVIOUS
  <1>2. CASE Holds(F, s, o)
    BY <1>2 DEF Added
  <1>3. CASE ~Holds(F, s, o)
    <2>1. Added(F, id, s, o, from, source) = F \cup {new}
      BY <1>3 DEF Added
    <2>2. \A f \in F : f.s = Key(s) /\ f.to = None => f.o # Key(o)
      BY <1>3 DEF Holds
    <2> HIDE DEF new
    <2>3. \A f \in F : (f.to = None /\ f.s = new.s) =>
            f.o # new.o /\ (f.s \in sp \/ f.o \in st)
      BY <1>1, <2>2
    <2> QED
      BY <1>1, <2>1, <2>3 DEF Sound
  <1> QED
    BY <1>2, <1>3

(* One fact is written: no other value is left, unless that is excused.     *)
LEMMA WrittenOK ==
  ASSUME NEW F, NEW l \in Nat, RowsOK(F, l), NEW id \in Nat, id > l,
         NEW s, NEW o, Key(s) \in Names, Key(o) \in Names,
         NEW from \in Nat \cup {None}, NEW source \in BOOLEAN, day \in Nat,
         NEW sp, NEW st, Sound(F, sp, st), NEW gone, gone \subseteq F, NEW d \in Nat,
         \/ Key(s) \in sp
         \/ \A f \in F \ gone : f.s = Key(s) /\ f.to = None => f.o = Key(o) \/ f.o \in st
  PROVE  LET G == Added(Retired(F, gone, d), id, s, o, from, source)
         IN RowsOK(G, id) /\ Follows(G, F, l) /\ Sound(G, sp, st)
  <1> DEFINE R == Retired(F, gone, d)
             G == Added(R, id, s, o, from, source)
  <1>1. RowsOK(R, l) /\ Follows(R, F, l) /\ \A f \in R : f.to = None => f \in F /\ f \notin gone
    BY RetiredRows
  <1>2. Sound(R, sp, st)
    BY RetiredSound
  <1> HIDE DEF R
  <1>3. RowsOK(G, id) /\ Follows(G, R, l)
    BY <1>1, AddedRows
  <1>4. \/ Key(s) \in sp
        \/ \A f \in R : f.s = Key(s) /\ f.to = None => f.o = Key(o) \/ f.o \in st
    BY <1>1
  <1>5. Sound(G, sp, st)
    BY <1>2, <1>4, AddedSound
  <1> HIDE DEF G
  <1>6. Follows(G, F, l)
    <2> SUFFICES ASSUME NEW g \in G, ~(g.id > l)
                 PROVE  \E f \in F : f.id = g.id /\ f.o = g.o
      BY DEF Follows
    <2>1. PICK r \in R : r.id = g.id /\ r.o = g.o
      BY <1>3 DEF Follows
    <2> QED
      BY <1>1, <2>1 DEF Follows
  <1> QED
    BY <1>3, <1>5, <1>6 DEF G, R
-----------------------------------------------------------------------------
(* The names.                                                               *)

(* A name that was not merged away is shown as itself.                      *)
AliasOK ==
  /\ alias \in [Names -> Names \cup {None}]
  /\ entity \in [Names -> Names \cup {None}]
  /\ \A n \in Names : alias[n] = None => entity[n] = n

LEMMA KeyType ==
  ASSUME AliasOK, NEW n \in Names
  PROVE  Key(n) \in Names
  BY DEF AliasOK, Key

(* So its value is the same only if it is the same name.                    *)
LEMMA SameIsEqual ==
  ASSUME AliasOK, NEW f, f.o \in Names \ Stray
  PROVE  Key(entity[f.o]) = f.o
  BY DEF AliasOK, Key, Stray

LEMMA ReachedRows ==
  ASSUME NEW F, NEW s, NEW gone, NEW d
  PROVE  Reached(F, s, gone, d) \subseteq F
  BY DEF Reached
-----------------------------------------------------------------------------
(* consolidate.                                                             *)

LEMMA StoredOK ==
  ASSUME AliasOK, NEW F, NEW l \in Nat, RowsOK(F, l), NEW id \in Nat, id > l,
         NEW f, f.from \in Nat \cup {None}, Key(f.s) \in Names, Key(f.o) \in Names,
         day \in Nat, NEW c, c.day \in Nat, NEW contested \in BOOLEAN,
         NEW sp, Sound(F, sp, Stray), Key(f.s) \in sp \/ (f.s \in Tickets /\ ~contested)
  PROVE  LET G == Stored(F, id, f, contested, c)
         IN RowsOK(G, id) /\ Follows(G, F, l) /\ Sound(G, sp, Stray)
  <1> DEFINE from == IF f.from = None THEN c.day ELSE f.from
             against == Contradicted(F, f.s, f.o)
             newer == {r \in against : \/ StartsAfter(r, from)
                                       \/ c.observed # None /\ r.at > c.observed}
             gone == Reached(F, f.s, IF contested THEN {} ELSE against, from)
             R == Retired(F, gone, from)
             G == Added(R, id, f.s, f.o, from, TRUE)
  <1>1. Stored(F, id, f, contested, c) \in {F, R, G} /\ (newer # {} => Stored(F, id, f, contested, c) = F)
    BY DEF Stored
  <1>2. from \in Nat
    OBVIOUS
  <1>3. gone \subseteq F
    BY ReachedRows
  <1>4. CASE newer # {}
    BY <1>1, <1>4 DEF RowsOK, Follows
  <1>5. CASE newer = {}
    <2>1. ASSUME Key(f.s) \notin sp, NEW r \in F \ gone,
                 r.s = Key(f.s), r.to = None, r.o # Key(f.o), r.o \notin Stray
          PROVE  FALSE
      <3>1. f.s \in Tickets /\ ~contested
        BY <2>1
      <3>2. Key(entity[r.o]) = r.o
        BY <2>1, SameIsEqual DEF RowsOK, Fact
      <3>3. ASSUME NEW h \in F, h.s = Key(f.s), h.o = r.o, h.to = None
            PROVE  ~StartsAfter(h, from)
        <4>1. h \in against
          BY <2>1, <3>1, <3>2, <3>3 DEF Contradicted, SameValue
        <4> QED
          BY <1>5, <4>1
      <3>4. r \in against
        BY <2>1, <3>1, <3>2 DEF Contradicted, SameValue
      <3> HIDE DEF against, from
      <3>5. r \in Reached(F, f.s, against, from)
        BY <2>1, <3>2, <3>3, <3>4 DEF Reached
      <3> QED
        BY <2>1, <3>1, <3>5
    <2> HIDE DEF from, gone
    <2>2. RowsOK(G, id) /\ Follows(G, F, l) /\ Sound(G, sp, Stray)
      BY <1>2, <1>3, <2>1, WrittenOK
    <2>3. RowsOK(R, l) /\ Follows(R, F, l) /\ Sound(R, sp, Stray)
      BY <1>2, <1>3, RetiredRows, RetiredSound
    <2> HIDE DEF R, G
    <2>4. RowsOK(R, id) /\ RowsOK(F, id) /\ Follows(F, F, l)
      BY <2>3 DEF RowsOK, Follows
    <2> QED
      BY <1>1, <2>2, <2>3, <2>4
  <1> QED
    BY <1>4, <1>5

LEMMA BatchFacts ==
  ASSUME NEW b \in Batches
  PROVE  /\ Len(b) \in {0, 1, 2} /\ DOMAIN b = 1..Len(b)
         /\ \A i \in DOMAIN b :
              b[i].s \in Names /\ b[i].o \in Names /\ b[i].from \in Nat \cup {None}
  <1>1. b \in Seq(Dated) /\ Len(b) =< 2
    BY FactsAssumption
  <1>2. Dated \subseteq [s : Names, o : Names, from : Nat \cup {None}]
    BY FactsAssumption DEF Dated
  <1>3. \A i \in 1..Len(b) : b[i] \in [s : Names, o : Names, from : Nat \cup {None}]
    BY <1>1, <1>2
  <1>4. Len(b) \in Nat /\ DOMAIN b = 1..Len(b)
    BY <1>1
  <1>5. Len(b) \in {0, 1, 2}
    BY <1>1, <1>4
  <1> QED
    BY <1>3, <1>4, <1>5

(* The entities that a batch excuses.                                       *)
Excuses(b) ==
  (UNION {Splits(b[i].s) : i \in DOMAIN b}) \cup (IF Contested(b) THEN {Key(b[1].s)} ELSE {})

LEMMA ConsolidatedOK ==
  ASSUME AliasOK, day \in Nat, last \in Nat, RowsOK(rows, last),
         NEW c, c.batch \in Batches, c.day \in Nat,
         NEW sp, Sound(rows, sp, Stray), Excuses(c.batch) \subseteq sp
  PROVE  LET G == Consolidated(c)
         IN RowsOK(G, last + Len(c.batch)) /\ Follows(G, rows, last) /\ Sound(G, sp, Stray)
  <1> DEFINE b == c.batch
             both == Contested(b)
             one == Stored(rows, last + 1, b[1], both, c)
             two == Stored(one, last + 2, b[2], both, c)
  <1>1. /\ Len(b) \in {0, 1, 2} /\ DOMAIN b = 1..Len(b)
        /\ \A i \in DOMAIN b :
             b[i].s \in Names /\ b[i].o \in Names /\ b[i].from \in Nat \cup {None}
    BY BatchFacts
  <1>2. both \in BOOLEAN
    BY DEF Contested
  <1>3. ASSUME NEW i \in DOMAIN b
        PROVE  /\ Key(b[i].s) \in Names /\ Key(b[i].o) \in Names
               /\ Key(b[i].s) \in sp \/ (b[i].s \in Tickets /\ ~both)
    <2>1. Key(b[i].s) \in Names /\ Key(b[i].o) \in Names
      BY <1>1, <1>3, KeyType
    <2>2. CASE both
      <3>1. Key(b[1].s) = Key(b[2].s) /\ Len(b) = 2
        BY <2>2 DEF Contested
      <3>2. Key(b[1].s) \in sp
        <4>1. Key(b[1].s) \in Excuses(b)
          BY <2>2, Zenon DEF Excuses
        <4> QED
          BY <4>1
      <3> QED
        BY <1>1, <2>1, <3>1, <3>2
    <2>3. CASE ~both /\ b[i].s \notin Tickets
      BY <2>1, <2>3 DEF Excuses, Splits
    <2> QED
      BY <2>1, <2>2, <2>3
  <1> HIDE DEF b, both
  <1>4. CASE Len(b) = 0
    BY <1>4 DEF b, Consolidated, RowsOK, Follows
  <1>5. ASSUME Len(b) # 0
        PROVE  RowsOK(one, last + 1) /\ Follows(one, rows, last) /\ Sound(one, sp, Stray)
    <2>1. 1 \in DOMAIN b
      BY <1>1, <1>5
    <2> QED
      BY <1>1, <1>2, <1>3, <2>1, StoredOK
  <1> HIDE DEF one
  <1>6. CASE Len(b) = 1
    BY <1>5, <1>6 DEF b, one, both, Consolidated
  <1>7. CASE Len(b) = 2
    <2>1. 2 \in DOMAIN b
      BY <1>1, <1>7
    <2>2. RowsOK(two, last + 2) /\ Follows(two, one, last + 1) /\ Sound(two, sp, Stray)
      BY <1>1, <1>2, <1>3, <1>5, <1>7, <2>1, StoredOK
    <2>3. Consolidated(c) = two
      <3>1. ~(Len(c.batch) = 0) /\ ~(Len(c.batch) = 1)
        BY <1>7 DEF b
      <3> QED
        BY <3>1, Zenon DEF b, one, both, Consolidated
    <2> HIDE DEF two
    <2>4. Follows(two, rows, last)
      <3> SUFFICES ASSUME NEW g \in two, ~(g.id > last)
                   PROVE  \E f \in rows : f.id = g.id /\ f.o = g.o
        BY DEF Follows
      <3>1. g.id \in Nat
        BY <2>2 DEF RowsOK, Fact
      <3>2. PICK r \in one : r.id = g.id /\ r.o = g.o
        BY <2>2, <3>1 DEF Follows
      <3> QED
        BY <1>5, <1>7, <3>2 DEF Follows
    <2> QED
      BY <1>7, <2>2, <2>3, <2>4 DEF b
  <1> QED
    BY <1>1, <1>4, <1>6, <1>7
-----------------------------------------------------------------------------
(* mergeEntity.                                                             *)

LEMMA RenamedFact ==
  ASSUME NEW f \in Fact, NEW from \in Names, NEW to \in Names
  PROVE  LET g == RowRenamed(f, from, to)
         IN /\ g \in Fact /\ g.id = f.id /\ g.from = f.from /\ g.to = f.to
            /\ g.s = Renamed(f.s, from, to) /\ g.o = Renamed(f.o, from, to)
  <1> DEFINE e == [f EXCEPT !.s = Renamed(f.s, from, to)]
             h == [e EXCEPT !.o = Renamed(f.o, from, to)]
  <1>1. Renamed(f.s, from, to) \in Names /\ Renamed(f.o, from, to) \in Names
    BY DEF Renamed, Fact
  <1>2. /\ e \in Fact /\ e.id = f.id /\ e.from = f.from /\ e.to = f.to
        /\ e.s = Renamed(f.s, from, to) /\ e.o = f.o
    BY <1>1 DEF Fact
  <1> HIDE DEF e
  <1>3. /\ h \in Fact /\ h.id = e.id /\ h.from = e.from /\ h.to = e.to
        /\ h.s = e.s /\ h.o = Renamed(f.o, from, to)
    BY <1>1, <1>2 DEF Fact
  <1>4. RowRenamed(f, from, to) = h
    BY DEF RowRenamed, e, Fact
  <1> HIDE DEF h
  <1> QED
    BY <1>2, <1>3, <1>4

(* The order of two facts.                                                  *)
LEMMA EarlierIsTotal ==
  ASSUME NEW f \in Fact, NEW g \in Fact, f.id # g.id
  PROVE  Earlier(f, g) \/ Earlier(g, f)
  BY FactsAssumption DEF Earlier, Fact

(* Of facts that are live there is one that no other is earlier than.       *)
LEMMA EarliestExists ==
  ASSUME NEW D, D \subseteq Fact, D # {}
  PROVE  \E f \in D : \A g \in D : ~Earlier(g, f)
  <1> DEFINE N == {f \in D : f.from = None}
             F == {f.from : f \in D}
  <1>1. None \notin Nat /\ \A f \in D : f.from \in Nat \cup {None} /\ f.id \in Nat
    BY FactsAssumption DEF Fact
  <1>2. CASE N # {}
    <2>1. {f.id : f \in N} \subseteq Nat /\ {f.id : f \in N} # {}
      BY <1>1, <1>2
    <2>2. PICK i \in {f.id : f \in N} : \A k \in {f.id : f \in N} : i =< k
      BY <2>1, Least
    <2>3. PICK f \in N : f.id = i
      BY <2>2
    <2>4. ASSUME NEW g \in D PROVE ~Earlier(g, f)
      <3>1. g.from = None => i =< g.id
        BY <2>2
      <3> QED
        BY <1>1, <2>3, <3>1 DEF Earlier
    <2> QED
      BY <2>3, <2>4
  <1>3. CASE N = {}
    <2>1. F \subseteq Nat /\ F # {}
      BY <1>1, <1>3
    <2>2. PICK d \in F : \A k \in F : d =< k
      BY <2>1, Least
    <2> DEFINE M == {f \in D : f.from = d}
    <2>3. {f.id : f \in M} \subseteq Nat /\ {f.id : f \in M} # {}
      BY <1>1, <2>2
    <2>4. PICK i \in {f.id : f \in M} : \A k \in {f.id : f \in M} : i =< k
      BY <2>3, Least
    <2>5. PICK f \in M : f.id = i
      BY <2>4
    <2>6. ASSUME NEW g \in D PROVE ~Earlier(g, f)
      <3>1. g.from \in Nat /\ f.from = d /\ d \in Nat /\ d =< g.from
        BY <1>1, <1>3, <2>2, <2>5
      <3>2. g.from = d => i =< g.id
        BY <2>4
      <3> QED
        BY <1>1, <2>5, <3>1, <3>2 DEF Earlier
    <2> QED
      BY <2>5, <2>6
  <1> QED
    BY <1>2, <1>3

(* The rows after a merge.                                                  *)
AllRenamed(from, to) == {RowRenamed(f, from, to) : f \in rows}
Left(from, to) == Deduped(AllRenamed(from, to), to)

LEMMA RenamedRows ==
  ASSUME last \in Nat, RowsOK(rows, last), NEW from \in Names, NEW to \in Names
  PROVE  /\ RowsOK(AllRenamed(from, to), last)
         /\ \A g \in AllRenamed(from, to) :
              \E f \in rows : /\ g.id = f.id /\ g.from = f.from /\ g.to = f.to
                              /\ g.s = Renamed(f.s, from, to) /\ g.o = Renamed(f.o, from, to)
         /\ \A f \in rows :
              \E g \in AllRenamed(from, to) :
                /\ g.id = f.id /\ g.from = f.from /\ g.to = f.to
                /\ g.s = Renamed(f.s, from, to) /\ g.o = Renamed(f.o, from, to)
  <1> DEFINE R(f) == RowRenamed(f, from, to)
  <1>1. \A f \in rows :
          /\ R(f) \in Fact /\ R(f).id = f.id /\ R(f).from = f.from /\ R(f).to = f.to
          /\ R(f).s = Renamed(f.s, from, to) /\ R(f).o = Renamed(f.o, from, to)
    BY RenamedFact DEF RowsOK
  <1>2. AllRenamed(from, to) = {R(f) : f \in rows}
    BY DEF AllRenamed
  <1> HIDE DEF R
  <1> QED
    BY <1>1, <1>2 DEF RowsOK

LEMMA MergedRows ==
  ASSUME last \in Nat, RowsOK(rows, last), NEW from \in Names, NEW to \in Names
  PROVE  RowsOK(Left(from, to), last) /\ Left(from, to) \subseteq AllRenamed(from, to)
  BY RenamedRows DEF Left, Deduped, RowsOK

(* The entities to which a merge may have given two values.                 *)
Gathered(from, to) ==
  {s \in {f.s : f \in {g \in Left(from, to) : to \in {g.s, g.o}}} :
     Cardinality({f \in Left(from, to) : f.s = s /\ f.to = None}) > 1}

LEMMA MergedSound ==
  ASSUME last \in Nat, RowsOK(rows, last), NEW from \in Names, NEW to \in Names,
         NEW st, Sound(rows, split, st), NEW more, st \subseteq more
  PROVE  Sound(Left(from, to), split \cup Gathered(from, to), more)
  <1> DEFINE L == Left(from, to)
  <1> SUFFICES ASSUME NEW f \in L, NEW g \in L,
                      f # g, f.to = None, g.to = None, f.s = g.s
               PROVE  /\ f.o # g.o
                      /\ f.s \in Tickets => \/ f.s \in split \cup Gathered(from, to)
                                            \/ f.o \in more \/ g.o \in more
    BY DEF Sound
  <1>1. RowsOK(L, last) /\ L \subseteq AllRenamed(from, to)
    BY MergedRows
  <1>2. f.id # g.id /\ f \in Fact /\ g \in Fact
    BY <1>1 DEF RowsOK
  <1>3. CASE to \in {f.s, f.o} \/ to \in {g.s, g.o}
    <2>1. f.o # g.o
      <3> SUFFICES ASSUME f.o = g.o PROVE FALSE
        OBVIOUS
      <3>1. to \in {f.s, f.o} /\ to \in {g.s, g.o}
        BY <1>3
      <3>2. f \in AllRenamed(from, to) /\ g \in AllRenamed(from, to)
        BY <1>1
      <3>3. ~Earlier(f, g) /\ ~Earlier(g, f)
        BY <3>1, <3>2 DEF Left, Deduped
      <3> QED
        BY <1>2, <3>3, EarlierIsTotal
    <2>2. f.s \in {h.s : h \in {k \in L : to \in {k.s, k.o}}}
      BY <1>3
    <2>3. IsFiniteSet({h \in L : h.s = f.s /\ h.to = None})
      BY <1>1, RowsAreFinite, FS_Subset
    <2>4. Cardinality({h \in L : h.s = f.s /\ h.to = None}) > 1
      BY <2>3, MoreThanOne
    <2> QED
      BY <2>1, <2>2, <2>4 DEF Gathered
  <1>4. CASE to \notin {f.s, f.o} /\ to \notin {g.s, g.o}
    <2>1. PICK a \in rows : /\ f.id = a.id /\ f.to = a.to
                            /\ f.s = Renamed(a.s, from, to) /\ f.o = Renamed(a.o, from, to)
      BY <1>1, RenamedRows
    <2>2. PICK b \in rows : /\ g.id = b.id /\ g.to = b.to
                            /\ g.s = Renamed(b.s, from, to) /\ g.o = Renamed(b.o, from, to)
      BY <1>1, RenamedRows
    <2>3. a.s = f.s /\ a.o = f.o /\ b.s = g.s /\ b.o = g.o
      BY <1>4, <2>1, <2>2 DEF Renamed
    <2> QED
      BY <1>2, <2>1, <2>2, <2>3 DEF Sound
  <1> QED
    BY <1>3, <1>4

(* What a merge keeps, of a fact that is live.                              *)
LEMMA MergeKeepsLive ==
  ASSUME last \in Nat, RowsOK(rows, last), NEW from \in Names, NEW to \in Names,
         NEW f \in rows, f.to = None
  PROVE  \E g \in Left(from, to) :
           /\ g.to = None /\ g.s = Renamed(f.s, from, to) /\ g.o = Renamed(f.o, from, to)
           /\ g.from # None => f.from # None /\ g.from =< f.from
  <1> DEFINE R == AllRenamed(from, to)
  <1>1. PICK h \in R : /\ h.from = f.from /\ h.to = None
                       /\ h.s = Renamed(f.s, from, to) /\ h.o = Renamed(f.o, from, to)
    BY RenamedRows
  <1>2. R \subseteq Fact
    BY RenamedRows DEF RowsOK
  <1>3. None \notin Nat /\ \A g \in R : g.from \in Nat \cup {None}
    BY <1>2, FactsAssumption DEF Fact
  <1> HIDE DEF R
  <1>4. CASE to \in {h.s, h.o}
    <2> DEFINE D == {g \in R : g.to = None /\ g.s = h.s /\ g.o = h.o}
    <2>1. D \subseteq Fact /\ h \in D
      BY <1>1, <1>2
    <2>2. PICK m \in D : \A g \in D : ~Earlier(g, m)
      BY <2>1, EarliestExists
    <2>3. ASSUME NEW g \in R, {m.to, g.to} = {None}, g.s = m.s, g.o = m.o
          PROVE  ~Earlier(g, m)
      <3>1. g \in D
        BY <2>2, <2>3
      <3> QED
        BY <2>2, <3>1
    <2>4. m \in Left(from, to)
      BY <2>2, <2>3 DEF Left, Deduped, R
    <2>5. m.from # None => h.from # None /\ m.from =< h.from
      BY <1>1, <1>3, <2>1, <2>2 DEF Earlier
    <2> QED
      BY <1>1, <2>2, <2>4, <2>5
  <1>5. CASE to \notin {h.s, h.o}
    <2>1. h \in Left(from, to)
      BY <1>5 DEF Left, Deduped, R
    <2>2. h.from # None => h.from =< h.from
      BY <1>3
    <2> QED
      BY <1>1, <2>1, <2>2
  <1> QED
    BY <1>4, <1>5

LEMMA MergeKeepsEnded ==
  ASSUME last \in Nat, RowsOK(rows, last), NEW from \in Names, NEW to \in Names,
         NEW f \in rows, f.to # None
  PROVE  f.id \in Ids(Left(from, to))
  <1>1. PICK g \in AllRenamed(from, to) : g.id = f.id /\ g.to = f.to
    BY RenamedRows
  <1>2. g \in Left(from, to)
    BY <1>1 DEF Left, Deduped
  <1> QED
    BY <1>1, <1>2 DEF Ids
-----------------------------------------------------------------------------
(* The invariant of the ledger.                                             *)

(* The pairs of an id and a value that stay true of the ledger: a fact with *)
(* that id has the value, or the value was renamed since.                   *)
Known ==
  {e \in (1..last) \X Names : \A f \in rows : f.id = e[1] => f.o = e[2] \/ alias[e[2]] # None}

CallType(days) ==
  [pc : Stages, s : Names \cup {None}, o : Names \cup {None}, name : Names \cup {None}, day : days \cup {None},
   observed : days \cup {None}, dry : BOOLEAN, replay : BOOLEAN, batch : Batches,
   seen : SUBSET Fact]

CallOK(x, days, known) ==
  /\ x \in CallType(days)
  /\ x.pc \in {"ends", "merges", "judges"} => x.s \in Names
  /\ x.pc \in {"ends", "merges"} => x.o \in Names
  /\ x.pc = "merges" => x.name \in Names
  /\ x.pc \in {"asks", "stores", "ends"} => x.day \in days
  /\ Seen(x.seen) \subseteq known

ItemsType == UNION {[D -> Verdicts] : D \in SUBSET Nat}

Review == [s : Names, items : ItemsType, seen : SUBSET (Nat \X Names)]

(* A reviewer judged what he saw.                                           *)
ReviewOK(v, known) ==
  v \in Review /\ DOMAIN v.items = {e[1] : e \in v.seen} /\ v.seen \subseteq known

PreviewType == {None} \cup [batch : Batches, day : Days]

FactsInv ==
  /\ setup \in Setups /\ day \in Days /\ last \in Nat /\ AliasOK /\ split \subseteq Names
  /\ RowsOK(rows, last) /\ Sound(rows, split, Stray)
  /\ preview \in PreviewType
  /\ call \in [Callers -> CallType(Days)]
  /\ \A c \in Callers : CallOK(call[c], Days, Known)
  /\ reviews \in Seq(Review)
  /\ \A i \in DOMAIN reviews : ReviewOK(reviews[i], Known)

LEMMA DayTypes ==
  ASSUME setup \in Setups
  PROVE  Days \subseteq Nat /\ 1 \in Days /\ None \notin Days
  <1>1. setup.days \in Nat \ {0} /\ None \notin Nat
    BY FactsAssumption
  <1> QED
    BY <1>1 DEF Days

LEMMA IdleOK ==
  ASSUME NEW days, NEW known
  PROVE  CallOK(Idle, days, known) /\ Idle.pc = "idle"
  <1>1. << >> \in Batches
    BY FactsAssumption
  <1>2. Idle \in CallType(days)
    BY <1>1 DEF Idle, CallType, Stages
  <1> QED
    BY <1>2 DEF CallOK, Idle, Seen

LEMMA CallsStay ==
  ASSUME NEW x, NEW days, NEW known, NEW more, known \subseteq more, CallOK(x, days, known)
  PROVE  CallOK(x, days, more)
  BY DEF CallOK

(* What is known stays known when rows end or come ...                      *)
LEMMA KnownStays ==
  ASSUME last \in Nat, last' \in Nat, last =< last', alias' = alias,
         Follows(rows', rows, last)
  PROVE  Known \subseteq Known'
  <1> SUFFICES ASSUME NEW e \in Known PROVE e \in Known'
    OBVIOUS
  <1>1. e \in (1..last') \X Names
    BY DEF Known
  <1>2. ASSUME NEW g \in rows', g.id = e[1]
        PROVE  g.o = e[2] \/ alias'[e[2]] # None
    <2>1. ~(g.id > last)
      BY <1>2 DEF Known
    <2>2. PICK f \in rows : f.id = g.id /\ f.o = g.o
      BY <2>1 DEF Follows
    <2> QED
      BY <1>2, <2>2 DEF Known
  <1> QED
    BY <1>1, <1>2 DEF Known

(* ... and when a name is merged into another.                              *)
LEMMA KnownIsRenamed ==
  ASSUME last \in Nat, last' = last, AliasOK, RowsOK(rows, last),
         NEW from \in Names, NEW to \in Names, rows' = Left(from, to),
         alias' = [n \in Names |-> IF n = from \/ alias[n] = from THEN to ELSE alias[n]]
  PROVE  Known \subseteq Known'
  <1> SUFFICES ASSUME NEW e \in Known PROVE e \in Known'
    OBVIOUS
  <1>1. e \in (1..last') \X Names /\ e[2] \in Names
    BY DEF Known
  <1>2. to # None
    BY FactsAssumption
  <1>3. ASSUME NEW g \in rows', g.id = e[1]
        PROVE  g.o = e[2] \/ alias'[e[2]] # None
    <2>1. g \in AllRenamed(from, to)
      BY MergedRows
    <2>2. PICK f \in rows : f.id = g.id /\ g.o = Renamed(f.o, from, to)
      BY <2>1, RenamedRows
    <2>3. f.o = e[2] \/ alias[e[2]] # None
      BY <1>3, <2>2 DEF Known
    <2> QED
      BY <1>1, <1>2, <2>2, <2>3 DEF Renamed
  <1> QED
    BY <1>1, <1>3 DEF Known

(* What is to be shown of a step.                                           *)
LEMMA StepKeepsFacts ==
  ASSUME FactsInv, setup' = setup, Known \subseteq Known',
         day' \in Days, last' \in Nat, AliasOK', split' \subseteq Names,
         RowsOK(rows', last'), Sound(rows', split', Stray'), preview' \in PreviewType,
         \/ call' = call
         \/ \E c \in Callers : \E x \in CallType(Days) :
              CallOK(x, Days, Known') /\ call' = [call EXCEPT ![c] = x],
         \/ reviews' = reviews
         \/ \E v \in Review : ReviewOK(v, Known') /\ reviews' = Append(reviews, v)
  PROVE  FactsInv'
  <1>1. Days' = Days
    BY DEF Days
  <1>2. call' \in [Callers -> CallType(Days)] /\ \A c \in Callers : CallOK(call'[c], Days, Known')
    <2>1. \A c \in Callers : CallOK(call[c], Days, Known')
      BY CallsStay DEF FactsInv
    <2>2. call \in [Callers -> CallType(Days)]
      BY DEF FactsInv
    <2> QED
      BY <2>1, <2>2
  <1>3. reviews' \in Seq(Review) /\ \A i \in DOMAIN reviews' : ReviewOK(reviews'[i], Known')
    <2>1. reviews \in Seq(Review) /\ \A i \in DOMAIN reviews : ReviewOK(reviews[i], Known')
      BY DEF FactsInv, ReviewOK
    <2> QED
      BY <2>1
  <1>4. preview' \in PreviewType'
    BY <1>1 DEF PreviewType
  <1> QED
    BY <1>1, <1>2, <1>3, <1>4 DEF FactsInv
-----------------------------------------------------------------------------
(* Every step of the ledger keeps the invariant, and what is known.         *)

Kept == FactsInv' /\ Known \subseteq Known'

(* A step that leaves the rows and the names alone.                         *)
LEMMA QuietStep ==
  ASSUME FactsInv, UNCHANGED <<setup, rows, last, alias, entity, split>>,
         day' \in Days, preview' \in PreviewType,
         \/ call' = call
         \/ \E c \in Callers : \E x \in CallType(Days) :
              CallOK(x, Days, Known) /\ call' = [call EXCEPT ![c] = x],
         \/ reviews' = reviews
         \/ \E v \in Review : ReviewOK(v, Known) /\ reviews' = Append(reviews, v)
  PROVE  Kept
  <1>1. Known' = Known
    BY DEF Known
  <1>2. last' \in Nat /\ split' \subseteq Names /\ RowsOK(rows', last') /\ Sound(rows', split', Stray')
    BY DEF FactsInv, Stray
  <1>3. AliasOK'
    BY DEF FactsInv, AliasOK
  <1>4. FactsInv'
    BY <1>1, <1>2, <1>3, StepKeepsFacts
  <1> QED
    BY <1>1, <1>4 DEF Kept

(* A step that ends rows.                                                   *)
LEMMA EndingStep ==
  ASSUME FactsInv, UNCHANGED <<setup, day, last, alias, entity, reviews, preview, split>>,
         NEW gone, gone \subseteq rows, NEW d \in Nat, rows' = Retired(rows, gone, d),
         call' = call \/ \E c \in Callers : call' = [call EXCEPT ![c] = Idle]
  PROVE  Kept
  <1>0. Stray' = Stray
    BY DEF Stray
  <1>1. RowsOK(rows', last') /\ Follows(rows', rows, last) /\ Sound(rows', split', Stray')
    BY <1>0, RetiredRows, RetiredSound DEF FactsInv
  <1>2. Known \subseteq Known'
    BY <1>1, KnownStays DEF FactsInv
  <1>3. CallOK(Idle, Days, Known') /\ Idle \in CallType(Days)
    BY IdleOK DEF CallOK
  <1>4. AliasOK' /\ last' \in Nat /\ split' \subseteq Names /\ day' \in Days /\ preview' \in PreviewType
    BY DEF FactsInv, AliasOK
  <1>5. FactsInv'
    BY <1>1, <1>2, <1>3, <1>4, StepKeepsFacts
  <1> QED
    BY <1>2, <1>5 DEF Kept

LEMMA FactAddKept ==
  ASSUME FactsInv, NEW f \in setup.byHand, FactAdd(f)
  PROVE  Kept
  <1> DEFINE ends == IF f.from = None THEN day ELSE f.from
             gone == Reached(rows, f.s, Contradicted(rows, f.s, f.o), ends)
             left == Retired(rows, gone, ends)
             id == last + 1
             sp == split \cup Splits(f.s)
             G == Added(left, id, f.s, f.o, f.from, f.source)
  <1>1. f \in [s : Names, o : Names, from : Nat \cup {None}, source : BOOLEAN]
    <2>1. setup \in Setups
      BY DEF FactsInv
    <2>2. f \in [s : Subjects, o : Values, from : Nat \cup {None}, source : BOOLEAN]
      BY <2>1, FactsAssumption
    <2> QED
      BY <2>2, FactsAssumption
  <1>2. day \in Nat /\ last \in Nat /\ id \in Nat /\ id > last /\ RowsOK(rows, last) /\ AliasOK
    BY DayTypes DEF FactsInv
  <1>3. Key(f.s) \in Names /\ Key(f.o) \in Names
    BY <1>1, <1>2, KeyType
  <1>4. ends \in Nat /\ gone \subseteq rows
    BY <1>1, <1>2, ReachedRows
  <1>5. Key(f.s) \in sp \/ f.s \in Tickets
    BY DEF Splits
  <1>6. Sound(rows, sp, Stray) /\ sp \subseteq Names
    BY <1>3 DEF Sound, FactsInv, Splits
  <1>7. /\ rows' = IF Contradicted(left, f.s, f.o) # {} THEN left ELSE G
        /\ split' = sp /\ last' = id
        /\ UNCHANGED <<setup, day, alias, entity, reviews, preview, call>>
    BY DEF FactAdd
  <1>8. Stray' = Stray
    BY <1>7 DEF Stray
  <1> HIDE DEF ends, gone, id, sp
  <1>9. /\ RowsOK(left, last) /\ Follows(left, rows, last) /\ Sound(left, sp, Stray)
        /\ \A r \in rows \ gone : r \in left
    <2>1. \A r \in rows \ gone : r \in left
      BY DEF Retired
    <2> HIDE DEF left
    <2>2. RowsOK(left, last) /\ Follows(left, rows, last)
      BY <1>2, <1>4, RetiredRows DEF left
    <2>3. Sound(left, sp, Stray)
      BY <1>2, <1>4, <1>6, RetiredSound DEF left
    <2> QED
      BY <2>1, <2>2, <2>3
  <1>10. ASSUME Contradicted(left, f.s, f.o) = {}
         PROVE  RowsOK(G, id) /\ Follows(G, rows, last) /\ Sound(G, sp, Stray)
    <2>1. ASSUME Key(f.s) \notin sp, NEW r \in rows \ gone, r.s = Key(f.s), r.to = None,
                 r.o \notin Stray
          PROVE  r.o = Key(f.o)
      <3>1. r \in left /\ f.s \in Tickets
        BY <1>5, <1>9, <2>1
      <3>2. SameValue(r, f.o)
        BY <1>10, <2>1, <3>1 DEF Contradicted
      <3>3. r.o \in Names \ Stray
        BY <1>2, <2>1 DEF RowsOK, Fact
      <3>4. Key(entity[r.o]) = r.o
        BY <1>2, <3>3, SameIsEqual
      <3> QED
        BY <3>2, <3>4 DEF SameValue
    <2>2. f.from \in Nat \cup {None} /\ f.source \in BOOLEAN
      BY <1>1
    <2>3. \/ Key(f.s) \in sp
          \/ \A r \in rows \ gone : r.s = Key(f.s) /\ r.to = None =>
               r.o = Key(f.o) \/ r.o \in Stray
      BY <2>1
    <2> QED
      BY <1>2, <1>3, <1>4, <1>6, <2>2, <2>3, WrittenOK
  <1>11. RowsOK(left, id)
    BY <1>2, <1>9 DEF RowsOK
  <1> HIDE DEF left, G
  <1>12. RowsOK(rows', last') /\ Follows(rows', rows, last) /\ Sound(rows', split', Stray')
    BY <1>7, <1>8, <1>9, <1>10, <1>11
  <1>13. Known \subseteq Known'
    BY <1>2, <1>7, <1>12, KnownStays DEF id
  <1>14. FactsInv'
    <2>1. AliasOK' /\ day' \in Days /\ preview' \in PreviewType
      BY <1>7 DEF FactsInv, AliasOK
    <2> QED
      BY <1>2, <1>6, <1>7, <1>12, <1>13, <2>1, StepKeepsFacts
  <1> QED
    BY <1>13, <1>14 DEF Kept
-----------------------------------------------------------------------------
(* kb_extract.                                                              *)

LEMMA ExtractStartsKept ==
  ASSUME FactsInv, NEW c \in Callers, NEW d \in Days, NEW observed \in Days \cup {None},
         NEW dry \in BOOLEAN, ExtractStarts(c, d, observed, dry)
  PROVE  Kept
  <1> DEFINE replay == ~dry /\ Recalled(d)
             stage == IF replay THEN "stores" ELSE "asks"
             batch == IF replay THEN preview.batch ELSE << >>
             x == [Idle EXCEPT !.pc = stage, !.day = d, !.observed = observed, !.dry = dry,
                               !.replay = replay, !.batch = batch]
  <1>1. replay \in BOOLEAN /\ (replay => preview.batch \in Batches)
    BY DEF Recalled, FactsInv, PreviewType
  <1>2. stage \in Stages /\ stage \in {"asks", "stores"} /\ batch \in Batches
    BY <1>1, FactsAssumption DEF Stages
  <1>3. call' = [call EXCEPT ![c] = x] /\ UNCHANGED <<setup, day, rows, last, alias, entity, reviews, preview, split>>
    BY DEF ExtractStarts, ledger
  <1>4. Idle \in CallType(Days) /\ Idle.seen = {}
    BY IdleOK DEF CallOK, Idle
  <1> HIDE DEF replay, stage, batch
  <1>5. x \in CallType(Days) /\ x.pc = stage /\ x.day = d /\ x.seen = {}
    <2> DEFINE y == [Idle EXCEPT !.pc = stage, !.day = d, !.observed = observed]
    <2>1. y \in CallType(Days) /\ y.pc = stage /\ y.day = d /\ y.seen = {}
      BY <1>2, <1>4 DEF CallType
    <2> HIDE DEF y
    <2>2. [y EXCEPT !.dry = dry, !.replay = replay, !.batch = batch] \in CallType(Days)
      BY <1>1, <1>2, <2>1 DEF CallType
    <2>3. LET z == [y EXCEPT !.dry = dry, !.replay = replay, !.batch = batch]
          IN z.pc = stage /\ z.day = d /\ z.seen = {}
      BY <2>1 DEF CallType
    <2> QED
      BY <2>2, <2>3 DEF y
  <1> HIDE DEF x
  <1>6. CallOK(x, Days, Known)
    BY <1>2, <1>5 DEF CallOK, Seen
  <1> QED
    BY <1>3, <1>5, <1>6, QuietStep DEF FactsInv

LEMMA ExtractAnswersKept ==
  ASSUME FactsInv, NEW c \in Callers, NEW batch \in Batches, ExtractAnswers(c, batch)
  PROVE  Kept
  <1> DEFINE p == call[c]
             y == [p EXCEPT !.pc = "stores", !.batch = batch]
             x == IF p.dry THEN Idle ELSE y
  <1>1. CallOK(p, Days, Known) /\ p.pc = "asks" /\ p.day \in Days
    BY DEF FactsInv, CallOK, ExtractAnswers
  <1>2. CallOK(Idle, Days, Known) /\ Idle \in CallType(Days)
    BY IdleOK DEF CallOK
  <1>3. y \in CallType(Days) /\ CallOK(y, Days, Known)
    <2>1. p \in CallType(Days) /\ Seen(p.seen) \subseteq Known
      BY <1>1 DEF CallOK
    <2> HIDE DEF p
    <2>2. y \in CallType(Days) /\ y.pc = "stores" /\ y.day = p.day /\ y.seen = p.seen
      BY <2>1 DEF CallType, Stages
    <2> HIDE DEF y
    <2> QED
      BY <1>1, <2>1, <2>2 DEF CallOK
  <1>4. call' = [call EXCEPT ![c] = x] /\ UNCHANGED <<setup, day, rows, last, alias, entity, reviews, split>>
    BY DEF ExtractAnswers, ledger
  <1>5. preview' \in PreviewType
    <2>1. preview' \in {preview, [batch |-> batch, day |-> p.day]}
      BY DEF ExtractAnswers
    <2> QED
      BY <1>1, <2>1 DEF PreviewType, FactsInv
  <1> HIDE DEF p, y
  <1>6. x \in CallType(Days) /\ CallOK(x, Days, Known)
    BY <1>2, <1>3
  <1> HIDE DEF x
  <1> QED
    BY <1>4, <1>5, <1>6, QuietStep DEF FactsInv

LEMMA ExtractFailsKept ==
  ASSUME FactsInv, NEW c \in Callers, ExtractFails(c)
  PROVE  Kept
  <1>1. CallOK(Idle, Days, Known) /\ Idle \in CallType(Days)
    BY IdleOK DEF CallOK
  <1>2. /\ call' = [call EXCEPT ![c] = Idle]
        /\ UNCHANGED <<setup, day, rows, last, alias, entity, reviews, preview, split>>
    BY DEF ExtractFails, ledger
  <1> QED
    BY <1>1, <1>2, QuietStep DEF FactsInv

LEMMA ExtractStoresKept ==
  ASSUME FactsInv, NEW c \in Callers, ExtractStores(c)
  PROVE  Kept
  <1> DEFINE p == call[c]
             b == p.batch
             sp == split \cup Excuses(b)
  <1>1. CallOK(p, Days, Known) /\ p.pc = "stores" /\ p.day \in Days /\ b \in Batches
    BY DEF FactsInv, CallOK, CallType, ExtractStores
  <1>2. day \in Nat /\ last \in Nat /\ p.day \in Nat /\ RowsOK(rows, last) /\ AliasOK
    BY <1>1, DayTypes DEF FactsInv
  <1>3. Len(b) \in Nat
    BY <1>1, BatchFacts
  <1>4. rows' = Consolidated(p) /\ last' = last + Len(b)
    BY DEF ExtractStores
  <1>5. split' = sp
    BY DEF ExtractStores, Excuses
  <1>6. sp \subseteq Names
    <2>1. \A i \in DOMAIN b : Key(b[i].s) \in Names
      BY <1>1, <1>2, BatchFacts, KeyType
    <2>2. Contested(b) => 1 \in DOMAIN b
      BY <1>1, BatchFacts DEF Contested
    <2> HIDE DEF b
    <2> QED
      BY <2>1, <2>2 DEF Excuses, Splits, FactsInv
  <1>7. Sound(rows, sp, Stray) /\ Excuses(b) \subseteq sp
    BY DEF Sound, FactsInv
  <1> HIDE DEF sp
  <1>8. RowsOK(rows', last') /\ Follows(rows', rows, last) /\ Sound(rows', split', Stray')
    <2>1. Stray' = Stray
      BY DEF ExtractStores, Stray
    <2> HIDE DEF p
    <2> QED
      BY <2>1, <1>1, <1>2, <1>4, <1>5, <1>7, ConsolidatedOK DEF b
  <1>9. UNCHANGED <<setup, day, alias, entity, reviews>> /\ call' = [call EXCEPT ![c] = Idle]
    BY DEF ExtractStores
  <1>10. Known \subseteq Known'
    BY <1>2, <1>3, <1>4, <1>8, <1>9, KnownStays
  <1>11. CallOK(Idle, Days, Known') /\ Idle \in CallType(Days)
    BY IdleOK DEF CallOK
  <1>12. preview' \in PreviewType /\ AliasOK' /\ day' \in Days /\ last' \in Nat
    BY <1>2, <1>3, <1>4, <1>9 DEF ExtractStores, PreviewType, FactsInv, AliasOK
  <1>13. FactsInv'
    BY <1>5, <1>6, <1>8, <1>9, <1>10, <1>11, <1>12, StepKeepsFacts
  <1> QED
    BY <1>10, <1>13 DEF Kept
-----------------------------------------------------------------------------
(* kb_fact_invalidate, and what time does.                                  *)

(* A call that takes a subject and perhaps a value, and no batch.           *)
LEMMA InvalidateReadsKept ==
  ASSUME FactsInv, NEW c \in Callers, NEW s \in Subjects, NEW o \in Values, NEW d \in Days,
         InvalidateReads(c, s, o, d)
  PROVE  Kept
  <1> DEFINE x == [Idle EXCEPT !.pc = "ends", !.s = Key(s), !.o = Key(o), !.day = d]
  <1>1. Key(s) \in Names /\ Key(o) \in Names
    BY KeyType, FactsAssumption DEF FactsInv
  <1>2. Idle \in CallType(Days) /\ Idle.seen = {}
    BY IdleOK DEF CallOK, Idle
  <1>3. /\ x \in CallType(Days) /\ x.pc = "ends" /\ x.s = Key(s) /\ x.o = Key(o)
        /\ x.day = d /\ x.seen = {}
    BY <1>1, <1>2 DEF CallType, Stages
  <1>4. /\ call' = [call EXCEPT ![c] = x]
        /\ UNCHANGED <<setup, day, rows, last, alias, entity, reviews, preview, split>>
    BY DEF InvalidateReads, ledger
  <1> HIDE DEF x
  <1>5. CallOK(x, Days, Known)
    BY <1>1, <1>3 DEF CallOK, Seen
  <1> QED
    BY <1>3, <1>4, <1>5, QuietStep DEF FactsInv

LEMMA InvalidateWritesKept ==
  ASSUME FactsInv, NEW c \in Callers, InvalidateWrites(c)
  PROVE  Kept
  <1> DEFINE p == call[c]
             gone == {f \in Live(p.s) : f.o = p.o}
  <1>1. p.day \in Nat
    BY DayTypes DEF InvalidateWrites, FactsInv, CallOK
  <1>2. gone \subseteq rows
    BY DEF Live
  <1>3. /\ rows' = Retired(rows, gone, p.day) /\ call' = [call EXCEPT ![c] = Idle]
        /\ UNCHANGED <<setup, day, last, alias, entity, reviews, preview, split>>
    BY DEF InvalidateWrites
  <1> HIDE DEF p, gone
  <1> QED
    BY <1>1, <1>2, <1>3, EndingStep

LEMMA InvalidateByIdKept ==
  ASSUME FactsInv, NEW f \in rows, NEW d \in Days, InvalidateById(f, d)
  PROVE  Kept
  <1>1. d \in Nat /\ {f} \subseteq rows
    BY DayTypes DEF FactsInv
  <1>2. /\ rows' = Retired(rows, {f}, d)
        /\ UNCHANGED <<setup, day, last, alias, entity, reviews, preview, call, split>>
    BY DEF InvalidateById
  <1> QED
    BY <1>1, <1>2, EndingStep

LEMMA DayPassesKept ==
  ASSUME FactsInv, DayPasses
  PROVE  Kept
  <1>1. setup.days \in Nat
    BY FactsAssumption DEF FactsInv
  <1>2. day' \in Days
    BY <1>1 DEF DayPasses, FactsInv, Days
  <1>3. UNCHANGED <<setup, rows, last, alias, entity, reviews, preview, call, split>>
    BY DEF DayPasses
  <1> QED
    BY <1>2, <1>3, QuietStep DEF FactsInv

LEMMA PreviewExpiresKept ==
  ASSUME FactsInv, PreviewExpires
  PROVE  Kept
  <1>1. /\ preview' \in PreviewType
        /\ UNCHANGED <<setup, day, rows, last, alias, entity, reviews, call, split>>
    BY DEF PreviewExpires, PreviewType, ledger
  <1> QED
    BY <1>1, QuietStep DEF FactsInv
-----------------------------------------------------------------------------
(* mergeEntity.                                                             *)

(* What kb entity-merge is called with are names.                           *)
LEMMA MergeStartsKept ==
  ASSUME FactsInv, NEW c \in Callers, NEW pair \in Renames, MergeStarts(c, pair[1], pair[2])
  PROVE  Kept
  <1> DEFINE from == Key(pair[1])
             to == Key(pair[2])
             x == [Idle EXCEPT !.pc = "merges", !.s = from, !.o = to, !.name = pair[2]]
  <1>1. from \in Names /\ to \in Names /\ pair[2] \in Names
    BY KeyType, FactsAssumption DEF FactsInv
  <1>2. Idle \in CallType(Days) /\ Idle.seen = {}
    BY IdleOK DEF CallOK, Idle
  <1>3. /\ call' = [call EXCEPT ![c] = x]
        /\ UNCHANGED <<setup, day, rows, last, alias, entity, reviews, preview, split>>
    BY DEF MergeStarts, ledger
  <1> HIDE DEF from, to
  <1>4. /\ x \in CallType(Days) /\ x.pc = "merges" /\ x.s = from /\ x.o = to
        /\ x.name = pair[2] /\ x.seen = {}
    BY <1>1, <1>2 DEF CallType, Stages
  <1> HIDE DEF x
  <1>5. CallOK(x, Days, Known)
    BY <1>1, <1>4 DEF CallOK, Seen
  <1> QED
    BY <1>3, <1>4, <1>5, QuietStep DEF FactsInv

LEMMA MergeRows ==
  ASSUME FactsInv, NEW c \in Callers, MergeCommits(c)
  PROVE  /\ call[c].s \in Names /\ call[c].o \in Names
         /\ rows' = Left(call[c].s, call[c].o)
         /\ split' = split \cup Gathered(call[c].s, call[c].o)
  <1>1. call[c].s \in Names /\ call[c].o \in Names
    BY DEF FactsInv, CallOK, MergeCommits
  <1>2. rows' = Left(call[c].s, call[c].o)
    BY DEF MergeCommits, Left, AllRenamed
  <1>3. split' = split \cup Gathered(call[c].s, call[c].o)
    BY DEF MergeCommits, Left, AllRenamed, Gathered
  <1> QED
    BY <1>1, <1>2, <1>3

LEMMA MergeCommitsKept ==
  ASSUME FactsInv, NEW c \in Callers, MergeCommits(c)
  PROVE  Kept
  <1> DEFINE from == call[c].s
             to == call[c].o
             name == call[c].name
  <1>1. /\ from \in Names /\ to \in Names /\ rows' = Left(from, to)
        /\ split' = split \cup Gathered(from, to)
    BY MergeRows
  <1>2. /\ alias' = [n \in Names |-> IF n = from \/ alias[n] = from THEN to ELSE alias[n]]
        /\ entity' = [entity EXCEPT ![to] = IF @ = None THEN name ELSE @, ![from] = None]
        /\ name \in Names
        /\ call' = [call EXCEPT ![c] = Idle]
        /\ UNCHANGED <<setup, day, last, reviews, preview>>
    BY DEF MergeCommits, FactsInv, CallOK
  <1>3. last \in Nat /\ RowsOK(rows, last) /\ AliasOK /\ Sound(rows, split, Stray)
    BY DEF FactsInv
  <1> HIDE DEF from, to, name
  <1>4. RowsOK(rows', last') /\ Sound(rows', split', Stray')
    <2>1. Stray \subseteq Stray'
      BY <1>1, <1>2, FactsAssumption DEF Stray
    <2>2. RowsOK(rows', last')
      BY <1>1, <1>2, <1>3, MergedRows
    <2>3. \A more : Stray \subseteq more => Sound(Left(from, to), split \cup Gathered(from, to), more)
      BY <1>1, <1>3, MergedSound
    <2> QED
      BY <1>1, <2>1, <2>2, <2>3
  <1>5. Known \subseteq Known'
    BY <1>1, <1>2, <1>3, KnownIsRenamed
  <1>6. Gathered(from, to) \subseteq Names
    <2>1. RowsOK(Left(from, to), last)
      BY <1>1, <1>3, MergedRows
    <2>2. Left(from, to) \subseteq Fact
      BY <2>1 DEF RowsOK
    <2> QED
      BY <2>2 DEF Gathered, Fact
  <1>7. AliasOK'
    <2>1. /\ alias' \in [Names -> Names \cup {None}]
          /\ entity' \in [Names -> Names \cup {None}]
      BY <1>1, <1>2, <1>3 DEF AliasOK
    <2>2. ASSUME NEW n \in Names, alias'[n] = None PROVE entity'[n] = n
      <3>1. n # from /\ alias[n] = None /\ entity[n] = n /\ n # None
        BY <1>1, <1>2, <1>3, <2>2, FactsAssumption DEF AliasOK
      <3> QED
        BY <1>1, <1>2, <1>3, <3>1 DEF AliasOK
    <2> QED
      BY <2>1, <2>2 DEF AliasOK
  <1>8. CallOK(Idle, Days, Known') /\ Idle \in CallType(Days)
    BY IdleOK DEF CallOK
  <1>9. FactsInv'
    <2>1. day' \in Days /\ last' \in Nat /\ preview' \in PreviewType /\ split' \subseteq Names
      BY <1>1, <1>2, <1>6 DEF FactsInv
    <2> QED
      BY <1>2, <1>4, <1>5, <1>7, <1>8, <2>1, StepKeepsFacts
  <1> QED
    BY <1>5, <1>9 DEF Kept
-----------------------------------------------------------------------------
(* Reviews.                                                                 *)

(* What one reads in the ledger is known.                                   *)
LEMMA LiveIsKnown ==
  ASSUME FactsInv, NEW s
  PROVE  Live(s) \subseteq Fact /\ Seen(Live(s)) \subseteq Known
  <1>1. RowsOK(rows, last)
    BY DEF FactsInv
  <1>2. ASSUME NEW f \in Live(s) PROVE <<f.id, f.o>> \in Known
    BY <1>1 DEF Live, Known, RowsOK, Fact
  <1> QED
    BY <1>1, <1>2 DEF Seen, Live, RowsOK

(* A judgement is of the facts that one has seen.                           *)
LEMMA JudgedIsSeen ==
  ASSUME NEW facts, facts \subseteq Fact, NEW items \in Judgements(facts), NEW known,
         Seen(facts) \subseteq known, NEW s \in Names
  PROVE  LET v == [s |-> s, items |-> items, seen |-> Seen(facts)]
         IN v \in Review /\ ReviewOK(v, known)
  <1> DEFINE v == [s |-> s, items |-> items, seen |-> Seen(facts)]
  <1>1. Ids(facts) \subseteq Nat /\ Seen(facts) \subseteq Nat \X Names
    BY DEF Ids, Seen, Fact
  <1>2. items \in [Ids(facts) -> Verdicts]
    BY DEF Judgements
  <1>3. DOMAIN items = {e[1] : e \in Seen(facts)}
    <2>1. DOMAIN items = {f.id : f \in facts}
      BY <1>2 DEF Ids
    <2>2. \A f \in facts : <<f.id, f.o>>[1] = f.id
      OBVIOUS
    <2>3. \A e \in Seen(facts) : \E f \in facts : e[1] = f.id
      BY DEF Seen
    <2>4. \A f \in facts : \E e \in Seen(facts) : e[1] = f.id
      BY <2>2 DEF Seen
    <2> QED
      BY <2>1, <2>3, <2>4
  <1>4. items \in ItemsType
    BY <1>1, <1>2 DEF ItemsType
  <1>5. v \in Review
    BY <1>1, <1>4 DEF Review
  <1> QED
    BY <1>3, <1>5 DEF ReviewOK

LEMMA ReviewReadsKept ==
  ASSUME FactsInv, NEW c \in Callers, NEW s \in Subjects, ReviewReads(c, s)
  PROVE  Kept
  <1> DEFINE read == Live(Key(s))
             x == [Idle EXCEPT !.pc = "judges", !.s = s, !.seen = read]
  <1>1. s \in Names /\ read \subseteq Fact /\ Seen(read) \subseteq Known
    BY LiveIsKnown, FactsAssumption
  <1>2. Idle \in CallType(Days)
    BY IdleOK DEF CallOK
  <1>3. /\ call' = [call EXCEPT ![c] = x]
        /\ UNCHANGED <<setup, day, rows, last, alias, entity, reviews, preview, split>>
    BY DEF ReviewReads, ledger
  <1> HIDE DEF read
  <1>4. x \in CallType(Days) /\ x.pc = "judges" /\ x.s = s /\ x.seen = read
    BY <1>1, <1>2 DEF CallType, Stages
  <1> HIDE DEF x
  <1>5. CallOK(x, Days, Known)
    BY <1>1, <1>4 DEF CallOK
  <1> QED
    BY <1>3, <1>4, <1>5, QuietStep DEF FactsInv

LEMMA ReviewWritesKept ==
  ASSUME FactsInv, NEW c \in Callers, NEW items, ReviewWrites(c, items)
  PROVE  Kept
  <1> DEFINE p == call[c]
             v == [s |-> Key(p.s), items |-> items, seen |-> Seen(p.seen)]
  <1>1. p.s \in Names /\ p.seen \subseteq Fact /\ Seen(p.seen) \subseteq Known /\ items \in Judgements(p.seen)
    BY DEF FactsInv, CallOK, CallType, ReviewWrites
  <1>2. Key(p.s) \in Names
    BY <1>1, KeyType DEF FactsInv
  <1>3. v \in Review /\ ReviewOK(v, Known)
    <2> HIDE DEF p
    <2> QED
      BY <1>1, <1>2, JudgedIsSeen
  <1>4. reviews' = reviews \/ reviews' = Append(reviews, v)
    BY DEF ReviewWrites, Reviewed
  <1>5. /\ call' = [call EXCEPT ![c] = Idle]
        /\ UNCHANGED <<setup, day, rows, last, alias, entity, preview, split>>
    BY DEF ReviewWrites, ledger
  <1>6. CallOK(Idle, Days, Known) /\ Idle \in CallType(Days)
    BY IdleOK DEF CallOK
  <1> HIDE DEF v
  <1> QED
    BY <1>3, <1>4, <1>5, <1>6, QuietStep DEF FactsInv
-----------------------------------------------------------------------------
LEMMA FactsInitOK ==
  ASSUME FactsInit
  PROVE  FactsInv
  <1>1. 1 \in Days /\ setup \in Setups
    BY DayTypes DEF FactsInit
  <1>2. Idle \in CallType(Days) /\ CallOK(Idle, Days, Known)
    BY IdleOK DEF CallOK
  <1>3. RowsOK(rows, last) /\ Sound(rows, split, Stray) /\ last \in Nat /\ split \subseteq Names
    BY DEF FactsInit, RowsOK, Sound
  <1>4. AliasOK /\ preview \in PreviewType
    BY DEF FactsInit, AliasOK, PreviewType
  <1>5. reviews \in Seq(Review) /\ DOMAIN reviews = {}
    BY DEF FactsInit
  <1> HIDE DEF FactsInit
  <1>6. call \in [Callers -> CallType(Days)] /\ \A c \in Callers : CallOK(call[c], Days, Known)
    BY <1>2 DEF FactsInit
  <1> QED
    BY <1>1, <1>3, <1>4, <1>5, <1>6 DEF FactsInv, FactsInit

LEMMA FactsStep ==
  ASSUME FactsInv, FactsNext
  PROVE  Kept
  <1>1. CASE DayPasses
    BY <1>1, DayPassesKept
  <1>2. ASSUME NEW f \in setup.byHand, FactAdd(f) PROVE Kept
    BY <1>2, FactAddKept
  <1>3. CASE PreviewExpires
    BY <1>3, PreviewExpiresKept
  <1>4. ASSUME NEW f \in rows, NEW d \in Days, InvalidateById(f, d) PROVE Kept
    BY <1>4, InvalidateByIdKept
  <1>5. ASSUME NEW c \in Callers, NEW d \in Days, NEW observed \in Days \cup {None},
               NEW dry \in BOOLEAN, ExtractStarts(c, d, observed, dry)
        PROVE  Kept
    BY <1>5, ExtractStartsKept
  <1>6. ASSUME NEW c \in Callers, NEW batch \in Batches, ExtractAnswers(c, batch) PROVE Kept
    BY <1>6, ExtractAnswersKept
  <1>7. ASSUME NEW c \in Callers, ExtractFails(c) \/ ExtractStores(c) PROVE Kept
    BY <1>7, ExtractFailsKept, ExtractStoresKept
  <1>8. ASSUME NEW c \in Callers, NEW s \in Subjects, NEW o \in Values, NEW d \in Days,
               InvalidateReads(c, s, o, d)
        PROVE  Kept
    BY <1>8, InvalidateReadsKept
  <1>9. ASSUME NEW c \in Callers, InvalidateWrites(c) \/ MergeCommits(c) PROVE Kept
    BY <1>9, InvalidateWritesKept, MergeCommitsKept
  <1>10. ASSUME NEW c \in Callers, NEW pair \in Renames, MergeStarts(c, pair[1], pair[2])
         PROVE  Kept
    BY <1>10, MergeStartsKept
  <1>11. ASSUME NEW c \in Callers, NEW s \in Subjects, ReviewReads(c, s) PROVE Kept
    BY <1>11, ReviewReadsKept
  <1>12. ASSUME NEW c \in Callers, NEW items \in Judgements(call[c].seen), ReviewWrites(c, items)
         PROVE  Kept
    BY <1>12, ReviewWritesKept
  <1> QED
    BY <1>1, <1>2, <1>3, <1>4, <1>5, <1>6, <1>7, <1>8, <1>9, <1>10, <1>11, <1>12 DEF FactsNext
-----------------------------------------------------------------------------
(* The runs of kb reconcile.                                                *)

NoteType == [text : 0..MaxEvents, by : Notes \cup {None}]

Item == [entry : Entries, group : SUBSET Fact]

Steps == {"idle", "next", "asks", "reviews", "logs", "saves"}

RunType ==
  [pc : Steps, dry : BOOLEAN, queue : Seq(Item), before : {<< >>} \cup (NoteType \X NoteType),
   items : ItemsType, settled : BOOLEAN]

RunOK(x, known, log) ==
  /\ x \in RunType
  /\ x.pc = "idle" <=> x.queue = << >>
  /\ Len(x.queue) =< Limit
  /\ \A i \in 1..Len(x.queue) : Seen(x.queue[i].group) \subseteq known
  /\ x.pc = "reviews" =>
       Head(x.queue).entry[1] = "fact" /\ x.items \in Judgements(Head(x.queue).group)
  /\ x.settled => x.pc \in {"logs", "saves"} /\ Head(x.queue).entry[1] = "note"
  /\ x.settled /\ x.pc = "saves" => Head(x.queue).entry \in log

RecInv ==
  /\ notes \in [Notes -> NoteType] /\ events \in 0..MaxEvents
  /\ \A n \in Notes : notes[n].text =< events
  /\ cursor \in 0..Len(Keys)
  /\ acks \subseteq logged /\ logged \subseteq Entries
  /\ run \in [Runs -> RunType]
  /\ \A r \in Runs : RunOK(run[r], Known, logged)

LEMMA EntryTypes ==
  /\ Keys \in Seq(Entries) /\ IsFiniteSet(Entries)
  /\ \A e \in Entries :
       /\ e[1] = "note" => e[2] \in Notes /\ e[3] \in Notes
       /\ e[1] = "fact" => e[2] \in Names
       /\ Rank(e) \in 1..Len(Keys)
  <1> DEFINE K == {NoteEntry(n, m) : n, m \in Notes} \cup {FactEntry(s) : s \in Names}
  <1>1. Keys \in Seq(K)
    BY ReconciliationAssumption
  <1>2. Entries \subseteq K /\ Keys \in Seq(Entries)
    <2> HIDE DEF K
    <2> QED
      BY <1>1 DEF Entries
  <1>3. \A e \in K : /\ e[1] = "note" => e[2] \in Notes /\ e[3] \in Notes
                     /\ e[1] = "fact" => e[2] \in Names
    BY DEF NoteEntry, FactEntry
  <1> HIDE DEF K
  <1>4. ASSUME NEW e \in Entries PROVE Rank(e) \in 1..Len(Keys)
    <2>1. \E i \in DOMAIN Keys : Keys[i] = e
      BY DEF Entries
    <2> QED
      BY <1>1, <2>1 DEF Rank
  <1>5. IsFiniteSet(Entries)
    <2>1. Keys \in Surjection(1..Len(Keys), Entries)
      BY <1>2 DEF Entries, Surjection
    <2>2. Len(Keys) \in Nat
      BY <1>2
    <2>3. IsFiniteSet(1..Len(Keys))
      BY <2>2, FS_Interval
    <2> QED
      BY <2>1, <2>3, FS_Surjection
  <1> QED
    BY <1>2, <1>3, <1>4, <1>5

LEMMA EmptyItems == << >> \in ItemsType
  <1>1. << >> \in [{} -> Verdicts]
    OBVIOUS
  <1> QED
    BY <1>1 DEF ItemsType

LEMMA AtRestOK ==
  ASSUME NEW known, NEW log
  PROVE  RunOK(AtRest, known, log) /\ AtRest.pc = "idle"
  <1>1. AtRest \in RunType
    BY EmptyItems DEF AtRest, RunType, Steps
  <1>2. 0 =< Limit
    BY ReconciliationAssumption
  <1> QED
    BY <1>1, <1>2 DEF RunOK, AtRest

LEMMA RunsStay ==
  ASSUME NEW x, NEW known, NEW log, NEW more, NEW longer,
         known \subseteq more, log \subseteq longer, RunOK(x, known, log)
  PROVE  RunOK(x, more, longer)
  BY DEF RunOK

(* What is to be shown of a step.                                           *)
LEMMA StepKeepsRuns ==
  ASSUME RecInv, Known \subseteq Known', logged \subseteq logged',
         \/ run' = run
         \/ \E r \in Runs : \E x \in RunType :
              RunOK(x, Known', logged') /\ run' = [run EXCEPT ![r] = x]
  PROVE  run' \in [Runs -> RunType] /\ \A r \in Runs : RunOK(run'[r], Known', logged')
  <1>1. \A r \in Runs : RunOK(run[r], Known', logged')
    BY RunsStay DEF RecInv
  <1>2. run \in [Runs -> RunType]
    BY DEF RecInv
  <1> QED
    BY <1>1, <1>2

(* The head of a queue and its rest.                                        *)
LEMMA HeadType ==
  ASSUME NEW x \in RunType, x.queue # << >>
  PROVE  /\ Head(x.queue) \in Item /\ Head(x.queue) = x.queue[1] /\ 1 \in 1..Len(x.queue)
         /\ Head(x.queue).entry \in Entries /\ Head(x.queue).group \subseteq Fact
  <1>1. x.queue \in Seq(Item)
    BY DEF RunType
  <1>2. Head(x.queue) \in Item /\ Head(x.queue) = x.queue[1] /\ 1 \in 1..Len(x.queue)
    BY <1>1
  <1> QED
    BY <1>2 DEF Item

(* An outcome keeps what a run holds.                                       *)
LEMMA DecidedOK ==
  ASSUME NEW x, NEW known, NEW log, RunOK(x, known, log), x.pc # "idle", NEW b \in BOOLEAN,
         b => Head(x.queue).entry[1] = "note"
  PROVE  LET y == [x EXCEPT !.pc = "logs", !.settled = b, !.before = << >>, !.items = << >>]
         IN y \in RunType /\ RunOK(y, known, log)
  <1> DEFINE y == [x EXCEPT !.pc = "logs", !.settled = b, !.before = << >>, !.items = << >>]
  <1>1. x \in RunType /\ x.queue # << >>
    BY DEF RunOK
  <1> DEFINE z == [x EXCEPT !.pc = "logs", !.settled = b]
  <1>2. z \in RunType /\ z.pc = "logs" /\ z.settled = b /\ z.queue = x.queue
    BY <1>1 DEF RunType, Steps
  <1>3. y = [z EXCEPT !.before = << >>, !.items = << >>]
    OBVIOUS
  <1> HIDE DEF y, z
  <1>4. y \in RunType /\ y.pc = "logs" /\ y.settled = b /\ y.queue = x.queue
    BY <1>2, <1>3, EmptyItems DEF RunType
  <1>5. RunOK(y, known, log)
    BY <1>1, <1>4 DEF RunOK
  <1> QED
    BY <1>4, <1>5 DEF y

(* A run begins with a queue, or goes on with what is left of it.           *)
LEMMA NextOK ==
  ASSUME NEW q \in Seq(Item), q # << >>, Len(q) =< Limit, NEW dry \in BOOLEAN,
         NEW known, \A i \in 1..Len(q) : Seen(q[i].group) \subseteq known, NEW log
  PROVE  LET y == [AtRest EXCEPT !.pc = "next", !.dry = dry, !.queue = q]
         IN y \in RunType /\ RunOK(y, known, log)
  <1> DEFINE y == [AtRest EXCEPT !.pc = "next", !.dry = dry, !.queue = q]
  <1>1. AtRest \in RunType /\ AtRest.settled = FALSE
    BY AtRestOK DEF RunOK, AtRest
  <1>2. y \in RunType /\ y.pc = "next" /\ y.queue = q /\ y.settled = FALSE
    BY <1>1 DEF RunType, Steps
  <1> HIDE DEF y
  <1>3. RunOK(y, known, log)
    BY <1>2 DEF RunOK
  <1> QED
    BY <1>2, <1>3 DEF y

LEMMA RestOK ==
  ASSUME RecInv, NEW r \in Runs, run[r].pc # "idle", NEW known, NEW log,
         RunOK(run[r], known, log)
  PROVE  Rest(r) \in RunType /\ RunOK(Rest(r), known, log)
  <1> DEFINE q == run[r].queue
             rest == Tail(q)
  <1>1. run[r] \in RunType /\ q \in Seq(Item) /\ q # << >> /\ Len(q) =< Limit /\ run[r].dry \in BOOLEAN
    BY DEF RunOK, RunType
  <1>2. rest \in Seq(Item) /\ Len(rest) = Len(q) - 1 /\ \A i \in 1..Len(rest) : rest[i] = q[i + 1]
    BY <1>1
  <1>3. \A i \in 1..Len(q) : Seen(q[i].group) \subseteq known
    BY DEF RunOK
  <1>4. Limit \in Nat
    BY ReconciliationAssumption
  <1>5. Len(rest) =< Limit /\ \A i \in 1..Len(rest) : Seen(rest[i].group) \subseteq known
    <2> HIDE DEF q, rest
    <2>1. Len(q) \in Nat /\ Len(rest) \in Nat
      BY <1>1, <1>2
    <2> QED
      BY <1>1, <1>2, <1>3, <1>4, <2>1
  <1>6. AtRest \in RunType /\ RunOK(AtRest, known, log)
    BY AtRestOK DEF RunOK
  <1>7. Rest(r) = IF rest = << >> THEN AtRest
                  ELSE [AtRest EXCEPT !.pc = "next", !.dry = run[r].dry, !.queue = rest]
    BY DEF Rest
  <1> HIDE DEF q, rest
  <1> DEFINE y == [AtRest EXCEPT !.pc = "next", !.dry = run[r].dry, !.queue = rest]
  <1>8. CASE rest # << >>
    <2>1. y \in RunType /\ RunOK(y, known, log)
      BY <1>1, <1>2, <1>5, <1>8, NextOK
    <2> HIDE DEF y
    <2>2. Rest(r) = y
      BY <1>7, <1>8 DEF y
    <2> QED
      BY <2>1, <2>2
  <1> QED
    BY <1>6, <1>7, <1>8

(* A step of a run that leaves the notes and the ledger alone.              *)
LEMMA RunStep ==
  ASSUME FactsInv, RecInv, NEW r \in Runs, NEW x \in RunType, RunOK(x, Known, logged'),
         run' = [run EXCEPT ![r] = x], UNCHANGED <<factVars, notes>>, events' \in 0..MaxEvents,
         events =< events', cursor' \in 0..Len(Keys),
         acks' \subseteq logged', logged \subseteq logged', logged' \subseteq Entries
  PROVE  Kept /\ RecInv'
  <1>1. Known' = Known
    BY DEF Known, factVars
  <1>2. FactsInv'
    BY <1>1 DEF FactsInv, factVars, AliasOK, Stray, PreviewType, Days
  <1>3. run' \in [Runs -> RunType] /\ \A q \in Runs : RunOK(run'[q], Known', logged')
    BY <1>1, StepKeepsRuns
  <1>4. \A n \in Notes : notes[n].text \in Nat /\ notes[n].text =< events'
    BY ReconciliationAssumption DEF RecInv, NoteType
  <1> QED
    BY <1>1, <1>2, <1>3, <1>4 DEF RecInv, Kept

LEMMA QuietRun ==
  ASSUME FactsInv, RecInv, NEW r \in Runs, NEW x \in RunType, RunOK(x, Known, logged),
         run' = [run EXCEPT ![r] = x], UNCHANGED <<factVars, notes, cursor, acks, logged, events>>
  PROVE  Kept /\ RecInv'
  <1>1. events' \in 0..MaxEvents /\ events =< events' /\ cursor' \in 0..Len(Keys)
        /\ acks' \subseteq logged' /\ logged \subseteq logged' /\ logged' \subseteq Entries
    BY DEF RecInv
  <1>2. UNCHANGED <<factVars, notes>> /\ RunOK(x, Known, logged')
    OBVIOUS
  <1> QED
    BY <1>1, <1>2, RunStep

LEMMA RunStartsKept ==
  ASSUME FactsInv, RecInv, NEW r \in Runs, NEW dry \in BOOLEAN, RunStarts(r, dry)
  PROVE  Kept /\ RecInv'
  <1> DEFINE item(e) == [entry |-> e, group |-> IF e[1] = "fact" THEN Live(e[2]) ELSE {}]
  <1>1. PICK entries \in Selected(cursor) :
          run' = [run EXCEPT ![r] = [AtRest EXCEPT !.pc = "next", !.dry = dry,
                                     !.queue = [i \in DOMAIN entries |-> item(entries[i])]]]
    BY DEF RunStarts
  <1> DEFINE q == [i \in DOMAIN entries |-> item(entries[i])]
             size == Cardinality(Queue)
             k == IF size < Limit THEN size ELSE Limit
  <1>2. Queue \subseteq Entries /\ Queue # {} /\ IsFiniteSet(Queue)
    <2>1. Queue \subseteq Entries /\ Queue # {}
      BY DEF Queue, RunStarts
    <2> QED
      BY <2>1, EntryTypes, FS_Subset
  <1>3. size \in Nat /\ size # 0
    BY <1>2, FS_CardinalityType, FS_EmptySet
  <1>4. k \in Nat /\ k =< Limit /\ k # 0
    BY <1>3, ReconciliationAssumption
  <1>5. entries \in [1..k -> Queue]
    BY DEF Selected
  <1> HIDE DEF size, k
  <1>6. ASSUME NEW e \in Entries
        PROVE  item(e) \in Item /\ Seen(item(e).group) \subseteq Known
    <2>1. Live(e[2]) \subseteq Fact /\ Seen(Live(e[2])) \subseteq Known
      BY LiveIsKnown
    <2>2. Seen({}) = {}
      BY DEF Seen
    <2> QED
      BY <2>1, <2>2 DEF Item
  <1> HIDE DEF item
  <1>7. q \in [1..k -> Item] /\ \A i \in 1..k : Seen(q[i].group) \subseteq Known
    BY <1>2, <1>5, <1>6
  <1> HIDE DEF q
  <1>8. q \in Seq(Item) /\ Len(q) = k /\ q # << >>
    BY <1>4, <1>7
  <1> DEFINE x == [AtRest EXCEPT !.pc = "next", !.dry = dry, !.queue = q]
  <1>9. x \in RunType /\ RunOK(x, Known, logged)
    BY <1>4, <1>7, <1>8, NextOK
  <1>10. run' = [run EXCEPT ![r] = x]
    BY <1>1 DEF q
  <1> HIDE DEF x
  <1>11. UNCHANGED <<factVars, notes, cursor, acks, logged, events>>
    BY DEF RunStarts
  <1> QED
    BY <1>9, <1>10, <1>11, QuietRun

(* An outcome, decided without a change of anything else.                   *)
LEMMA DecidesKept ==
  ASSUME FactsInv, RecInv, NEW r \in Runs, run[r].pc # "idle", NEW b \in BOOLEAN,
         b => Entry(r)[1] = "note"
  PROVE  \E x \in RunType : RunOK(x, Known, logged) /\ (Decides(r, b) => run' = [run EXCEPT ![r] = x])
  <1> DEFINE p == run[r]
             x == [p EXCEPT !.pc = "logs", !.settled = b, !.before = << >>, !.items = << >>]
  <1>1. RunOK(p, Known, logged) /\ (b => Head(p.queue).entry[1] = "note") /\ p.pc # "idle"
    BY DEF RecInv, Entry
  <1>2. Decides(r, b) => run' = [run EXCEPT ![r] = x]
    BY DEF Decides
  <1> HIDE DEF p
  <1>3. x \in RunType /\ RunOK(x, Known, logged)
    BY <1>1, DecidedOK
  <1> HIDE DEF x
  <1> QED
    BY <1>2, <1>3

(* evidenceForAssertion abstains, or the model fails.                       *)
LEMMA NothingDecidedKept ==
  ASSUME FactsInv, RecInv, NEW r \in Runs, Abstains(r) \/ ModelFails(r)
  PROVE  Kept /\ RecInv'
  <1>1. /\ run[r].pc # "idle" /\ Decides(r, FALSE)
        /\ UNCHANGED <<factVars, notes, cursor, acks, logged, events>>
    BY DEF Abstains, ModelFails
  <1>2. PICK x \in RunType : RunOK(x, Known, logged) /\ run' = [run EXCEPT ![r] = x]
    BY <1>1, DecidesKept
  <1> QED
    BY <1>1, <1>2, QuietRun

LEMMA AsksKept ==
  ASSUME FactsInv, RecInv, NEW r \in Runs, Asks(r)
  PROVE  Kept /\ RecInv'
  <1> DEFINE p == run[r]
             e == Entry(r)
             shown == IF e[1] = "note" THEN Snapshot(e) ELSE << >>
             x == [p EXCEPT !.pc = "asks", !.before = shown]
  <1>1. RunOK(p, Known, logged) /\ p.pc = "next"
    BY DEF RecInv, Asks
  <1>2. p \in RunType /\ p.queue # << >> /\ ~p.settled
    BY <1>1 DEF RunOK, RunType
  <1>3. shown \in {<< >>} \cup (NoteType \X NoteType)
    <2>1. e \in Entries
      BY <1>2, HeadType DEF Entry
    <2>2. notes \in [Notes -> NoteType]
      BY DEF RecInv
    <2> HIDE DEF e
    <2> QED
      BY <2>1, <2>2, EntryTypes DEF Snapshot
  <1>4. /\ run' = [run EXCEPT ![r] = x]
        /\ UNCHANGED <<factVars, notes, cursor, acks, logged, events>>
    BY DEF Asks
  <1> HIDE DEF p, shown
  <1>5. x \in RunType /\ x.pc = "asks" /\ x.queue = p.queue /\ x.settled = p.settled
    BY <1>2, <1>3 DEF RunType, Steps
  <1> HIDE DEF x
  <1>6. RunOK(x, Known, logged)
    BY <1>1, <1>2, <1>5 DEF RunOK
  <1> QED
    BY <1>4, <1>5, <1>6, QuietRun

LEMMA FactAnsweredKept ==
  ASSUME FactsInv, RecInv, NEW r \in Runs, NEW items \in Judgements(Group(r)),
         FactAnswered(r, items)
  PROVE  Kept /\ RecInv'
  <1> DEFINE p == run[r]
             x == [p EXCEPT !.pc = "reviews", !.items = items]
  <1>1. RunOK(p, Known, logged) /\ p.pc = "asks" /\ Entry(r)[1] = "fact"
    BY DEF RecInv, FactAnswered
  <1>2. p \in RunType /\ p.queue # << >> /\ ~p.settled
    BY <1>1 DEF RunOK, RunType
  <1>3. items \in ItemsType
    <2>1. Group(r) \subseteq Fact
      BY <1>2, HeadType DEF Group
    <2>2. Ids(Group(r)) \subseteq Nat
      BY <2>1 DEF Ids, Fact
    <2>3. items \in [Ids(Group(r)) -> Verdicts]
      BY DEF Judgements
    <2> QED
      BY <2>2, <2>3 DEF ItemsType
  <1>4. /\ UNCHANGED <<factVars, notes, cursor, acks, logged, events>>
        /\ Decides(r, FALSE) \/ run' = [run EXCEPT ![r] = x]
    BY DEF FactAnswered
  <1>5. items \in Judgements(Head(p.queue).group) /\ Head(p.queue).entry[1] = "fact"
    BY <1>1 DEF Group, Entry
  <1>6. \E y \in RunType : RunOK(y, Known, logged) /\ (Decides(r, FALSE) => run' = [run EXCEPT ![r] = y])
    BY <1>1, DecidesKept
  <1> HIDE DEF p
  <1>7. x \in RunType /\ x.pc = "reviews" /\ x.queue = p.queue /\ x.settled = p.settled /\ x.items = items
    BY <1>2, <1>3 DEF RunType, Steps
  <1> HIDE DEF x
  <1>8. RunOK(x, Known, logged)
    BY <1>1, <1>2, <1>5, <1>7 DEF RunOK
  <1>9. PICK y \in RunType : RunOK(y, Known, logged) /\ run' = [run EXCEPT ![r] = y]
    BY <1>4, <1>6, <1>7, <1>8
  <1> QED
    BY <1>4, <1>9, QuietRun

LEMMA NoteAnsweredKept ==
  ASSUME FactsInv, RecInv, NEW r \in Runs, NEW supersede \in BOOLEAN, NoteAnswered(r, supersede)
  PROVE  Kept /\ RecInv'
  <1> DEFINE e == Entry(r)
             b == notes'[e[2]].by = e[3]
  <1>1. run[r].pc = "asks" /\ e[1] = "note" /\ UNCHANGED <<factVars, cursor, acks, logged, events>>
    BY DEF NoteAnswered
  <1>2. e[2] \in Notes /\ e[3] \in Notes
    <2>1. run[r] \in RunType /\ run[r].queue # << >>
      BY <1>1 DEF RecInv, RunOK
    <2> QED
      BY <1>1, <2>1, HeadType, EntryTypes DEF Entry
  <1>3. b \in BOOLEAN /\ Decides(r, b) /\ (b => e[1] = "note")
    BY <1>1 DEF NoteAnswered
  <1>4. notes' \in {notes, [notes EXCEPT ![e[2]].by = e[3]]}
    BY DEF NoteAnswered
  <1> HIDE DEF e, b
  <1>5. notes' \in [Notes -> NoteType] /\ \A n \in Notes : notes'[n].text = notes[n].text
    <2> DEFINE w == [notes[e[2]] EXCEPT !.by = e[3]]
    <2>1. notes \in [Notes -> NoteType]
      BY DEF RecInv
    <2>2. w \in NoteType /\ w.text = notes[e[2]].text
      BY <1>2, <2>1 DEF NoteType
    <2>3. notes' \in {notes, [notes EXCEPT ![e[2]] = w]}
      BY <1>4
    <2> HIDE DEF w
    <2> QED
      BY <1>2, <2>1, <2>2, <2>3
  <1>6. PICK x \in RunType : RunOK(x, Known, logged) /\ run' = [run EXCEPT ![r] = x]
    BY <1>1, <1>3, DecidesKept DEF e
  <1>7. Known' = Known
    BY <1>1 DEF Known, factVars
  <1>8. FactsInv'
    BY <1>1, <1>7 DEF FactsInv, factVars, AliasOK, Stray, PreviewType, Days
  <1>9. run' \in [Runs -> RunType] /\ \A q \in Runs : RunOK(run'[q], Known', logged')
    BY <1>1, <1>6, <1>7, StepKeepsRuns
  <1> QED
    BY <1>1, <1>5, <1>7, <1>8, <1>9 DEF RecInv, Kept

LEMMA FactReviewedKept ==
  ASSUME FactsInv, RecInv, NEW r \in Runs, FactReviewed(r)
  PROVE  Kept /\ RecInv'
  <1> DEFINE p == run[r]
             v == [s |-> Key(Entry(r)[2]), items |-> p.items, seen |-> Seen(Group(r))]
  <1>1. RunOK(p, Known, logged) /\ p.pc = "reviews"
    BY DEF RecInv, FactReviewed
  <1>2. p \in RunType /\ p.queue # << >>
    BY <1>1 DEF RunOK
  <1>3. Entry(r) \in Entries /\ Entry(r)[1] = "fact" /\ p.items \in Judgements(Group(r))
    BY <1>1, <1>2, HeadType DEF RunOK, Entry, Group
  <1>4. Group(r) \subseteq Fact /\ Seen(Group(r)) \subseteq Known
    BY <1>1, <1>2, HeadType DEF RunOK, Group
  <1>5. Key(Entry(r)[2]) \in Names
    BY <1>3, EntryTypes, KeyType DEF FactsInv
  <1>6. v \in Review /\ ReviewOK(v, Known)
    <2> HIDE DEF p
    <2> QED
      BY <1>3, <1>4, <1>5, JudgedIsSeen
  <1>7. reviews' = reviews \/ reviews' = Append(reviews, v)
    BY DEF FactReviewed, Reviewed
  <1> HIDE DEF v
  <1>8. /\ UNCHANGED <<setup, day, rows, last, alias, entity, preview, call, split>>
        /\ UNCHANGED <<notes, cursor, acks, logged, events>> /\ Decides(r, FALSE)
    BY DEF FactReviewed, ledger
  <1>9. Kept
    BY <1>6, <1>7, <1>8, QuietStep DEF FactsInv
  <1>10. PICK x \in RunType : RunOK(x, Known, logged) /\ run' = [run EXCEPT ![r] = x]
    BY <1>1, <1>8, DecidesKept
  <1>11. Known' = Known
    BY <1>8 DEF Known
  <1>12. run' \in [Runs -> RunType] /\ \A q \in Runs : RunOK(run'[q], Known', logged')
    BY <1>8, <1>10, <1>11, StepKeepsRuns
  <1> QED
    BY <1>8, <1>9, <1>12 DEF RecInv

(* The line of an outcome comes before its acknowledgement.                 *)
LEMMA LogsKept ==
  ASSUME FactsInv, RecInv, NEW r \in Runs, Logs(r)
  PROVE  Kept /\ RecInv'
  <1> DEFINE p == run[r]
             z == [p EXCEPT !.pc = "saves"]
             x == IF p.dry THEN Rest(r) ELSE z
  <1>1. RunOK(p, Known, logged) /\ p.pc = "logs" /\ logged \subseteq Entries
    BY DEF RecInv, Logs
  <1>2. p \in RunType /\ p.queue # << >>
    BY <1>1 DEF RunOK
  <1>3. Entry(r) \in Entries /\ Entry(r) = Head(p.queue).entry
    BY <1>2, HeadType DEF Entry
  <1>4. logged' = logged \cup (IF p.settled THEN {Entry(r)} ELSE {})
    BY DEF Logs
  <1>5. run' = [run EXCEPT ![r] = x] /\ UNCHANGED <<factVars, notes, cursor, acks, events>>
    BY DEF Logs
  <1>6. Rest(r) \in RunType /\ RunOK(Rest(r), Known, logged')
    <2>1. RunOK(p, Known, logged')
      BY <1>1, <1>4, RunsStay
    <2> QED
      BY <1>1, <2>1, RestOK
  <1> HIDE DEF p
  <1>7. z \in RunType /\ z.pc = "saves" /\ z.queue = p.queue /\ z.settled = p.settled
    BY <1>2 DEF RunType, Steps
  <1> HIDE DEF z
  <1>8. RunOK(z, Known, logged')
    BY <1>1, <1>2, <1>3, <1>4, <1>7 DEF RunOK
  <1>9. x \in RunType /\ RunOK(x, Known, logged')
    BY <1>6, <1>7, <1>8
  <1> HIDE DEF x
  <1>10. /\ events' \in 0..MaxEvents /\ events =< events' /\ cursor' \in 0..Len(Keys)
         /\ acks' \subseteq logged' /\ logged \subseteq logged' /\ logged' \subseteq Entries
    BY <1>1, <1>3, <1>4, <1>5 DEF RecInv
  <1> QED
    BY <1>5, <1>9, <1>10, RunStep

LEMMA SavesKept ==
  ASSUME FactsInv, RecInv, NEW r \in Runs, Saves(r)
  PROVE  Kept /\ RecInv'
  <1>1. RunOK(run[r], Known, logged) /\ run[r].pc = "saves"
    BY DEF RecInv, Saves
  <1>2. run[r] \in RunType /\ run[r].queue # << >>
    BY <1>1 DEF RunOK
  <1>3. Entry(r) \in Entries /\ (run[r].settled => Entry(r) \in logged)
    BY <1>1, <1>2, HeadType DEF Entry, RunOK
  <1>4. Rest(r) \in RunType /\ RunOK(Rest(r), Known, logged)
    BY <1>1, RestOK
  <1>5. /\ run' = [run EXCEPT ![r] = Rest(r)] /\ UNCHANGED <<factVars, notes, logged, events>>
        /\ cursor' = Rank(Entry(r)) /\ acks' = acks \cup (IF run[r].settled THEN {Entry(r)} ELSE {})
    BY DEF Saves
  <1>6. cursor' \in 0..Len(Keys)
    <2>1. Rank(Entry(r)) \in 1..Len(Keys)
      BY <1>3, EntryTypes
    <2> QED
      BY <1>5, <2>1
  <1>7. /\ events' \in 0..MaxEvents /\ events =< events'
        /\ acks' \subseteq logged' /\ logged \subseteq logged' /\ logged' \subseteq Entries
    BY <1>3, <1>5 DEF RecInv
  <1>8. UNCHANGED <<factVars, notes>> /\ RunOK(Rest(r), Known, logged')
    BY <1>4, <1>5
  <1> QED
    BY <1>4, <1>5, <1>6, <1>7, <1>8, RunStep

LEMMA DiesKept ==
  ASSUME FactsInv, RecInv, NEW r \in Runs, Dies(r)
  PROVE  Kept /\ RecInv'
  <1>1. AtRest \in RunType /\ RunOK(AtRest, Known, logged)
    BY AtRestOK DEF RunOK
  <1>2. /\ run' = [run EXCEPT ![r] = AtRest] /\ UNCHANGED <<factVars, notes, cursor, acks, logged>>
        /\ events' = events + 1 /\ events < MaxEvents
    BY DEF Dies
  <1>3. /\ events' \in 0..MaxEvents /\ events =< events' /\ cursor' \in 0..Len(Keys)
        /\ acks' \subseteq logged' /\ logged \subseteq logged' /\ logged' \subseteq Entries
    BY <1>2, ReconciliationAssumption DEF RecInv
  <1>4. UNCHANGED <<factVars, notes>> /\ RunOK(AtRest, Known, logged')
    BY <1>1, <1>2
  <1> QED
    BY <1>1, <1>2, <1>3, <1>4, RunStep

LEMMA PeopleKept ==
  ASSUME FactsInv, RecInv, NEW n \in Notes,
         Rewrites(n) \/ \E by \in Notes \cup {None} : Supersedes(n, by)
  PROVE  Kept /\ RecInv'
  <1>1. /\ UNCHANGED <<factVars, cursor, acks, logged, run>>
        /\ events < MaxEvents /\ events' = events + 1
    BY DEF Rewrites, Supersedes
  <1>2. Known' = Known
    BY <1>1 DEF Known, factVars
  <1>3. FactsInv'
    BY <1>1, <1>2 DEF FactsInv, factVars, AliasOK, Stray, PreviewType, Days
  <1>4. /\ notes \in [Notes -> NoteType] /\ events \in 0..MaxEvents /\ MaxEvents \in Nat
        /\ \A m \in Notes : notes[m].text \in Nat /\ notes[m].text =< events
    BY ReconciliationAssumption DEF RecInv, NoteType
  <1>5. notes' \in [Notes -> NoteType] /\ \A m \in Notes : notes'[m].text =< events'
    <2>1. CASE Rewrites(n)
      <3> DEFINE w == [notes[n] EXCEPT !.text = notes[n].text + 1]
      <3>1. w \in NoteType /\ w.text = notes[n].text + 1
        BY <1>1, <1>4 DEF NoteType
      <3>2. notes' = [notes EXCEPT ![n] = w]
        BY <2>1 DEF Rewrites
      <3> HIDE DEF w
      <3> QED
        BY <1>1, <1>4, <3>1, <3>2
    <2>2. ASSUME NEW by \in Notes \cup {None}, Supersedes(n, by)
          PROVE  notes' \in [Notes -> NoteType] /\ \A m \in Notes : notes'[m].text =< events'
      <3> DEFINE w == [notes[n] EXCEPT !.by = by]
      <3>1. w \in NoteType /\ w.text = notes[n].text
        BY <1>4 DEF NoteType
      <3>2. notes' = [notes EXCEPT ![n] = w]
        BY <2>2 DEF Supersedes
      <3> HIDE DEF w
      <3> QED
        BY <1>1, <1>4, <3>1, <3>2
    <2> QED
      BY <2>1, <2>2
  <1>6. events' \in 0..MaxEvents
    BY <1>1, <1>4
  <1> QED
    BY <1>1, <1>2, <1>3, <1>5, <1>6 DEF RecInv, Kept
-----------------------------------------------------------------------------
(* The invariant of the specification.                                      *)

Inv == FactsInv /\ RecInv

LEMMA InitOK == Init => Inv
  <1> SUFFICES ASSUME Init PROVE Inv
    OBVIOUS
  <1>1. FactsInv
    BY FactsInitOK DEF Init
  <1>2. RunOK(AtRest, Known, logged) /\ AtRest \in RunType
    BY AtRestOK DEF RunOK
  <1>3. notes \in [Notes -> NoteType] /\ events \in 0..MaxEvents /\ \A n \in Notes : notes[n].text =< events
    BY ReconciliationAssumption DEF Init, RecInit, NoteType
  <1>4. cursor \in 0..Len(Keys)
    <2>1. Len(Keys) \in Nat
      BY EntryTypes
    <2> QED
      BY <2>1 DEF Init, RecInit
  <1>5. acks \subseteq logged /\ logged \subseteq Entries
    BY DEF Init, RecInit
  <1>6. run \in [Runs -> RunType] /\ \A r \in Runs : RunOK(run[r], Known, logged)
    BY <1>2 DEF Init, RecInit
  <1> QED
    BY <1>1, <1>3, <1>4, <1>5, <1>6 DEF Inv, RecInv

LEMMA ProgressKept ==
  ASSUME FactsInv, RecInv, NEW r \in Runs, Progresses(r)
  PROVE  Kept /\ RecInv'
  <1>1. CASE Abstains(r) \/ ModelFails(r)
    BY <1>1, NothingDecidedKept
  <1>2. CASE Asks(r)
    BY <1>2, AsksKept
  <1>3. ASSUME NEW supersede \in BOOLEAN, NoteAnswered(r, supersede) PROVE Kept /\ RecInv'
    BY <1>3, NoteAnsweredKept
  <1>4. ASSUME NEW items \in Judgements(Group(r)), FactAnswered(r, items) PROVE Kept /\ RecInv'
    BY <1>4, FactAnsweredKept
  <1>5. CASE FactReviewed(r)
    BY <1>5, FactReviewedKept
  <1>6. CASE Logs(r)
    BY <1>6, LogsKept
  <1>7. CASE Saves(r)
    BY <1>7, SavesKept
  <1> QED
    BY <1>1, <1>2, <1>3, <1>4, <1>5, <1>6, <1>7 DEF Progresses

LEMMA StepOK == Inv /\ [Next]_vars => Inv'
  <1> SUFFICES ASSUME FactsInv, RecInv, [Next]_vars PROVE FactsInv' /\ RecInv'
    BY DEF Inv
  <1>1. CASE FactsNext /\ UNCHANGED recVars
    <2>1. FactsInv' /\ Known \subseteq Known'
      BY <1>1, FactsStep DEF Kept
    <2>2. run' \in [Runs -> RunType] /\ \A r \in Runs : RunOK(run'[r], Known', logged')
      BY <1>1, <2>1, StepKeepsRuns DEF recVars
    <2> QED
      BY <1>1, <2>1, <2>2 DEF RecInv, recVars
  <1>2. ASSUME NEW r \in Runs, NEW dry \in BOOLEAN, RunStarts(r, dry) PROVE FactsInv' /\ RecInv'
    BY <1>2, RunStartsKept DEF Kept
  <1>3. ASSUME NEW r \in Runs, Progresses(r) PROVE FactsInv' /\ RecInv'
    BY <1>3, ProgressKept DEF Kept
  <1>4. ASSUME NEW r \in Runs, Dies(r) PROVE FactsInv' /\ RecInv'
    BY <1>4, DiesKept DEF Kept
  <1>5. ASSUME NEW n \in Notes, Rewrites(n) \/ \E by \in Notes \cup {None} : Supersedes(n, by)
        PROVE  FactsInv' /\ RecInv'
    BY <1>5, PeopleKept DEF Kept
  <1>6. CASE UNCHANGED vars
    <2>1. UNCHANGED <<factVars, recVars>>
      BY <1>6 DEF vars
    <2>2. Known' = Known
      BY <2>1 DEF Known, factVars
    <2>3. FactsInv'
      BY <2>1, <2>2 DEF FactsInv, factVars, AliasOK, Stray, PreviewType, Days
    <2> QED
      BY <2>1, <2>2, <2>3 DEF RecInv, recVars
  <1> QED
    BY <1>1, <1>2, <1>3, <1>4, <1>5, <1>6 DEF Next

(* The invariant holds of every behaviour.                                  *)
THEOREM LedgerInvariant == FairSpec => []Inv
  <1>1. Init => Inv
    BY InitOK
  <1>2. Inv /\ [Next]_vars => Inv'
    BY StepOK
  <1> QED
    BY <1>1, <1>2, PTL DEF FairSpec
-----------------------------------------------------------------------------
(* The types of the ledger, of the notes, the log and the runs.             *)
THEOREM TypeInvariant == FairSpec => []TypeOK
  <1>1. Inv => TypeOK
    <2> SUFFICES ASSUME FactsInv, RecInv PROVE TypeOK
      BY DEF Inv
    <2>1. ASSUME NEW i \in DOMAIN reviews
          PROVE  /\ reviews[i].s \in Names
                 /\ DOMAIN reviews[i].items \subseteq 1..last
                 /\ \A n \in DOMAIN reviews[i].items : reviews[i].items[n] \in Verdicts
      <3>1. ReviewOK(reviews[i], Known)
        BY DEF FactsInv
      <3>2. \A e \in Known : e[1] \in 1..last
        BY DEF Known
      <3>3. reviews[i].s \in Names /\ reviews[i].items \in ItemsType
        BY <3>1 DEF ReviewOK, Review
      <3> QED
        BY <3>1, <3>2, <3>3 DEF ReviewOK, ItemsType
    <2>2. ASSUME NEW c \in Callers
          PROVE  /\ call[c].pc \in Stages
                 /\ call[c].day \in Days \cup {None} /\ call[c].observed \in Days \cup {None}
                 /\ call[c].batch \in Batches
                 /\ call[c].pc \in {"ends", "merges", "judges"} => call[c].s \in Names
                 /\ call[c].pc \in {"ends", "merges"} => call[c].o \in Names
      BY DEF FactsInv, CallOK, CallType
    <2>3. FactsTypeOK
      <3>1. rows \subseteq Fact /\ (\A f \in rows : f.id =< last)
            /\ \A f, g \in rows : f.id = g.id => f = g
        BY DEF FactsInv, RowsOK
      <3> QED
        BY <2>1, <2>2, <3>1 DEF FactsTypeOK, FactsInv, AliasOK, PreviewType
    <2>4. ASSUME NEW r \in Runs
          PROVE  /\ run[r].pc \in {"idle", "next", "asks", "reviews", "logs", "saves"}
                 /\ (run[r].pc = "idle") = (run[r].queue = << >>)
                 /\ run[r].settled => run[r].pc \in {"logs", "saves"} /\ Entry(r)[1] = "note"
                 /\ Len(run[r].queue) =< Limit
      BY DEF RecInv, RunOK, RunType, Steps, Entry
    <2> QED
      BY <2>3, <2>4 DEF TypeOK, RecInv, NoteType
  <1> QED
    BY <1>1, LedgerInvariant, PTL

(* A ticket has one current value whatever processes write it, but for what *)
(* a batch left contested or a rename brought together.                     *)
THEOREM OneCurrentValue == FairSpec => []LedgerSound
  <1>1. Inv => LedgerSound
    BY DEF Inv, FactsInv, Sound, LedgerSound, Stray, RowsOK, Fact
  <1> QED
    BY <1>1, LedgerInvariant, PTL

(* The latest review of an entity is one.                                   *)
LEMMA LatestIsOne ==
  ASSUME FactsInv, NEW s, Latest(s) # 0
  PROVE  Latest(s) \in DOMAIN reviews
  <1> DEFINE own == {i \in DOMAIN reviews : reviews[i].s = s \/ alias[reviews[i].s] = s}
  <1>1. own # {}
    BY DEF Latest
  <1>2. Len(reviews) \in Nat /\ own \subseteq 0..Len(reviews)
    BY DEF FactsInv
  <1>3. \E m \in own : \A k \in own : k =< m
    BY <1>1, <1>2, Greatest
  <1>4. Latest(s) = CHOOSE i \in own : \A j \in own : j =< i
    BY <1>1 DEF Latest
  <1>5. own \subseteq DOMAIN reviews
    OBVIOUS
  <1> HIDE DEF own
  <1> QED
    BY <1>3, <1>4, <1>5

(* What the ledger calls current rests on a reviewer who saw these facts.   *)
THEOREM ReviewsCoverTheLedger == FairSpec => []SettledMeansSeen
  <1>1. Inv => SettledMeansSeen
    <2> SUFFICES ASSUME FactsInv, NEW s \in Names, alias[s] = None, Available(s)
                 PROVE  /\ Ids(Live(s)) = {e[1] : e \in reviews[Latest(s)].seen}
                        /\ \A f \in Live(s) : \E e \in reviews[Latest(s)].seen :
                             e[1] = f.id /\ (e[2] = f.o \/ alias[e[2]] # None)
      BY DEF Inv, SettledMeansSeen
    <2> DEFINE v == reviews[Latest(s)]
    <2>1. Latest(s) \in DOMAIN reviews
      BY LatestIsOne DEF Available
    <2>2. ReviewOK(v, Known)
      BY <2>1 DEF FactsInv
    <2>3. Ids(Live(s)) = DOMAIN v.items
      BY DEF Available, Fresh
    <2> HIDE DEF v
    <2>4. Ids(Live(s)) = {e[1] : e \in v.seen} /\ v.seen \subseteq Known
      BY <2>2, <2>3 DEF ReviewOK
    <2>5. ASSUME NEW f \in Live(s)
          PROVE  \E e \in v.seen : e[1] = f.id /\ (e[2] = f.o \/ alias[e[2]] # None)
      <3>1. f.id \in Ids(Live(s)) /\ f \in rows
        BY DEF Ids, Live
      <3>2. PICK e \in v.seen : e[1] = f.id
        BY <2>4, <3>1
      <3>3. e \in Known
        BY <2>4
      <3> QED
        BY <3>1, <3>2, <3>3 DEF Known
    <2> QED
      BY <2>4, <2>5 DEF v
  <1> QED
    BY <1>1, LedgerInvariant, PTL

(* What is acknowledged is in the log.                                      *)
THEOREM AcknowledgedIsLogged == FairSpec => []AckedWereLogged
  <1>1. Inv => AckedWereLogged
    BY DEF Inv, RecInv, AckedWereLogged
  <1> QED
    BY <1>1, LedgerInvariant, PTL

(* A run changes no note that was touched while the model judged it.        *)
THEOREM NotesAreCompared == FairSpec => JudgedUnchanged
  <1> DEFINE Compared == \A r \in Runs :
               (run[r].pc = "asks" /\ run'[r].pc = "logs" /\ notes' # notes)
                 => run[r].before = Snapshot(Entry(r))
  <1>1. Inv /\ [Next]_vars => [Compared]_vars
    <2> SUFFICES ASSUME FactsInv, RecInv, [Next]_vars, NEW r \in Runs,
                        run[r].pc = "asks", run'[r].pc = "logs", notes' # notes
                 PROVE  run[r].before = Snapshot(Entry(r))
      BY DEF Inv
    <2>1. run \in [Runs -> RunType] /\ run'[r] # run[r]
      BY DEF RecInv
    <2>2. ASSUME NEW q \in Runs, NEW supersede \in BOOLEAN, NoteAnswered(q, supersede)
          PROVE  run[r].before = Snapshot(Entry(r))
      <3>1. q = r
        BY <2>1, <2>2 DEF NoteAnswered, Decides
      <3>2. Applies(q, supersede)
        BY <2>2 DEF NoteAnswered
      <3> QED
        BY <3>1, <3>2 DEF Applies
    <2>3. ASSUME NEW q \in Runs, Progresses(q) PROVE run[r].before = Snapshot(Entry(r))
      <3>1. PICK supersede \in BOOLEAN : NoteAnswered(q, supersede)
        BY <2>3 DEF Progresses, Asks, Abstains, ModelFails, FactAnswered, FactReviewed, Logs, Saves
      <3> QED
        BY <2>2, <3>1
    <2> QED
      BY <2>1, <2>3 DEF Next, RunStarts, Dies, Rewrites, Supersedes, recVars, vars
  <1> QED
    BY <1>1, LedgerInvariant, PTL DEF FairSpec, JudgedUnchanged

(* Only the commit of a merge ends the call that merges.                    *)
LEMMA OnlyMergeEnds ==
  ASSUME FactsInv, FactsNext, NEW c \in Callers, call[c].pc = "merges", call'[c].pc = "idle"
  PROVE  MergeCommits(c)
  <1>1. call \in [Callers -> CallType(Days)] /\ call'[c] # call[c]
    BY DEF FactsInv
  <1>2. call' # call
    BY <1>1
  <1> DEFINE Other(q) == q # c \/ call[q].pc # "merges"
  <1>3. ASSUME NEW q \in Callers, NEW x, call' = [call EXCEPT ![q] = x], Other(q)
        PROVE  FALSE
    BY <1>1, <1>3
  <1>4. ASSUME NEW q \in Callers, NEW d \in Days, NEW observed \in Days \cup {None},
               NEW dry \in BOOLEAN
        PROVE  ~ExtractStarts(q, d, observed, dry)
    BY <1>3 DEF ExtractStarts, Calls
  <1>5. ASSUME NEW q \in Callers, NEW batch \in Batches PROVE ~ExtractAnswers(q, batch)
    BY <1>3 DEF ExtractAnswers
  <1>6. ASSUME NEW q \in Callers PROVE ~ExtractFails(q) /\ ~ExtractStores(q) /\ ~InvalidateWrites(q)
    BY <1>3 DEF ExtractFails, ExtractStores, InvalidateWrites
  <1>7. ASSUME NEW q \in Callers, NEW s \in Subjects, NEW o \in Values, NEW d \in Days
        PROVE  ~InvalidateReads(q, s, o, d)
    BY <1>3 DEF InvalidateReads, Calls
  <1>8. ASSUME NEW q \in Callers, NEW pair \in Renames PROVE ~MergeStarts(q, pair[1], pair[2])
    BY <1>3 DEF MergeStarts, Calls
  <1>9. ASSUME NEW q \in Callers, NEW s \in Subjects PROVE ~ReviewReads(q, s)
    BY <1>3 DEF ReviewReads, Calls
  <1>10. ASSUME NEW q \in Callers, NEW items PROVE ~ReviewWrites(q, items)
    BY <1>3 DEF ReviewWrites
  <1>11. /\ ~DayPasses /\ ~PreviewExpires /\ \A f \in setup.byHand : ~FactAdd(f)
         /\ \A f \in rows : \A d \in Days : ~InvalidateById(f, d)
    BY <1>2 DEF DayPasses, PreviewExpires, FactAdd, InvalidateById
  <1>12. PICK q \in Callers : MergeCommits(q)
    BY <1>4, <1>5, <1>6, <1>7, <1>8, <1>9, <1>10, <1>11 DEF FactsNext
  <1>13. call' = [call EXCEPT ![q] = Idle]
    BY <1>12 DEF MergeCommits
  <1> QED
    BY <1>3, <1>12, <1>13

(* A rename loses nothing that was stated.                                  *)
THEOREM MergesLoseNothing == FairSpec => MergesKeepFacts
  <1> DEFINE Kept1 == \A c \in Callers : (call[c].pc = "merges" /\ call'[c].pc = "idle") =>
       LET p == call[c] IN
       /\ \A f \in rows : f.to = None =>
            \E g \in rows' :
              /\ g.to = None /\ g.s = Renamed(f.s, p.s, p.o) /\ g.o = Renamed(f.o, p.s, p.o)
              /\ g.from # None => f.from # None /\ g.from =< f.from
       /\ Ids({f \in rows : f.to # None}) \subseteq Ids(rows')
  <1>1. Inv /\ [Next]_vars => [Kept1]_factVars
    <2> SUFFICES ASSUME FactsInv, [Next]_vars, NEW c \in Callers,
                        call[c].pc = "merges", call'[c].pc = "idle"
                 PROVE  LET p == call[c] IN
                        /\ \A f \in rows : f.to = None =>
                             \E g \in rows' :
                               /\ g.to = None
                               /\ g.s = Renamed(f.s, p.s, p.o) /\ g.o = Renamed(f.o, p.s, p.o)
                               /\ g.from # None => f.from # None /\ g.from =< f.from
                        /\ Ids({f \in rows : f.to # None}) \subseteq Ids(rows')
      BY DEF Inv
    <2>1. call' # call
      OBVIOUS
    <2>2. FactsNext
      BY <2>1 DEF Next, RunStarts, Dies, Rewrites, Supersedes, vars, factVars, Progresses,
                  Asks, Abstains, ModelFails, NoteAnswered, FactAnswered, FactReviewed, Logs, Saves
    <2>3. MergeCommits(c)
      BY <2>2, OnlyMergeEnds
    <2>4. /\ call[c].s \in Names /\ call[c].o \in Names /\ rows' = Left(call[c].s, call[c].o)
          /\ last \in Nat /\ RowsOK(rows, last)
      BY <2>3, MergeRows DEF FactsInv
    <2>5. ASSUME NEW f \in rows, f.to # None PROVE f.id \in Ids(rows')
      BY <2>4, <2>5, MergeKeepsEnded
    <2>6. Ids({f \in rows : f.to # None}) \subseteq Ids(rows')
      BY <2>5 DEF Ids
    <2> DEFINE from == call[c].s
               to == call[c].o
    <2>7. ASSUME NEW f \in rows, f.to = None
          PROVE  \E g \in rows' :
                   /\ g.to = None /\ g.s = Renamed(f.s, from, to) /\ g.o = Renamed(f.o, from, to)
                   /\ g.from # None => f.from # None /\ g.from =< f.from
      <3> HIDE DEF from, to
      <3> QED
        BY <2>4, <2>7, MergeKeepsLive DEF from, to
    <2> QED
      BY <2>6, <2>7
  <1> QED
    BY <1>1, LedgerInvariant, PTL DEF FairSpec, MergesKeepFacts
=============================================================================
