----------------------------- MODULE Promotions -----------------------------
(***************************************************************************)
(* kb promotions (src/cli/promotions.js): a note that was followed and is  *)
(* still inferred is raised to observed, in the index and then in its file,*)
(* and a line about it is appended to a log.  A line without an error keeps*)
(* the note from being considered again.  Runs may overlap, fail at any    *)
(* step and die; the daemon indexes files that have changed meanwhile.     *)
(*                                                                         *)
(* Which note was followed is the join of FollowThrough; here it is input. *)
(* Tiers above observed, and the names and references, are left out.  A    *)
(* file is read and indexed in one step; VaultIndex takes that apart.      *)
(***************************************************************************)
EXTENDS Naturals

CONSTANTS
  Inferred,     \* the notes, all inferred
  Uncertain,    \* notes followed before session ids could be trusted
  Unfiled,      \* notes that have no file
  Promoters,    \* runs
  Unset,
  MaxRuns,      \* bound: how often the command is run
  MaxHand       \* bound: what the user does by hand

ASSUME PromotionsAssumption ==
  /\ Uncertain \cup Unfiled \subseteq Inferred
  /\ Unset \notin Inferred
  /\ MaxRuns \in Nat
  /\ MaxHand \in Nat

VARIABLES
  followed,     \* notes that a session has followed
  tier,         \* documents.tier
  fileTier,     \* the tier of the front matter, "none" without a file
  unseen,       \* files with another text than the index has the hash of
  detached,     \* notes that the index has found without their file
  lines,        \* would-promote.jsonl, as the lines of each note
  promoter,     \* what each run is doing
  deferred,     \* history: notes left to a person, or to a run that is not dry
  byHand,       \* history: notes whose tier, or file, the user has set
  runs, hand

vaultVars == <<fileTier, unseen, detached>>
promotionVars == <<followed, tier, vaultVars, lines, promoter, deferred, byHand, runs, hand>>

Tiers == {"inferred", "observed", "none"}
Line == [applied : BOOLEAN, error : BOOLEAN]
Ended == [at |-> "ended", dry |-> FALSE, todo |-> {}, note |-> Unset]

PromotionsInit ==
  /\ followed = {}
  /\ tier = [n \in Inferred |-> "inferred"]
  /\ fileTier = [n \in Inferred |-> IF n \in Unfiled THEN "none" ELSE "inferred"]
  /\ unseen = {}
  /\ detached = {}
  /\ lines = [n \in Inferred |-> {}]
  /\ promoter = [c \in Promoters |-> Ended]
  /\ deferred = {}
  /\ byHand = {}
  /\ runs = 0
  /\ hand = 0

(* readLoggedDocIds *)
LoggedClean(n) == \E l \in lines[n] : ~l.error

(* computePromotionDecisions *)
ComputesDecisions(c, dry) ==
  /\ promoter[c] = Ended
  /\ runs < MaxRuns
  /\ runs' = runs + 1
  /\ promoter' = [promoter EXCEPT ![c] =
       [at |-> "next", dry |-> dry, note |-> Unset,
        todo |-> {n \in followed \ detached : tier[n] = "inferred" /\ ~LoggedClean(n)}]]
  /\ UNCHANGED <<followed, tier, vaultVars, lines, deferred, byHand, hand>>

Step(c, at, n) == promoter' = [promoter EXCEPT ![c].at = at, ![c].note = n]

(* Mutant: an error is not noted.                                          *)
AppendsDecisionClean(c, n, applied, error) ==
  /\ lines' = [lines EXCEPT ![n] = @ \cup {[applied |-> applied, error |-> FALSE]}]
  /\ promoter' = [promoter EXCEPT ![c].at = "next", ![c].note = Unset, ![c].todo = @ \ {n}]

(* One line, whatever came of the note.                                    *)
AppendsDecision(c, n, applied, error) ==
  /\ lines' = [lines EXCEPT ![n] = @ \cup {[applied |-> applied, error |-> error]}]
  /\ promoter' = [promoter EXCEPT ![c].at = "next", ![c].note = Unset, ![c].todo = @ \ {n}]

(* A dry run, or a note that a person should look at.                      *)
OnlyLogs(c, n) ==
  /\ promoter[c].at = "next"
  /\ n \in promoter[c].todo
  /\ promoter[c].dry \/ n \in Uncertain
  /\ AppendsDecision(c, n, FALSE, FALSE)
  /\ deferred' = deferred \cup {n}
  /\ UNCHANGED <<followed, tier, vaultVars, byHand, runs, hand>>

(* applyDecision up to promoteDocumentTier, which only raises, and refuses *)
(* what has been raised or is gone.                                        *)
Raises(c, n) ==
  /\ promoter[c].at = "next"
  /\ n \in promoter[c].todo
  /\ ~promoter[c].dry /\ n \notin Uncertain
  /\ IF tier[n] = "inferred" /\ n \notin detached
     THEN /\ tier' = [tier EXCEPT ![n] = "observed"]
          /\ Step(c, "file", n)
          /\ UNCHANGED lines
     ELSE /\ AppendsDecision(c, n, FALSE, TRUE)
          /\ UNCHANGED tier
  /\ UNCHANGED <<followed, vaultVars, deferred, byHand, runs, hand>>

(* setNoteTier, unguarded; a note without a file is done.                  *)
RaisesFile(c) ==
  LET n == promoter[c].note
  IN /\ promoter[c].at = "file"
     /\ \/ /\ n \in Unfiled
           /\ AppendsDecision(c, n, TRUE, FALSE)
           /\ UNCHANGED <<fileTier, unseen>>
        \/ /\ n \notin Unfiled /\ fileTier[n] # "none"
           /\ fileTier' = [fileTier EXCEPT ![n] = "observed"]
           /\ unseen' = unseen \cup {n}
           /\ Step(c, "index", n)
           /\ UNCHANGED lines
        \/ /\ n \notin Unfiled
           /\ AppendsDecision(c, n, FALSE, TRUE)
           /\ UNCHANGED <<fileTier, unseen>>
     /\ UNCHANGED <<followed, tier, detached, deferred, byHand, runs, hand>>

(* A file with the hash of its last indexing is passed over; a note that   *)
(* had lost its file is attached again and keeps its tier (preserveTier).  *)
IndexesFile(n) ==
  /\ fileTier[n] # "none"
  /\ tier' = IF n \in unseen \ detached THEN [tier EXCEPT ![n] = fileTier[n]] ELSE tier
  /\ unseen' = unseen \ {n}
  /\ detached' = detached \ {n}

(* indexVaultFile, the failure of which is noted.                          *)
IndexesRaised(c) ==
  LET n == promoter[c].note
  IN /\ promoter[c].at = "index"
     /\ \/ IndexesFile(n) /\ AppendsDecision(c, n, TRUE, FALSE)
        \/ AppendsDecision(c, n, TRUE, TRUE) /\ UNCHANGED <<tier, unseen, detached>>
     /\ UNCHANGED <<followed, fileTier, deferred, byHand, runs, hand>>

EndsRun(c) ==
  /\ promoter[c].at = "next"
  /\ promoter[c].todo = {}
  /\ promoter' = [promoter EXCEPT ![c] = Ended]
  /\ UNCHANGED <<followed, tier, vaultVars, lines, deferred, byHand, runs, hand>>

DiesPromoting(c) ==
  /\ promoter[c] # Ended
  /\ promoter' = [promoter EXCEPT ![c] = Ended]
  /\ UNCHANGED <<followed, tier, vaultVars, lines, deferred, byHand, runs, hand>>

-----------------------------------------------------------------------------
IsFollowed(n) ==
  /\ n \notin followed
  /\ followed' = followed \cup {n}
  /\ UNCHANGED <<tier, vaultVars, lines, promoter, deferred, byHand, runs, hand>>

(* A vault reindex.                                                        *)
Reindexes(n) ==
  /\ n \notin Unfiled
  /\ \/ IndexesFile(n)
     \/ /\ fileTier[n] = "none"
        /\ detached' = detached \cup {n}
        /\ UNCHANGED <<tier, unseen>>
  /\ UNCHANGED <<followed, fileTier, lines, promoter, deferred, byHand, runs, hand>>

(* Something else in the file changes.                                     *)
FileChanges(n) ==
  /\ fileTier[n] # "none"
  /\ unseen' = unseen \cup {n}
  /\ UNCHANGED <<followed, tier, fileTier, detached, lines, promoter, deferred, byHand, runs, hand>>

(* The user, or kb_promote, sets a tier, deletes the file or restores it.  *)
SetsTierByHand(n, t) ==
  /\ n \notin Unfiled
  /\ hand < MaxHand
  /\ hand' = hand + 1
  /\ fileTier' = [fileTier EXCEPT ![n] = t]
  /\ unseen' = unseen \cup {n}
  /\ byHand' = byHand \cup {n}
  /\ UNCHANGED <<followed, tier, detached, lines, promoter, deferred, runs>>

PromotionsNext ==
  \/ \E c \in Promoters :
       \/ \E dry \in BOOLEAN : ComputesDecisions(c, dry)
       \/ \E n \in Inferred : OnlyLogs(c, n) \/ Raises(c, n)
       \/ RaisesFile(c) \/ IndexesRaised(c) \/ EndsRun(c) \/ DiesPromoting(c)
  \/ \E n \in Inferred :
       \/ IsFollowed(n) \/ Reindexes(n) \/ FileChanges(n)
       \/ \E t \in Tiers : SetsTierByHand(n, t)

PromotionsSpec == PromotionsInit /\ [][PromotionsNext]_promotionVars

-----------------------------------------------------------------------------
(* Properties.                                                             *)

(* No indexing takes it back.                                              *)
Stands(n) == IF n \in Unfiled THEN tier[n] = "observed" ELSE fileTier[n] = "observed"

(* A line without an error takes a note out of all later runs.  Whatever   *)
(* failed or died, however runs overlapped and whatever the index made of  *)
(* the file meanwhile, such a note has been raised where no indexing takes *)
(* it back: in its file, or in the index if it has none.  Excepted is what *)
(* the user has set, and what was logged to be looked at by a person.      *)
LoggedMeansRaised ==
  \A n \in Inferred \ (byHand \cup deferred) : LoggedClean(n) => Stands(n)
=============================================================================
