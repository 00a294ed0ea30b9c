---------------------------- MODULE MCMaintenance ----------------------------
(* The commands that maintain a knowledge base and measure its use share   *)
(* nothing that their properties are about: one instance has each of them  *)
(* alone, with others of its kind and what goes on beside it.              *)
EXTENDS IdentityRepair, LegacyMigration, FollowThrough, Promotions, Outcomes, TLC

VARIABLE command   \* which of them this is

MCRow(r) == <<"row", r>>
MCDocument(d) == <<"document", d>>

MCDatabase(doc, link) ==
  [doc |-> [d \in Ids |-> IF d \in DOMAIN doc THEN doc[d] ELSE Null],
   link |-> [t \in Targets |-> IF t \in DOMAIN link THEN link[t] ELSE NoLink],
   strange |-> {}]

MCNote(p, h) == [paths |-> {p}, hash |-> h]
MCTo(d) == [to |-> d, at |-> "none"]

MCBackup(h, link) ==
  MCDatabase(1 :> MCNote("p", "x") @@ 2 :> MCNote("q", h),
             MCRow(1) :> MCTo(1) @@ MCDocument(1) :> link)

(* Two notes, of which the first may have been replaced by the second.     *)
MCBackups ==
  {MCBackup("x", NoLink), MCBackup("y", [to |-> 2, at |-> "backup"]),
   [MCBackup("y", NoLink) EXCEPT !.strange = {1}]}

MCLive(p, second, link) == MCDatabase((3 :> MCNote(p, "x")) @@ second, MCDocument(3) :> link)

(* The first has a new id, and maybe another path; the second has its old  *)
(* id, or is gone, or one of several paths.                                *)
MCLives ==
  {MCLive("p", second, link) :
     second \in {2 :> [paths |-> {}, hash |-> "y"], 4 :> MCNote("q", "y")},
     link \in {NoLink, [to |-> 2, at |-> "live"]}}
    \cup {MCLive("r", 2 :> MCNote("q", "y"), NoLink)}

MCPosition == [t \in Targets |-> IF t[1] = "row" THEN t[2] ELSE 10 + t[2]]

MCFront(v) == [k \in Fields |-> v]
MCFile(n, h, b, i, v) ==
  [owner |-> n, home |-> h, body |-> b, imported |-> i, front |-> MCFront(v), tags |-> {}]
MCVault(f) == [p \in VaultPaths |-> IF p \in DOMAIN f THEN f[p] ELSE Nothing]
MCOrder == <<"a", "b">>
MCSource(a, b) == [home |-> a, body |-> b, front |-> MCFront("v"), tags |-> {}]

(* One text is the other, with front matter before it.                     *)
MCParsed ==
  [b \in Bodies |-> IF b = "headed x" THEN [body |-> "x", front |-> MCFront("w")]
                   ELSE [body |-> b, front |-> MCFront(Nothing)]]

(* The notes say the same, or not.                                         *)
MCSources == {"a" :> MCSource("h", "x") @@ "b" :> MCSource("h", s) : s \in {"x", "y"}}

(* Nothing, or what migrations of old left, and a note of the user's.      *)
MCVaults ==
  {MCVault(<<>>),
   MCVault(<<"a", "h", 0>> :> MCFile("a", "h", "x", Nothing, "v")),
   MCVault(<<"a", "h", 0>> :> MCFile(Nothing, "h", "x", Nothing, Nothing) @@
           <<"a", "h", 1>> :> MCFile("a", "h", "y", "y", "v") @@
           <<"b", "h", 0>> :> MCFile("b", "h", "x", Nothing, Nothing) @@
           <<"b", "k", 0>> :> MCFile("b", "k", "y", "y", "w"))}

(* A transcript is of one agent, that gives all its lines a time or none,  *)
(* and begins with the first note that is named; the first task is the     *)
(* first that is spoken of.                                                *)
MCTranscripts ==
  /\ transcript # <<>> =>
       transcript[1].kind = "uses" /\ transcript[1].task = (CHOOSE t \in Tasks : TRUE)
  /\ \A i, j \in Lines : transcript[i].kind = "uses" /\ transcript[j].kind = "uses" =>
       transcript[i].timed = transcript[j].timed

MCInit ==
  /\ command \in {"repair identity", "migrate-legacy", "follow-through", "promotions", "harvest"}
  /\ Init /\ MigrationInit /\ FollowInit /\ PromotionsInit /\ OutcomesInit
  /\ command # "repair identity" =>
       backup = (CHOOSE b \in Backups : TRUE) /\ live = (CHOOSE l \in Lives : TRUE)
  /\ command # "migrate-legacy" =>
       src = (CHOOSE s \in Sources : TRUE) /\ files = (CHOOSE f \in Vaults : TRUE)

MCNext ==
  /\ UNCHANGED command
  /\ \/ /\ command = "repair identity" /\ Next
        /\ UNCHANGED <<migrationVars, followVars, promotionVars, outcomeVars>>
     \/ /\ command = "migrate-legacy" /\ MigrationNext
        /\ UNCHANGED <<vars, followVars, promotionVars, outcomeVars>>
     \/ /\ command = "follow-through" /\ FollowNext
        /\ UNCHANGED <<vars, migrationVars, promotionVars, outcomeVars>>
     \/ /\ command = "promotions" /\ PromotionsNext
        /\ UNCHANGED <<vars, migrationVars, followVars, outcomeVars>>
     \/ /\ command = "harvest" /\ OutcomesNext
        /\ UNCHANGED <<vars, migrationVars, followVars, promotionVars>>

MCSpec ==
  /\ MCInit
  /\ [][MCNext]_<<command, vars, migrationVars, followVars, promotionVars, outcomeVars>>
=============================================================================
