----------------------------- MODULE AtomicNotes -----------------------------
(***************************************************************************)
(* What writeNote (src/write-note.js) promises its callers, as one atomic  *)
(* step per call: a routine note is created only while no live note holds  *)
(* the same ground.  A correction names the note it replaces and is not    *)
(* held to the verdict.  `strayed` are the notes the promise is not about: *)
(* their file and their document disagreed while no writer had them in     *)
(* hand, because somebody edited the vault or a writer died.               *)
(***************************************************************************)

CONSTANTS
  Writers,  \* calls of writeNote
  Notes,    \* notes that may exist; a new note bears its writer's name
  Topics,   \* what a note can say
  None,     \* an absent note
  Topic,    \* what each writer has to say
  Similar   \* the pairs of topics that dedup takes for the same

VARIABLES
  target,   \* the note each call supersedes, None for a routine write
  file,     \* what each note's file says
  retired,  \* superseded notes
  strayed,  \* notes beyond the promise
  verdict   \* how each call ended, if it has

vars == <<target, file, retired, strayed, verdict>>

Init ==
  /\ target \in [Writers -> Notes \cup {None}]
  /\ file \in [Notes -> Topics \cup {None}]
  /\ retired = {}
  /\ strayed = {}
  /\ verdict = [w \in Writers |-> "pending"]

(* The notes a routine write is compared with.                             *)
Held == {n \in Notes \ (retired \cup strayed) : file[n] # None}

Writes(w, n) ==
  /\ verdict[w] = "pending"
  /\ file' = [file EXCEPT ![n] = Topic[w]]
  /\ verdict' = [verdict EXCEPT ![w] = "written"]
  /\ UNCHANGED <<target, retired, strayed>>

Creates(w) ==
  /\ target[w] = None
  /\ \A n \in Held : <<file[n], Topic[w]>> \notin Similar
  /\ Writes(w, w)

Corrects(w) ==
  /\ target[w] # None
  /\ \E n \in {w, target[w]} : Writes(w, n)

Retires(n) ==
  /\ retired' = retired \cup {n}
  /\ UNCHANGED <<target, file, strayed, verdict>>

(* Calls end without a note, and the world beyond the writers has its way  *)
(* with the notes that stray.                                              *)
World ==
  /\ strayed \subseteq strayed'
  /\ \A n \in Notes \ strayed' : file'[n] = file[n]
  /\ \A w \in Writers :
       verdict'[w] # verdict[w] => verdict[w] = "pending" /\ verdict'[w] = "ended"
  /\ UNCHANGED <<target, retired>>

Next ==
  \/ \E w \in Writers : Creates(w) \/ Corrects(w)
  \/ \E n \in Notes : Retires(n)
  \/ World

Spec == Init /\ [][Next]_vars
=============================================================================
