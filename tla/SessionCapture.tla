--------------------------- MODULE SessionCapture ---------------------------
(***************************************************************************)
(* The durable hand-off from lifecycle hooks to the resident daemon        *)
(* (src/session-capture.js).  A hook, or the daemon's control socket on    *)
(* its behalf, upserts one queue file per session; a daemon's drain claims *)
(* the row by creating a `.json.working` lease, harvests the transcript,   *)
(* writes a receipt and removes the lease.  Nothing but the file system    *)
(* orders the processes: every action below is one file-system operation,  *)
(* or a run of reads after which the process keeps only what it read.      *)
(*                                                                         *)
(* Times are kept relative to the present.  A row's `due`, a lease's `ttl` *)
(* and a drain's `age` are what is left of (or has passed since) the       *)
(* absolute time the code stores, so that Tick never runs out of clock.    *)
(* A time that is over stays at 0: overdue rows are not told apart, and a  *)
(* drain may take any of them.                                             *)
(***************************************************************************)
EXTENDS Integers

CONSTANTS
  Sessions,     \* capture keys: one queue, lease and receipt file each
  Kinds,        \* the kinds of transcript a session may have, see Kind
  Events,       \* the reasons of the hooks the host has installed
  Hooks,        \* executions of enqueueSessionCapture that may overlap
  Daemons,      \* daemon processes; one at a time owns the socket
  None,         \* an absent file, row or session
  Delay,        \* DELAY_MS, in ticks, by reason
  Retry,        \* RETRY_MS
  MaxRetry,     \* MAX_RETRY_MS
  Lease,        \* LEASE_MS
  MaxAttempts,  \* bound: attempts are not counted past this
  MaxMtime,     \* bound: how often a transcript grows
  MaxEvents,    \* bound: how many captures hooks accept, by kind of session
  MaxCrashes    \* bound: how often a daemon dies or cannot write a row

Reasons == {"activity", "precompact", "session_end"}
Kind == {"plain", "subagent", "cursor"}

ASSUME ConstantsAssumption ==
  /\ Kinds \subseteq Kind
  /\ Events \subseteq Reasons
  /\ Delay \in [Reasons -> Nat]
  /\ Retry \in Nat
  /\ MaxRetry \in Nat
  /\ Lease \in Nat
  /\ MaxAttempts \in 0..10
  /\ MaxMtime \in Nat
  /\ MaxEvents \in [Kind -> Nat]
  /\ MaxCrashes \in Nat
  /\ None \notin Sessions

(***************************************************************************)
(* What the files hold.  observed = 0 stands for a null observedMtime, and *)
(* transcript or receipt 0 for an absent file.                             *)
(***************************************************************************)
Row == [reason : Reasons, due : Nat, attempts : 0..MaxAttempts, observed : Nat]

(* row = None is a `.working` file whose JSON cannot be read: its creator  *)
(* died between open and write.  owner = None is the owner of a process    *)
(* that is gone: no process holds that UUID any more.                      *)
LeaseFile == [owner : Daemons \cup {None}, ttl : Nat, row : Row \cup {None}]

ASSUME NoneAssumption == None \notin Row /\ None \notin LeaseFile /\ None \notin Daemons

VARIABLES
  transcript,     \* mtime of the session's transcript
  kind,           \* what kind of transcript it is
  cursorEnabled,  \* the cursor-capture marker files
  queue,          \* <key>.json
  working,        \* <key>.json.working
  receipt,        \* processedMtime of the receipt file
  hook,           \* the enqueueSessionCapture executions in progress
  life,           \* a daemon is down, up (owns the socket) or closing
  drain,          \* a daemon's processSessionCaptureQueue in progress
  accepted,       \* history: greatest mtime a queued capture observed
  covered,        \* history: greatest mtime a complete harvest covered
  dropped,        \* history: the session's capture was discarded as unfit
  events,         \* captures accepted so far
  crashes         \* daemon deaths and failed rows so far, up to MaxCrashes

env == <<transcript, kind, cursorEnabled>>
files == <<queue, working, receipt>>
history == <<accepted, covered, dropped>>
counters == <<events, crashes>>
vars == <<env, files, hook, life, drain, history, counters>>

IdleHook == [at |-> "idle", on |-> None, row |-> None]
IdleDrain == [at |-> "idle", on |-> None, row |-> None, seen |-> 0, age |-> 0, todo |-> {}]

Stages == {"idle", "scan", "exists", "restore", "reap", "claim", "fill", "unqueue",
           "resolve", "harvest", "receipt", "retry", "requeue", "release", "unlease"}

(* From the claim to the receipt or the retry a drain holds the request in *)
(* memory; recovery holds the row it read from an expired lease.           *)
Holding == {"fill", "unqueue", "resolve", "harvest", "receipt", "retry", "requeue"}
WithRow == Holding \cup {"exists", "restore", "claim"}

HookState ==
  {x \in [at : {"idle", "observed", "merged"}, on : Sessions \cup {None}, row : Row \cup {None}] :
     x.at # "idle" => x.on \in Sessions /\ x.row \in Row}

DrainState ==
  {x \in [at : Stages, on : Sessions \cup {None}, row : Row \cup {None},
          seen : Nat, age : Nat, todo : SUBSET Sessions] :
     /\ x.at \notin {"idle", "scan"} => x.on \in Sessions
     /\ x.at \in WithRow => x.row \in Row}

TypeOK ==
  /\ transcript \in [Sessions -> Nat]
  /\ kind \in [Sessions -> Kinds]
  /\ cursorEnabled \in BOOLEAN
  /\ queue \in [Sessions -> Row \cup {None}]
  /\ working \in [Sessions -> LeaseFile \cup {None}]
  /\ receipt \in [Sessions -> Nat]
  /\ hook \in [Hooks -> HookState]
  /\ life \in [Daemons -> {"down", "up", "closing"}]
  /\ drain \in [Daemons -> DrainState]
  /\ accepted \in [Sessions -> Nat]
  /\ covered \in [Sessions -> Nat]
  /\ dropped \in [Sessions -> BOOLEAN]
  /\ events \in Nat
  /\ crashes \in 0..MaxCrashes

Init ==
  /\ transcript = [s \in Sessions |-> 0]
  /\ kind \in [Sessions -> Kinds]
  /\ cursorEnabled = FALSE
  /\ queue = [s \in Sessions |-> None]
  /\ working = [s \in Sessions |-> None]
  /\ receipt = [s \in Sessions |-> 0]
  /\ hook = [h \in Hooks |-> IdleHook]
  /\ life = [d \in Daemons |-> "down"]
  /\ drain = [d \in Daemons |-> IdleDrain]
  /\ accepted = [s \in Sessions |-> 0]
  /\ covered = [s \in Sessions |-> 0]
  /\ dropped = [s \in Sessions |-> FALSE]
  /\ events = 0
  /\ crashes = 0

-----------------------------------------------------------------------------
(* Arithmetic of the queue.                                                *)

Larger(a, b) == IF a >= b THEN a ELSE b
Smaller(a, b) == IF a <= b THEN a ELSE b
Left(t, passed) == IF t >= passed THEN t - passed ELSE 0

reasonRank == [activity |-> 1, precompact |-> 2, session_end |-> 3]

Doubling == <<1, 2, 4, 8, 16, 32, 64, 128, 256, 512, 1024>>

(* retryDelay of the n-th failed attempt, n >= 1.                          *)
RetryDelay(n) == Smaller(MaxRetry, Retry * Doubling[Smaller(n, 11)])

(* What an upsert makes of the new request and the row it read.  The later *)
(* lifecycle event wins; only a repeated activity pushes the deadline out. *)
Merged(new, prior) ==
  LET reason == IF reasonRank[new.reason] >= reasonRank[prior.reason]
                THEN new.reason ELSE prior.reason
  IN [reason   |-> reason,
      due      |-> IF reason = "activity" THEN Larger(prior.due, new.due)
                                          ELSE Smaller(prior.due, new.due),
      attempts |-> prior.attempts,
      observed |-> Larger(prior.observed, new.observed)]

(* The row of a failed claim, and of a claim whose harvest covered only    *)
(* part of the transcript.  Both deadlines count from the `now` the drain  *)
(* captured when it began, however long the harvest took.                  *)
RetryRow(d, attempts, delay) ==
  [reason   |-> drain[d].row.reason,
   due      |-> Left(delay, drain[d].age),
   attempts |-> attempts,
   observed |-> drain[d].row.observed]

FailedRow(d) ==
  LET n == drain[d].row.attempts + 1
  IN RetryRow(d, Smaller(n, MaxAttempts), RetryDelay(n))
IncompleteRow(d) == RetryRow(d, drain[d].row.attempts, Retry)

-----------------------------------------------------------------------------
(* Hooks.                                                                  *)

(* A lifecycle hook observes the transcript and is not declined.  It runs  *)
(* in the hook's own process or, when the control socket answers, in the   *)
(* daemon; an answer later than the hook's deadline makes it run in both.  *)
HookObserves(h, s, reason, withPath) ==
  LET observed == IF withPath THEN transcript[s] ELSE 0
  IN /\ hook[h].at = "idle"
     /\ events < MaxEvents[kind[s]]
     /\ kind[s] = "cursor" => cursorEnabled /\ observed > 0
     /\ kind[s] = "subagent" => observed = 0
     /\ observed > 0 => receipt[s] < observed
     /\ hook' = [hook EXCEPT ![h] =
          [at |-> "observed", on |-> s,
           row |-> [reason |-> reason, due |-> Delay[reason], attempts |-> 0,
                    observed |-> observed]]]
     /\ events' = events + 1
     /\ UNCHANGED <<env, files, life, drain, history, crashes>>

HookReadsPrior(h) ==
  LET s == hook[h].on
  IN /\ hook[h].at = "observed"
     /\ hook' = [hook EXCEPT ![h] =
          [at |-> "merged", on |-> s,
           row |-> IF queue[s] = None THEN hook[h].row ELSE Merged(hook[h].row, queue[s])]]
     /\ UNCHANGED <<env, files, life, drain, history, counters>>

(* atomicJson renames a complete file over whatever is there by now.       *)
HookWrites(h) ==
  LET s == hook[h].on
  IN /\ hook[h].at = "merged"
     /\ queue' = [queue EXCEPT ![s] = hook[h].row]
     /\ accepted' = [accepted EXCEPT ![s] = Larger(@, hook[h].row.observed)]
     /\ hook' = [hook EXCEPT ![h] = IdleHook]
     /\ UNCHANGED <<env, working, receipt, life, drain, covered, dropped, counters>>

-----------------------------------------------------------------------------
(* Daemons: close() frees the socket at once and lets the drain in         *)
(* progress finish.  Another daemon may start meanwhile, or while one is   *)
(* up: claimSocket lets two in that find the same dead socket.             *)

DaemonStarts(d) ==
  /\ life[d] = "down"
  /\ life' = [life EXCEPT ![d] = "up"]
  /\ UNCHANGED <<env, files, hook, drain, history, counters>>

DaemonCloses(d) ==
  /\ life[d] = "up"
  /\ life' = [life EXCEPT ![d] = "closing"]
  /\ UNCHANGED <<env, files, hook, drain, history, counters>>

DaemonExits(d) ==
  /\ life[d] = "closing"
  /\ drain[d].at = "idle"
  /\ life' = [life EXCEPT ![d] = "down"]
  /\ UNCHANGED <<env, files, hook, drain, history, counters>>

(* The process is gone with all it held; its lease files stay, and their   *)
(* owner never comes back: the next incarnation draws a new UUID.          *)
DaemonCrashes(d) ==
  /\ life[d] # "down"
  /\ crashes < MaxCrashes
  /\ life' = [life EXCEPT ![d] = "down"]
  /\ drain' = [drain EXCEPT ![d] = IdleDrain]
  /\ working' = [s \in Sessions |->
       IF working[s] = None THEN None
       ELSE IF working[s].owner = d THEN [working[s] EXCEPT !.owner = None]
       ELSE working[s]]
  /\ crashes' = crashes + 1
  /\ UNCHANGED <<env, queue, receipt, hook, history, events>>

-----------------------------------------------------------------------------
(* One drain: processSessionCaptureQueue with its default limit of 1.      *)

(* A step of d's drain that leaves everything but the drain alone.         *)
Only(d, next) ==
  /\ drain' = [drain EXCEPT ![d] = next]
  /\ UNCHANGED <<env, files, hook, life, history, counters>>

(* kickCaptureDrain: at most one drain per daemon, none once it closes.    *)
DrainStarts(d) ==
  /\ life[d] = "up"
  /\ drain[d].at = "idle"
  /\ Only(d, [IdleDrain EXCEPT !.at = "scan",
                               !.todo = {s \in Sessions : working[s] # None}])

(* Mutants: the expiry of a lease is not looked at; an unreadable lease is *)
(* never cleared.                                                          *)
ScanLeaseUnexpired(d, s) ==
  LET rest == drain[d].todo \ {s}
      lease == working[s]
  IN /\ drain[d].at = "scan"
     /\ s \in drain[d].todo
     /\ Only(d, IF lease = None THEN [drain[d] EXCEPT !.todo = rest]
                ELSE [drain[d] EXCEPT !.todo = rest, !.on = s, !.row = lease.row,
                                      !.at = IF lease.row = None THEN "reap" ELSE "exists"])
ScanLeaseReadable(d, s) ==
  LET rest == drain[d].todo \ {s}
      lease == working[s]
  IN /\ drain[d].at = "scan"
     /\ s \in drain[d].todo
     /\ Only(d, IF lease # None /\ lease.ttl = 0 /\ lease.row # None
                THEN [drain[d] EXCEPT !.todo = rest, !.at = "exists", !.on = s, !.row = lease.row]
                ELSE [drain[d] EXCEPT !.todo = rest])

(* recoverExpiredLeases looks at the next `.working` file of its listing.  *)
(* A lease that is gone or not expired is skipped.                         *)
ScanLease(d, s) ==
  LET rest == drain[d].todo \ {s}
      lease == working[s]
      expired == lease # None /\ lease.ttl = 0
  IN /\ drain[d].at = "scan"
     /\ s \in drain[d].todo
     /\ \/ /\ ~expired
           /\ Only(d, [drain[d] EXCEPT !.todo = rest])
        \/ /\ expired
           /\ lease.row = None
           /\ Only(d, [drain[d] EXCEPT !.todo = rest, !.at = "reap", !.on = s])
        \/ /\ expired
           /\ lease.row # None
           /\ Only(d, [drain[d] EXCEPT !.todo = rest, !.at = "exists", !.on = s,
                                       !.row = lease.row])

RecoverChecksQueue(d) ==
  /\ drain[d].at = "exists"
  /\ Only(d, [drain[d] EXCEPT !.at = IF queue[drain[d].on] = None THEN "restore" ELSE "reap"])

RecoverRestores(d) ==
  /\ drain[d].at = "restore"
  /\ queue' = [queue EXCEPT ![drain[d].on] = drain[d].row]
  /\ drain' = [drain EXCEPT ![d].at = "reap"]
  /\ UNCHANGED <<env, working, receipt, hook, life, history, counters>>

(* rmSync(workingPath, { force: true }): whoever owns the file by now.     *)
RecoverRemoves(d) ==
  /\ drain[d].at = "reap"
  /\ working' = [working EXCEPT ![drain[d].on] = None]
  /\ drain' = [drain EXCEPT ![d].at = "scan", ![d].on = None, ![d].row = None]
  /\ UNCHANGED <<env, queue, receipt, hook, life, history, counters>>

Processable(s) ==
  /\ queue[s] # None
  /\ queue[s].due = 0
  /\ kind[s] = "cursor" => cursorEnabled

ListQueue(d) ==
  /\ drain[d].at = "scan"
  /\ drain[d].todo = {}
  /\ \/ \E s \in Sessions :
          /\ Processable(s)
          /\ Only(d, [drain[d] EXCEPT !.at = "claim", !.on = s, !.row = queue[s]])
     \/ /\ \A s \in Sessions : ~Processable(s)
        /\ Only(d, IdleDrain)

(* Mutant: the row goes before the lease holds it.                         *)
ClaimCreatesUnqueueing(d) ==
  LET s == drain[d].on
  IN /\ drain[d].at = "claim"
     /\ working[s] = None
     /\ working' = [working EXCEPT ![s] = [owner |-> d, ttl |-> Lease, row |-> None]]
     /\ queue' = [queue EXCEPT ![s] = None]
     /\ drain' = [drain EXCEPT ![d].at = "fill"]
     /\ UNCHANGED <<env, receipt, hook, life, history, counters>>

(* openSync(path, 'wx'): an existing lease file refuses the claim.         *)
ClaimCreates(d) ==
  LET s == drain[d].on
  IN /\ drain[d].at = "claim"
     /\ \/ /\ working[s] = None
           /\ working' = [working EXCEPT ![s] = [owner |-> d, ttl |-> Lease, row |-> None]]
           /\ drain' = [drain EXCEPT ![d].at = "fill"]
           /\ UNCHANGED <<env, queue, receipt, hook, life, history, counters>>
        \/ /\ working[s] # None
           /\ Only(d, IdleDrain)

(* The lease is written through the open descriptor: if another process    *)
(* unlinked the file meanwhile, the write succeeds and nobody sees it.     *)
ClaimFills(d) ==
  LET s == drain[d].on
  IN /\ drain[d].at = "fill"
     /\ working' = IF working[s] # None /\ working[s].owner = d
                   THEN [working EXCEPT ![s] = [owner |-> d, ttl |-> Left(Lease, drain[d].age),
                                                row |-> drain[d].row]]
                   ELSE working
     /\ drain' = [drain EXCEPT ![d].at = "unqueue"]
     /\ UNCHANGED <<env, queue, receipt, hook, life, history, counters>>

(* Or the write fails, and writeJsonExclusive removes the path it created. *)
ClaimFillFails(d) ==
  /\ drain[d].at = "fill"
  /\ working' = [working EXCEPT ![drain[d].on] = None]
  /\ drain' = [drain EXCEPT ![d] = IdleDrain]
  /\ UNCHANGED <<env, queue, receipt, hook, life, history, counters>>

(* rmSync(queuePath): the row goes, even one written since it was listed.  *)
ClaimUnqueues(d) ==
  /\ drain[d].at = "unqueue"
  /\ queue' = [queue EXCEPT ![drain[d].on] = None]
  /\ drain' = [drain EXCEPT ![d].at = "resolve"]
  /\ UNCHANGED <<env, working, receipt, hook, life, history, counters>>

(* The claim is settled: what the drain read is of no further use.         *)
Releasing(d) == [IdleDrain EXCEPT !.at = "release", !.on = drain[d].on]

(* The claim failed: all that is left is the row to retry with.            *)
Retrying(d, row) == [IdleDrain EXCEPT !.at = "retry", !.on = drain[d].on, !.row = row]

(* Or it stays: the claim is undone, and the row waits for the next drain. *)
ClaimUnqueueFails(d) ==
  /\ drain[d].at = "unqueue"
  /\ Only(d, Releasing(d))

(* A transcript that is not there yet fails the claim; one that may not be *)
(* captured (a subagent's, a Cursor path that is no longer valid) discards *)
(* it; one the receipt covers is skipped; any other is harvested, and the  *)
(* mtime the receipt will record is the one read here.                     *)
Resolves(d) ==
  LET s == drain[d].on
      mtime == transcript[s]
  IN /\ drain[d].at = "resolve"
     /\ \/ /\ mtime = 0
           /\ Only(d, Retrying(d, FailedRow(d)))
        \/ /\ kind[s] \in {"subagent", "cursor"}
           /\ mtime > 0
           /\ drain' = [drain EXCEPT ![d] = Releasing(d)]
           /\ dropped' = [dropped EXCEPT ![s] = TRUE]
           /\ UNCHANGED <<env, files, hook, life, accepted, covered, counters>>
        \/ /\ mtime > 0 /\ kind[s] # "subagent"
           /\ receipt[s] >= mtime
           /\ Only(d, Releasing(d))
        \/ /\ mtime > 0 /\ kind[s] # "subagent"
           /\ receipt[s] < mtime
           /\ Only(d, [drain[d] EXCEPT !.at = "harvest", !.seen = mtime])

(* The harvest read the transcript after `seen` was taken, so a complete   *)
(* one covers at least that much of it.                                    *)
HarvestCompletes(d) ==
  LET s == drain[d].on
  IN /\ drain[d].at = "harvest"
     /\ drain' = [drain EXCEPT ![d].at = "receipt"]
     /\ covered' = [covered EXCEPT ![s] = Larger(@, drain[d].seen)]
     /\ UNCHANGED <<env, files, hook, life, accepted, dropped, counters>>

(* Mutants: a partial harvest is released like a complete one; it even     *)
(* gets a receipt.                                                         *)
HarvestFallsShortForgotten(d) ==
  /\ drain[d].at = "harvest"
  /\ Only(d, Releasing(d))
HarvestFallsShortReceipted(d) ==
  /\ drain[d].at = "harvest"
  /\ Only(d, [drain[d] EXCEPT !.at = "receipt"])

HarvestFallsShort(d) ==
  /\ drain[d].at = "harvest"
  /\ Only(d, Retrying(d, IncompleteRow(d)))

(* The harvest reports errors, or its receipt cannot be written.           *)
HarvestFails(d) ==
  /\ drain[d].at \in {"harvest", "receipt"}
  /\ Only(d, Retrying(d, FailedRow(d)))

WritesReceipt(d) ==
  /\ drain[d].at = "receipt"
  /\ receipt' = [receipt EXCEPT ![drain[d].on] = drain[d].seen]
  /\ drain' = [drain EXCEPT ![d] = Releasing(d)]
  /\ UNCHANGED <<env, queue, working, hook, life, history, counters>>

(* existsSync(queuePath), in the catch block and in requeueIncomplete.     *)
RetryChecksQueue(d) ==
  /\ drain[d].at = "retry"
  /\ Only(d, IF queue[drain[d].on] = None THEN [drain[d] EXCEPT !.at = "requeue"]
                                          ELSE Releasing(d))

RetryRequeues(d) ==
  /\ drain[d].at = "requeue"
  /\ queue' = [queue EXCEPT ![drain[d].on] = drain[d].row]
  /\ drain' = [drain EXCEPT ![d] = Releasing(d)]
  /\ UNCHANGED <<env, working, receipt, hook, life, history, counters>>

(* A row that cannot be written ends the drain like a crash would, and     *)
(* leaves the lease to expire.                                             *)
RowFails(d) ==
  /\ drain[d].at \in {"restore", "requeue"}
  /\ crashes < MaxCrashes
  /\ drain' = [drain EXCEPT ![d] = IdleDrain]
  /\ crashes' = crashes + 1
  /\ UNCHANGED <<env, files, hook, life, history, events>>

(* removeOwnedLease: read the owner, then remove the path.                 *)
ReleaseChecksOwner(d) ==
  LET lease == working[drain[d].on]
  IN /\ drain[d].at = "release"
     /\ Only(d, IF lease # None /\ lease.row # None /\ lease.owner = d
                THEN [drain[d] EXCEPT !.at = "unlease"] ELSE IdleDrain)

ReleaseRemoves(d) ==
  /\ drain[d].at = "unlease"
  /\ working' = [working EXCEPT ![drain[d].on] = None]
  /\ drain' = [drain EXCEPT ![d] = IdleDrain]
  /\ UNCHANGED <<env, queue, receipt, hook, life, history, counters>>

-----------------------------------------------------------------------------
(* The rest of the world.                                                  *)

TranscriptGrows(s) ==
  /\ transcript[s] < MaxMtime
  /\ transcript' = [transcript EXCEPT ![s] = @ + 1]
  /\ UNCHANGED <<kind, cursorEnabled, files, hook, life, drain, history, counters>>

CursorToggles ==
  /\ \E s \in Sessions : kind[s] = "cursor"
  /\ cursorEnabled' = ~cursorEnabled
  /\ UNCHANGED <<transcript, kind, files, hook, life, drain, history, counters>>

(* Stages at which a drain has no more use for the time it began at.       *)
Undated == {"idle", "retry", "requeue", "release", "unlease"}

RowAfterTick(row) == IF row = None THEN None ELSE [row EXCEPT !.due = Left(@, 1)]

Tick ==
  /\ queue' = [s \in Sessions |-> RowAfterTick(queue[s])]
  /\ working' = [s \in Sessions |->
       IF working[s] = None THEN None
       ELSE [working[s] EXCEPT !.ttl = Left(@, 1), !.row = RowAfterTick(@)]]
  /\ hook' = [h \in Hooks |-> [hook[h] EXCEPT !.row = RowAfterTick(@)]]
  /\ drain' = [d \in Daemons |->
       [drain[d] EXCEPT !.row = RowAfterTick(@),
                        !.age = IF drain[d].at \in Undated THEN 0
                                ELSE Smaller(@ + 1, Larger(MaxRetry, Lease))]]
  /\ UNCHANGED <<env, receipt, life, history, counters>>

DrainStep(d) ==
  \/ DrainStarts(d)
  \/ \E s \in Sessions : ScanLease(d, s)
  \/ RecoverChecksQueue(d) \/ RecoverRestores(d) \/ RecoverRemoves(d)
  \/ ListQueue(d)
  \/ ClaimCreates(d) \/ ClaimFills(d) \/ ClaimUnqueues(d)
  \/ Resolves(d)
  \/ WritesReceipt(d)
  \/ RetryChecksQueue(d) \/ RetryRequeues(d)
  \/ ReleaseChecksOwner(d) \/ ReleaseRemoves(d)

HookStep(h) ==
  \/ \E s \in Sessions, reason \in Events, withPath \in BOOLEAN :
       HookObserves(h, s, reason, withPath)
  \/ HookReadsPrior(h)
  \/ HookWrites(h)

Next ==
  \/ \E h \in Hooks : HookStep(h)
  \/ \E d \in Daemons :
       \/ DaemonStarts(d) \/ DaemonCloses(d) \/ DaemonExits(d) \/ DaemonCrashes(d)
       \/ DrainStep(d)
       \/ ClaimFillFails(d) \/ ClaimUnqueueFails(d)
       \/ HarvestCompletes(d) \/ HarvestFallsShort(d) \/ HarvestFails(d)
       \/ RowFails(d)
  \/ \E s \in Sessions : TranscriptGrows(s)
  \/ CursorToggles
  \/ Tick

Spec == Init /\ [][Next]_vars

(* What the code's scheduling justifies: time passes; the service manager  *)
(* starts the daemon again; a daemon that is up polls its queue (and kicks *)
(* a drain as soon as it listens, so a restart cannot starve it); the      *)
(* steps of a drain are synchronous.  Writing a file and harvesting may    *)
(* fail, but not for ever: a partial harvest resumes from its ledger.      *)
Fairness ==
  /\ WF_vars(Tick)
  /\ \A d \in Daemons :
       /\ WF_vars(DaemonStarts(d)) /\ WF_vars(DaemonExits(d))
       /\ SF_vars(DrainStarts(d)) /\ WF_vars(DrainStep(d))
       /\ SF_vars(ClaimFills(d)) /\ SF_vars(ClaimUnqueues(d))
       /\ SF_vars(HarvestCompletes(d)) /\ SF_vars(WritesReceipt(d))

FairSpec == Spec /\ Fairness

-----------------------------------------------------------------------------
(* Properties.                                                             *)

(* A capture that a hook reported as queued is never forgotten: until a    *)
(* harvest has covered what the hook saw, or the session is discarded as   *)
(* unfit, its row is in the queue, in a readable lease, or with a drain    *)
(* that still has to finish it.  Concerns the unlocked upsert, the claim's *)
(* unconditional removal of the row, recovery and the two requeue paths.   *)
AcceptedNotLost ==
  \A s \in Sessions :
    \/ covered[s] >= accepted[s]
    \/ dropped[s]
    \/ queue[s] # None
    \/ working[s] # None /\ working[s].row # None
    \/ \E d \in Daemons : drain[d].on = s /\ drain[d].at \in Holding \cup {"restore"}

(* A receipt never claims more of a transcript than a complete harvest has *)
(* covered, so declining `already_processed` never skips content.          *)
ReceiptHonest == \A s \in Sessions : receipt[s] <= covered[s]

(* A lease that has not expired is removed only by the drain it belongs    *)
(* to, whatever crashed and restarted: the recovery of the next daemon     *)
(* leaves it alone.                                                        *)
LeaseRespected ==
  [][\A s \in Sessions :
       (working[s] # None /\ working[s].ttl > 0 /\ working'[s] = None)
         => \E d \in Daemons : working[s].owner = d /\ drain[d].on = s]_vars

(* Every queued capture is eventually harvested (or discarded as unfit),   *)
(* through crashes, expired leases, failed and partial harvests; but for a *)
(* Cursor session, which waits as long as its capture is switched off.     *)
EventuallyCaptured ==
  \A s \in Sessions : \A m \in 1..MaxMtime :
    []<>(accepted[s] >= m /\ kind[s] # "cursor" => covered[s] >= m \/ dropped[s])

(* The comment in the catch block: "A newer hook may already have queued   *)
(* fresher state while this item was working. Keep that row".              *)
RetryKeepsFresherRow ==
  [][\A d \in Daemons : RetryRequeues(d) =>
       LET row == queue[drain[d].on]
       IN row # None => row.observed <= drain[d].row.observed]_vars
=============================================================================
