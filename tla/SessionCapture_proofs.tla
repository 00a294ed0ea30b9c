----------------------- MODULE SessionCapture_proofs -----------------------
(***************************************************************************)
(* Theorems of SessionCapture, for any sets of sessions, hooks and daemons *)
(* and any delays and bounds.                                              *)
(***************************************************************************)
EXTENDS SessionCapture, TLAPS

-----------------------------------------------------------------------------
(* The operators.                                                          *)

LEMMA LargerType == ASSUME NEW a \in Nat, NEW b \in Nat
                    PROVE  Larger(a, b) \in Nat /\ Larger(a, b) >= a /\ Larger(a, b) >= b
  BY DEF Larger

LEMMA LeftType == ASSUME NEW t \in Nat, NEW p \in Nat PROVE Left(t, p) \in Nat
  BY DEF Left

LEMMA RetryDelayType == ASSUME NEW n \in 1..(MaxAttempts + 1) PROVE RetryDelay(n) \in Nat
  <1>1. n \in 1..11 /\ Smaller(n, 11) = n
    BY ConstantsAssumption DEF Smaller
  <1>2. Doubling[n] \in Nat
    BY <1>1 DEF Doubling
  <1>3. Retry * Doubling[n] \in Nat
    BY <1>2, ConstantsAssumption
  <1> QED
    BY <1>1, <1>3, ConstantsAssumption DEF RetryDelay, Smaller

(* An upsert of a row over a row is a row, and observes at least as much   *)
(* as either.                                                              *)
LEMMA MergedType ==
  ASSUME NEW new \in Row, NEW prior \in Row
  PROVE  /\ Merged(new, prior) \in Row
         /\ Merged(new, prior).observed >= prior.observed
  BY DEF Merged, Row, Larger, Smaller, Reasons

LEMMA RowAfterTickType ==
  ASSUME NEW row \in Row \cup {None}
  PROVE  RowAfterTick(row) \in Row \cup {None}
  BY NoneAssumption, LeftType DEF RowAfterTick, Row

LEMMA RowAfterTickKeepsRow == ASSUME NEW row \in Row PROVE RowAfterTick(row) \in Row
  BY RowAfterTickType, NoneAssumption DEF RowAfterTick, Row, Left

LEMMA IdleTypes == IdleDrain \in DrainState /\ IdleHook \in HookState
  BY DEF IdleDrain, IdleHook, DrainState, HookState, Stages, WithRow, Holding

-----------------------------------------------------------------------------
(* A step that moves one drain to a well-typed state, and nothing else.    *)
LEMMA OnlyType ==
  ASSUME TypeOK, NEW d \in Daemons, NEW next \in DrainState, Only(d, next)
  PROVE  TypeOK'
  BY DEF TypeOK, Only, env, files, history, counters

(* The rows of the retry paths.                                            *)
LEMMA RetryRowType ==
  ASSUME TypeOK, NEW d \in Daemons, drain[d].row \in Row
  PROVE  FailedRow(d) \in Row /\ IncompleteRow(d) \in Row
  <1>1. drain[d].age \in Nat
    BY DEF TypeOK, DrainState
  <1>2. ASSUME NEW n \in 0..MaxAttempts, NEW delay \in Nat
        PROVE  RetryRow(d, n, delay) \in Row
    <2>1. Left(delay, drain[d].age) \in Nat
      BY <1>1, LeftType
    <2> QED
      BY <2>1 DEF RetryRow, Row
  <1>3. drain[d].row.attempts \in 0..MaxAttempts
    BY DEF Row
  <1>4. /\ drain[d].row.attempts + 1 \in 1..(MaxAttempts + 1)
        /\ Smaller(drain[d].row.attempts + 1, MaxAttempts) \in 0..MaxAttempts
    BY <1>3, ConstantsAssumption DEF Smaller
  <1> QED
    BY <1>2, <1>3, <1>4, RetryDelayType, ConstantsAssumption DEF FailedRow, IncompleteRow

LEMMA HookReadsPriorType ==
  ASSUME TypeOK, NEW h \in Hooks, HookReadsPrior(h)
  PROVE  TypeOK'
  <1> DEFINE new == IF queue[hook[h].on] = None THEN hook[h].row
                    ELSE Merged(hook[h].row, queue[hook[h].on])
  <1>1. hook[h] \in HookState /\ hook[h].row \in Row /\ hook[h].on \in Sessions
    BY DEF TypeOK, HookState, HookReadsPrior
  <1>2. new \in Row
    BY <1>1, MergedType DEF TypeOK
  <1>3. hook' = [hook EXCEPT ![h] = [at |-> "merged", on |-> hook[h].on, row |-> new]]
    BY DEF HookReadsPrior
  <1> HIDE DEF new
  <1>4. hook' \in [Hooks -> HookState]
    BY <1>1, <1>2, <1>3 DEF TypeOK, HookState
  <1> QED
    BY <1>4 DEF TypeOK, HookReadsPrior, env, files, history, counters

LEMMA HookObservesType ==
  ASSUME TypeOK, NEW h \in Hooks, NEW s \in Sessions, NEW reason \in Events,
         NEW withPath \in BOOLEAN, HookObserves(h, s, reason, withPath)
  PROVE  TypeOK'
  <1> DEFINE observed == IF withPath THEN transcript[s] ELSE 0
             row == [reason |-> reason, due |-> Delay[reason], attempts |-> 0,
                     observed |-> observed]
  <1>1. row \in Row
    BY ConstantsAssumption DEF TypeOK, Row
  <1>2. hook' = [hook EXCEPT ![h] = [at |-> "observed", on |-> s, row |-> row]]
    BY DEF HookObserves
  <1>3. events' \in Nat
    BY ConstantsAssumption DEF HookObserves, TypeOK
  <1> HIDE DEF row
  <1>4. hook' \in [Hooks -> HookState]
    BY <1>1, <1>2 DEF TypeOK, HookState
  <1> QED
    BY <1>3, <1>4 DEF TypeOK, HookObserves, env, files, history

LEMMA HookWritesType ==
  ASSUME TypeOK, NEW h \in Hooks, HookWrites(h)
  PROVE  TypeOK'
  <1>1. hook[h] \in HookState /\ hook[h].row \in Row /\ hook[h].on \in Sessions
    BY DEF TypeOK, HookState, HookWrites
  <1>2. queue' \in [Sessions -> Row \cup {None}] /\ hook' \in [Hooks -> HookState]
    BY <1>1, IdleTypes DEF TypeOK, HookWrites
  <1>3. hook[h].row.observed \in Nat
    BY <1>1 DEF Row
  <1>4. accepted' \in [Sessions -> Nat]
    BY <1>3, LargerType DEF TypeOK, HookWrites
  <1> QED
    BY <1>2, <1>4 DEF TypeOK, HookWrites, env, counters

LEMMA DaemonType ==
  ASSUME TypeOK, NEW d \in Daemons,
         DaemonStarts(d) \/ DaemonCloses(d) \/ DaemonExits(d) \/ DaemonCrashes(d)
  PROVE  TypeOK'
  <1>1. CASE DaemonStarts(d) \/ DaemonCloses(d) \/ DaemonExits(d)
    BY <1>1 DEF TypeOK, DaemonStarts, DaemonCloses, DaemonExits, env, files, history, counters
  <1>2. CASE DaemonCrashes(d)
    <2>1. \A s \in Sessions : working[s] # None => [working[s] EXCEPT !.owner = None] \in LeaseFile
      BY DEF TypeOK, LeaseFile
    <2>2. working' \in [Sessions -> LeaseFile \cup {None}]
      BY <1>2, <2>1 DEF TypeOK, DaemonCrashes
    <2>3. drain' \in [Daemons -> DrainState] /\ life' \in [Daemons -> {"down", "up", "closing"}]
      BY <1>2, IdleTypes DEF TypeOK, DaemonCrashes
    <2>4. crashes' \in 0..MaxCrashes
      BY <1>2, ConstantsAssumption DEF TypeOK, DaemonCrashes
    <2> QED
      BY <1>2, <2>2, <2>3, <2>4 DEF TypeOK, DaemonCrashes, env, history
  <1> QED
    BY <1>1, <1>2

(* Steps of a drain that only move the drain.                              *)
LEMMA DrainMovesType ==
  ASSUME TypeOK, NEW d \in Daemons,
         \/ DrainStarts(d) \/ \E s \in Sessions : ScanLease(d, s)
         \/ RecoverChecksQueue(d) \/ ListQueue(d)
         \/ ClaimUnqueueFails(d) \/ HarvestFallsShort(d) \/ HarvestFails(d)
         \/ RetryChecksQueue(d) \/ ReleaseChecksOwner(d)
  PROVE  TypeOK'
  <1> USE DEF WithRow, Holding, Stages
  <1>0. drain[d] \in DrainState
    BY DEF TypeOK
  <1>1. CASE DrainStarts(d)
    <2>1. [IdleDrain EXCEPT !.at = "scan", !.todo = {s \in Sessions : working[s] # None}]
            \in DrainState
      BY DEF IdleDrain, DrainState
    <2> QED
      BY <1>1, <2>1, OnlyType DEF DrainStarts
  <1>2. ASSUME NEW s \in Sessions, ScanLease(d, s)
        PROVE  TypeOK'
    <2> DEFINE rest == drain[d].todo \ {s}
               skip == [drain[d] EXCEPT !.todo = rest]
               reap == [drain[d] EXCEPT !.todo = rest, !.at = "reap", !.on = s]
               found == [drain[d] EXCEPT !.todo = rest, !.at = "exists", !.on = s,
                                         !.row = working[s].row]
    <2>1. skip \in DrainState /\ reap \in DrainState
      BY <1>0, <1>2 DEF DrainState, ScanLease
    <2>2. working[s] # None => working[s].row \in Row \cup {None}
      BY DEF TypeOK, LeaseFile
    <2>3. working[s] # None /\ working[s].row # None => found \in DrainState
      BY <1>0, <2>2 DEF DrainState
    <2>4. \/ Only(d, skip) \/ Only(d, reap)
          \/ working[s] # None /\ working[s].row # None /\ Only(d, found)
      BY <1>2 DEF ScanLease
    <2> HIDE DEF rest, skip, reap, found
    <2> QED
      BY <2>1, <2>3, <2>4, OnlyType
  <1>3. CASE RecoverChecksQueue(d)
    <2>1. /\ [drain[d] EXCEPT !.at = "restore"] \in DrainState
          /\ [drain[d] EXCEPT !.at = "reap"] \in DrainState
      BY <1>0, <1>3 DEF DrainState, RecoverChecksQueue
    <2> QED
      BY <1>3, <2>1, OnlyType DEF RecoverChecksQueue
  <1>4. CASE ListQueue(d)
    <2>1. ASSUME NEW s \in Sessions, queue[s] # None
          PROVE  [drain[d] EXCEPT !.at = "claim", !.on = s, !.row = queue[s]] \in DrainState
      BY <1>0, <2>1 DEF DrainState, TypeOK
    <2> QED
      BY <1>4, <2>1, OnlyType, IdleTypes DEF ListQueue, Processable
  <1>5. CASE HarvestFallsShort(d)
    <2>1. drain[d].row \in Row
      BY <1>0, <1>5 DEF DrainState, HarvestFallsShort
    <2>2. IncompleteRow(d) \in Row
      BY <2>1, RetryRowType
    <2>3. Retrying(d, IncompleteRow(d)) \in DrainState
      BY <1>0, <1>5, <2>2 DEF DrainState, HarvestFallsShort, Retrying, IdleDrain
    <2> QED
      BY <1>5, <2>3, OnlyType DEF HarvestFallsShort
  <1>6. CASE HarvestFails(d)
    <2>1. drain[d].row \in Row
      BY <1>0, <1>6 DEF DrainState, HarvestFails
    <2>2. FailedRow(d) \in Row
      BY <2>1, RetryRowType
    <2>3. Retrying(d, FailedRow(d)) \in DrainState
      BY <1>0, <1>6, <2>2 DEF DrainState, HarvestFails, Retrying, IdleDrain
    <2> QED
      BY <1>6, <2>3, OnlyType DEF HarvestFails
  <1>7. CASE RetryChecksQueue(d)
    <2>1. /\ [drain[d] EXCEPT !.at = "requeue"] \in DrainState
          /\ Releasing(d) \in DrainState
      BY <1>0, <1>7 DEF DrainState, RetryChecksQueue, Releasing, IdleDrain
    <2> QED
      BY <1>7, <2>1, OnlyType DEF RetryChecksQueue
  <1>8. CASE ReleaseChecksOwner(d)
    <2>1. [drain[d] EXCEPT !.at = "unlease"] \in DrainState
      BY <1>0, <1>8 DEF DrainState, ReleaseChecksOwner
    <2> QED
      BY <1>8, <2>1, OnlyType, IdleTypes DEF ReleaseChecksOwner
  <1>9. CASE ClaimUnqueueFails(d)
    <2>1. Releasing(d) \in DrainState
      BY <1>0, <1>9 DEF DrainState, ClaimUnqueueFails, Releasing, IdleDrain
    <2> QED
      BY <1>9, <2>1, OnlyType DEF ClaimUnqueueFails
  <1> QED
    BY <1>1, <1>2, <1>3, <1>4, <1>5, <1>6, <1>7, <1>8, <1>9

(* Steps of a drain that change a file or the history.                     *)
LEMMA DrainWritesType ==
  ASSUME TypeOK, NEW d \in Daemons,
         \/ RecoverRestores(d) \/ RecoverRemoves(d)
         \/ ClaimCreates(d) \/ ClaimFills(d) \/ ClaimFillFails(d) \/ ClaimUnqueues(d)
         \/ Resolves(d) \/ HarvestCompletes(d) \/ WritesReceipt(d)
         \/ RetryRequeues(d) \/ RowFails(d) \/ ReleaseRemoves(d)
  PROVE  TypeOK'
  <1> USE DEF WithRow, Holding, Stages
  <1>0. drain[d] \in DrainState
    BY DEF TypeOK
  <1>a. ASSUME drain[d].at \notin {"idle", "scan"}
        PROVE  Releasing(d) \in DrainState
    BY <1>0, <1>a DEF DrainState, Releasing, IdleDrain
  <1>1. CASE RecoverRestores(d)
    <2>1. drain' = [drain EXCEPT ![d] = [drain[d] EXCEPT !.at = "reap"]]
      BY <1>1 DEF RecoverRestores
    <2>2. [drain[d] EXCEPT !.at = "reap"] \in DrainState /\ drain[d].row \in Row
      BY <1>0, <1>1 DEF DrainState, RecoverRestores
    <2>3. drain' \in [Daemons -> DrainState] /\ queue' \in [Sessions -> Row \cup {None}]
      BY <1>1, <2>1, <2>2 DEF TypeOK, RecoverRestores
    <2> QED
      BY <1>1, <2>3 DEF TypeOK, RecoverRestores, env, history, counters
  <1>2. CASE RecoverRemoves(d)
    <2>1. [drain[d] EXCEPT !.at = "scan", !.on = None, !.row = None] \in DrainState
      BY <1>0, <1>2 DEF DrainState, RecoverRemoves
    <2>2. drain' = [drain EXCEPT ![d] =
                      [drain[d] EXCEPT !.at = "scan", !.on = None, !.row = None]]
      BY <1>2 DEF RecoverRemoves
    <2>3. drain' \in [Daemons -> DrainState] /\ working' \in [Sessions -> LeaseFile \cup {None}]
      BY <1>2, <2>1, <2>2 DEF TypeOK, RecoverRemoves
    <2> QED
      BY <1>2, <2>3 DEF TypeOK, RecoverRemoves, env, history, counters
  <1>3. CASE ClaimCreates(d)
    <2>1. CASE working[drain[d].on] = None
      <3>1. [drain[d] EXCEPT !.at = "fill"] \in DrainState
        BY <1>0, <1>3 DEF DrainState, ClaimCreates
      <3>2. drain' = [drain EXCEPT ![d] = [drain[d] EXCEPT !.at = "fill"]]
        BY <1>3, <2>1 DEF ClaimCreates
      <3>3. [owner |-> d, ttl |-> Lease, row |-> None] \in LeaseFile
        BY ConstantsAssumption DEF LeaseFile
      <3>4. /\ drain' \in [Daemons -> DrainState]
            /\ working' \in [Sessions -> LeaseFile \cup {None}]
        BY <1>3, <2>1, <3>1, <3>2, <3>3 DEF TypeOK, ClaimCreates
      <3> QED
        BY <1>3, <2>1, <3>4 DEF TypeOK, ClaimCreates, env, history, counters
    <2>2. CASE working[drain[d].on] # None
      BY <1>3, <2>2, IdleTypes, OnlyType DEF ClaimCreates
    <2> QED
      BY <2>1, <2>2
  <1>4. CASE ClaimFills(d)
    <2>1. [drain[d] EXCEPT !.at = "unqueue"] \in DrainState /\ drain[d].row \in Row
      BY <1>0, <1>4 DEF DrainState, ClaimFills
    <2>2. drain' = [drain EXCEPT ![d] = [drain[d] EXCEPT !.at = "unqueue"]]
      BY <1>4 DEF ClaimFills
    <2>3. Left(Lease, drain[d].age) \in Nat
      BY <1>0, LeftType, ConstantsAssumption DEF DrainState
    <2>4. [owner |-> d, ttl |-> Left(Lease, drain[d].age), row |-> drain[d].row] \in LeaseFile
      BY <2>1, <2>3 DEF LeaseFile
    <2>5. drain' \in [Daemons -> DrainState] /\ working' \in [Sessions -> LeaseFile \cup {None}]
      BY <1>4, <2>1, <2>2, <2>4 DEF TypeOK, ClaimFills
    <2> QED
      BY <1>4, <2>5 DEF TypeOK, ClaimFills, env, history, counters
  <1>5. CASE ClaimFillFails(d)
    <2>1. drain' \in [Daemons -> DrainState] /\ working' \in [Sessions -> LeaseFile \cup {None}]
      BY <1>5, IdleTypes DEF TypeOK, ClaimFillFails
    <2> QED
      BY <1>5, <2>1 DEF TypeOK, ClaimFillFails, env, history, counters
  <1>6. CASE ClaimUnqueues(d)
    <2>1. [drain[d] EXCEPT !.at = "resolve"] \in DrainState
      BY <1>0, <1>6 DEF DrainState, ClaimUnqueues
    <2>2. drain' = [drain EXCEPT ![d] = [drain[d] EXCEPT !.at = "resolve"]]
      BY <1>6 DEF ClaimUnqueues
    <2>3. drain' \in [Daemons -> DrainState] /\ queue' \in [Sessions -> Row \cup {None}]
      BY <1>6, <2>1, <2>2 DEF TypeOK, ClaimUnqueues
    <2> QED
      BY <1>6, <2>3 DEF TypeOK, ClaimUnqueues, env, history, counters
  <1>7. CASE Resolves(d)
    <2> DEFINE s == drain[d].on
               harvesting == [drain[d] EXCEPT !.at = "harvest", !.seen = transcript[s]]
    <2>1. drain[d].row \in Row /\ s \in Sessions
      BY <1>0, <1>7 DEF DrainState, Resolves
    <2>2. transcript[s] \in Nat
      BY <2>1 DEF TypeOK
    <2>3. harvesting \in DrainState /\ Releasing(d) \in DrainState
      BY <1>0, <1>7, <1>a, <2>2 DEF DrainState, Resolves
    <2>4. FailedRow(d) \in Row
      BY <2>1, RetryRowType
    <2>5. Retrying(d, FailedRow(d)) \in DrainState
      BY <1>0, <1>7, <2>4 DEF DrainState, Resolves, Retrying, IdleDrain
    <2>6. \/ Only(d, Retrying(d, FailedRow(d))) \/ Only(d, Releasing(d)) \/ Only(d, harvesting)
          \/ /\ drain' = [drain EXCEPT ![d] = Releasing(d)]
             /\ dropped' = [dropped EXCEPT ![s] = TRUE]
             /\ UNCHANGED <<env, files, hook, life, accepted, covered, counters>>
      BY <1>7 DEF Resolves
    <2>7. CASE /\ drain' = [drain EXCEPT ![d] = Releasing(d)]
               /\ dropped' = [dropped EXCEPT ![s] = TRUE]
               /\ UNCHANGED <<env, files, hook, life, accepted, covered, counters>>
      BY <2>3, <2>7 DEF TypeOK, env, files, counters
    <2> HIDE DEF harvesting, s
    <2> QED
      BY <2>3, <2>5, <2>6, <2>7, OnlyType
  <1>8. CASE HarvestCompletes(d)
    <2>1. [drain[d] EXCEPT !.at = "receipt"] \in DrainState /\ drain[d].seen \in Nat
      BY <1>0, <1>8 DEF DrainState, HarvestCompletes
    <2>2. drain' = [drain EXCEPT ![d] = [drain[d] EXCEPT !.at = "receipt"]]
      BY <1>8 DEF HarvestCompletes
    <2>3. covered' \in [Sessions -> Nat]
      BY <1>8, <2>1, LargerType DEF TypeOK, HarvestCompletes
    <2>4. drain' \in [Daemons -> DrainState]
      BY <2>1, <2>2 DEF TypeOK
    <2> QED
      BY <1>8, <2>3, <2>4 DEF TypeOK, HarvestCompletes, env, files, counters
  <1>9. CASE WritesReceipt(d)
    <2>1. Releasing(d) \in DrainState /\ drain[d].seen \in Nat
      BY <1>0, <1>9, <1>a DEF DrainState, WritesReceipt
    <2>2. drain' \in [Daemons -> DrainState] /\ receipt' \in [Sessions -> Nat]
      BY <1>9, <2>1 DEF TypeOK, WritesReceipt
    <2> QED
      BY <1>9, <2>2 DEF TypeOK, WritesReceipt, env, history, counters
  <1>10. CASE RetryRequeues(d)
    <2>1. Releasing(d) \in DrainState /\ drain[d].row \in Row
      BY <1>0, <1>10, <1>a DEF DrainState, RetryRequeues
    <2>2. drain' \in [Daemons -> DrainState] /\ queue' \in [Sessions -> Row \cup {None}]
      BY <1>10, <2>1 DEF TypeOK, RetryRequeues
    <2> QED
      BY <1>10, <2>2 DEF TypeOK, RetryRequeues, env, history, counters
  <1>11. CASE ReleaseRemoves(d)
    <2>1. drain' \in [Daemons -> DrainState] /\ working' \in [Sessions -> LeaseFile \cup {None}]
      BY <1>11, IdleTypes DEF TypeOK, ReleaseRemoves
    <2> QED
      BY <1>11, <2>1 DEF TypeOK, ReleaseRemoves, env, history, counters
  <1>12. CASE RowFails(d)
    <2>1. drain' \in [Daemons -> DrainState] /\ crashes' \in 0..MaxCrashes
      BY <1>12, IdleTypes, ConstantsAssumption DEF TypeOK, RowFails
    <2> QED
      BY <1>12, <2>1 DEF TypeOK, RowFails, env, files, history
  <1> QED
    BY <1>1, <1>2, <1>3, <1>4, <1>5, <1>6, <1>7, <1>8, <1>9, <1>10, <1>11, <1>12

LEMMA TickType == ASSUME TypeOK, Tick PROVE TypeOK'
  <1>1. queue' \in [Sessions -> Row \cup {None}]
    BY RowAfterTickType DEF TypeOK, Tick
  <1>2. ASSUME NEW s \in Sessions, working[s] # None
        PROVE  [working[s] EXCEPT !.ttl = Left(@, 1), !.row = RowAfterTick(@)] \in LeaseFile
    <2>1. working[s] \in LeaseFile
      BY <1>2 DEF TypeOK
    <2>2. Left(working[s].ttl, 1) \in Nat /\ RowAfterTick(working[s].row) \in Row \cup {None}
      BY <2>1, LeftType, RowAfterTickType DEF LeaseFile
    <2> QED
      BY <2>1, <2>2 DEF LeaseFile
  <1>3. working' \in [Sessions -> LeaseFile \cup {None}]
    BY <1>2 DEF TypeOK, Tick
  <1>4. ASSUME NEW h \in Hooks
        PROVE  [hook[h] EXCEPT !.row = RowAfterTick(@)] \in HookState
    <2>1. hook[h] \in HookState
      BY DEF TypeOK
    <2>2. /\ RowAfterTick(hook[h].row) \in Row \cup {None}
          /\ hook[h].row \in Row => RowAfterTick(hook[h].row) \in Row
      BY <2>1, RowAfterTickType, RowAfterTickKeepsRow DEF HookState
    <2> QED
      BY <2>1, <2>2 DEF HookState
  <1>5. hook' \in [Hooks -> HookState]
    BY <1>4 DEF Tick, TypeOK
  <1>6. ASSUME NEW d \in Daemons
        PROVE  [drain[d] EXCEPT !.row = RowAfterTick(@),
                  !.age = IF drain[d].at \in Undated THEN 0
                          ELSE Smaller(@ + 1, Larger(MaxRetry, Lease))] \in DrainState
    <2>1. drain[d] \in DrainState
      BY DEF TypeOK
    <2>2. /\ RowAfterTick(drain[d].row) \in Row \cup {None}
          /\ drain[d].row \in Row => RowAfterTick(drain[d].row) \in Row
      BY <2>1, RowAfterTickType, RowAfterTickKeepsRow DEF DrainState
    <2>3. Smaller(drain[d].age + 1, Larger(MaxRetry, Lease)) \in Nat
      BY <2>1, ConstantsAssumption DEF DrainState, Smaller, Larger
    <2> QED
      BY <2>1, <2>2, <2>3 DEF DrainState
  <1>7. drain' \in [Daemons -> DrainState]
    BY <1>6 DEF Tick, TypeOK
  <1> QED
    BY <1>1, <1>3, <1>5, <1>7 DEF TypeOK, Tick, env, history, counters

LEMMA NextType == ASSUME TypeOK, [Next]_vars PROVE TypeOK'
  <1>1. CASE UNCHANGED vars
    BY <1>1 DEF TypeOK, vars, env, files, history, counters
  <1>2. ASSUME NEW h \in Hooks, HookStep(h) PROVE TypeOK'
    BY <1>2, HookObservesType, HookReadsPriorType, HookWritesType DEF HookStep
  <1>3. ASSUME NEW d \in Daemons,
               \/ DrainStep(d) \/ ClaimFillFails(d) \/ ClaimUnqueueFails(d)
               \/ HarvestCompletes(d) \/ HarvestFallsShort(d) \/ HarvestFails(d)
               \/ RowFails(d)
        PROVE  TypeOK'
    BY <1>3, DrainMovesType, DrainWritesType DEF DrainStep
  <1>4. ASSUME NEW s \in Sessions, TranscriptGrows(s) PROVE TypeOK'
    BY <1>4 DEF TypeOK, TranscriptGrows, files, history, counters
  <1>5. CASE CursorToggles
    BY <1>5 DEF TypeOK, CursorToggles, files, history, counters
  <1> QED
    BY <1>1, <1>2, <1>3, <1>4, <1>5, DaemonType, TickType DEF Next

LEMMA InitType == ASSUME Init PROVE TypeOK
  <1>1. 0 \in Nat /\ 0 \in 0..MaxCrashes
    BY ConstantsAssumption
  <1>2. hook \in [Hooks -> HookState] /\ drain \in [Daemons -> DrainState]
    BY IdleTypes DEF Init
  <1> QED
    BY <1>1, <1>2 DEF Init, TypeOK

(* Every variable keeps its type, and a drain that has claimed a row still *)
(* has it in memory at every later step that writes it somewhere.          *)
THEOREM TypeInvariant == Spec => []TypeOK
  BY InitType, NextType, PTL DEF Spec

-----------------------------------------------------------------------------
(* A receipt is honest because the drain that is about to write it has     *)
(* already had its harvest covered, and coverage never shrinks.            *)
AboutToReceipt == \A d \in Daemons :
  drain[d].at = "receipt" => drain[d].seen <= covered[drain[d].on]

HonestInv == TypeOK /\ ReceiptHonest /\ AboutToReceipt

(* Only HarvestCompletes changes what is covered, and only WritesReceipt   *)
(* changes a receipt.                                                      *)
LEMMA Frames ==
  ASSUME [Next]_vars
  PROVE  /\ covered' = covered \/ \E d \in Daemons : HarvestCompletes(d)
         /\ receipt' = receipt \/ \E d \in Daemons : WritesReceipt(d)
  <1>1. CASE UNCHANGED vars
    BY <1>1 DEF vars, files, history
  <1>2. ASSUME NEW h \in Hooks, HookStep(h)
        PROVE  UNCHANGED <<covered, receipt>>
    BY <1>2 DEF HookStep, HookObserves, HookReadsPrior, HookWrites, files, history
  <1>3. ASSUME NEW d \in Daemons,
               DaemonStarts(d) \/ DaemonCloses(d) \/ DaemonExits(d) \/ DaemonCrashes(d)
        PROVE  UNCHANGED <<covered, receipt>>
    BY <1>3 DEF DaemonStarts, DaemonCloses, DaemonExits, DaemonCrashes, files, history
  <1>4. ASSUME NEW d \in Daemons,
               \/ DrainStep(d) \/ ClaimFillFails(d) \/ ClaimUnqueueFails(d)
               \/ HarvestFallsShort(d) \/ HarvestFails(d) \/ RowFails(d)
        PROVE  UNCHANGED covered /\ (UNCHANGED receipt \/ WritesReceipt(d))
    <2>1. ASSUME NEW s \in Sessions, ScanLease(d, s) PROVE UNCHANGED <<covered, receipt>>
      BY <2>1 DEF ScanLease, Only, files, history
    <2>2. ASSUME \/ DrainStarts(d) \/ RecoverChecksQueue(d) \/ RecoverRestores(d)
                 \/ RecoverRemoves(d) \/ ListQueue(d) \/ RetryChecksQueue(d)
                 \/ RetryRequeues(d) \/ ReleaseChecksOwner(d) \/ ReleaseRemoves(d)
                 \/ HarvestFallsShort(d) \/ HarvestFails(d) \/ RowFails(d)
                 \/ ClaimUnqueueFails(d)
          PROVE  UNCHANGED <<covered, receipt>>
      BY <2>2 DEF DrainStarts, RecoverChecksQueue, RecoverRestores, RecoverRemoves, ListQueue,
         RetryChecksQueue, RetryRequeues, ReleaseChecksOwner, ReleaseRemoves,
         HarvestFallsShort, HarvestFails, RowFails, ClaimUnqueueFails, Only, files, history
    <2>3. ASSUME \/ ClaimCreates(d) \/ ClaimFills(d) \/ ClaimFillFails(d)
                 \/ ClaimUnqueues(d) \/ Resolves(d)
          PROVE  UNCHANGED <<covered, receipt>>
      BY <2>3 DEF ClaimCreates, ClaimFills, ClaimFillFails, ClaimUnqueues, Resolves, Only,
         files, history
    <2>4. WritesReceipt(d) => UNCHANGED covered
      BY DEF WritesReceipt, history
    <2> QED
      BY <1>4, <2>1, <2>2, <2>3, <2>4 DEF DrainStep
  <1>5. ASSUME NEW d \in Daemons, HarvestCompletes(d) PROVE UNCHANGED receipt
    BY <1>5 DEF HarvestCompletes, files
  <1>6. ASSUME \/ \E s \in Sessions : TranscriptGrows(s)
               \/ CursorToggles \/ Tick
        PROVE  UNCHANGED <<covered, receipt>>
    BY <1>6 DEF TranscriptGrows, CursorToggles, Tick, files, history
  <1> QED
    BY <1>1, <1>2, <1>3, <1>4, <1>5, <1>6 DEF Next

LEMMA CoverageGrows ==
  ASSUME TypeOK, [Next]_vars
  PROVE  \A s \in Sessions : covered'[s] >= covered[s]
  <1>1. covered \in [Sessions -> Nat]
    BY DEF TypeOK
  <1>2. ASSUME NEW d \in Daemons, HarvestCompletes(d), NEW s \in Sessions
        PROVE  covered'[s] >= covered[s]
    <2>1. drain[d].seen \in Nat
      BY DEF TypeOK, DrainState
    <2>2. covered[s] \in Nat
      BY <1>1
    <2>3. Larger(covered[s], drain[d].seen) >= covered[s]
      BY <2>1, <2>2, LargerType
    <2>4. covered'[s] = covered[s] \/ covered'[s] = Larger(covered[s], drain[d].seen)
      BY <1>1, <1>2 DEF HarvestCompletes
    <2> QED
      BY <2>2, <2>3, <2>4
  <1> QED
    BY <1>1, <1>2, Frames

(* A drain comes to the point of writing a receipt only by completing its  *)
(* harvest.                                                                *)
LEMMA ReceiptStage ==
  ASSUME TypeOK, [Next]_vars, NEW d \in Daemons, drain'[d].at = "receipt"
  PROVE  \/ HarvestCompletes(d)
         \/ /\ drain[d].at = "receipt"
            /\ drain'[d].seen = drain[d].seen
            /\ drain'[d].on = drain[d].on
  <1> USE DEF TypeOK
  <1>1. CASE UNCHANGED <<drain>>
    BY <1>1
  <1>3. ASSUME Tick
        PROVE  /\ drain[d].at = "receipt"
               /\ drain'[d].seen = drain[d].seen
               /\ drain'[d].on = drain[d].on
    BY <1>3 DEF Tick, DrainState
  <1>4. ASSUME NEW e \in Daemons, DaemonCrashes(e) PROVE drain'[d] = drain[d]
    BY <1>4 DEF DaemonCrashes, IdleDrain
  <1>5. ASSUME NEW e \in Daemons, HarvestCompletes(e), e # d PROVE drain'[d] = drain[d]
    BY <1>5 DEF HarvestCompletes
  <1>6. ASSUME NEW e \in Daemons, NEW s \in Sessions, ScanLease(e, s)
        PROVE  drain'[d] = drain[d]
    <2> DEFINE rest == drain[e].todo \ {s}
               skip == [drain[e] EXCEPT !.todo = rest]
               reap == [drain[e] EXCEPT !.todo = rest, !.at = "reap", !.on = s]
               found == [drain[e] EXCEPT !.todo = rest, !.at = "exists", !.on = s,
                                         !.row = working[s].row]
    <2>1. Only(e, skip) \/ Only(e, reap) \/ Only(e, found)
      BY <1>6 DEF ScanLease
    <2>2. skip.at # "receipt" /\ reap.at # "receipt" /\ found.at # "receipt"
      BY <1>6 DEF ScanLease, DrainState
    <2> HIDE DEF skip, reap, found
    <2> QED
      BY <2>1, <2>2 DEF Only
  <1>7. ASSUME NEW e \in Daemons,
               \/ DrainStarts(e) \/ RecoverChecksQueue(e) \/ RecoverRestores(e)
               \/ RecoverRemoves(e) \/ ListQueue(e)
        PROVE  drain'[d] = drain[d]
    <2>1. CASE DrainStarts(e) \/ RecoverChecksQueue(e)
      BY <2>1 DEF DrainStarts, RecoverChecksQueue, Only, IdleDrain, DrainState
    <2>2. CASE RecoverRestores(e)
      BY <2>2 DEF RecoverRestores, DrainState
    <2>3. CASE RecoverRemoves(e)
      BY <2>3 DEF RecoverRemoves, DrainState
    <2>4. CASE ListQueue(e)
      <3>1. PICK next : Only(e, next) /\ (next = IdleDrain \/
               \E s \in Sessions : next = [drain[e] EXCEPT !.at = "claim", !.on = s, !.row = queue[s]])
        BY <2>4 DEF ListQueue
      <3>2. next.at # "receipt"
        <4>1. drain[e] \in DrainState
          OBVIOUS
        <4>2. \A s \in Sessions :
                [drain[e] EXCEPT !.at = "claim", !.on = s, !.row = queue[s]].at = "claim"
          BY <4>1 DEF DrainState
        <4>3. IdleDrain.at = "idle"
          BY DEF IdleDrain
        <4> QED
          BY <3>1, <4>2, <4>3
      <3> QED
        BY <3>1, <3>2 DEF Only
    <2> QED
      BY <1>7, <2>1, <2>2, <2>3, <2>4
  <1>8. ASSUME NEW e \in Daemons,
               \/ ClaimCreates(e) \/ ClaimFills(e) \/ ClaimFillFails(e) \/ ClaimUnqueues(e)
        PROVE  drain'[d] = drain[d]
    <2>1. CASE ClaimCreates(e)
      BY <2>1 DEF ClaimCreates, Only, IdleDrain, DrainState
    <2>2. CASE ClaimFills(e)
      BY <2>2 DEF ClaimFills, DrainState
    <2>3. CASE ClaimFillFails(e)
      BY <2>3 DEF ClaimFillFails, IdleDrain
    <2>4. CASE ClaimUnqueues(e)
      BY <2>4 DEF ClaimUnqueues, DrainState
    <2> QED
      BY <1>8, <2>1, <2>2, <2>3, <2>4
  <1>9. ASSUME NEW e \in Daemons, Resolves(e)
        PROVE  drain'[d] = drain[d]
    BY <1>9 DEF Resolves, Only, Retrying, Releasing, IdleDrain, DrainState
  <1>10. ASSUME NEW e \in Daemons,
                \/ HarvestFallsShort(e) \/ HarvestFails(e) \/ WritesReceipt(e)
                \/ RetryChecksQueue(e) \/ RetryRequeues(e) \/ RowFails(e)
                \/ ClaimUnqueueFails(e)
                \/ ReleaseChecksOwner(e) \/ ReleaseRemoves(e)
         PROVE  drain'[d] = drain[d]
    <2>1. CASE HarvestFallsShort(e) \/ HarvestFails(e)
      BY <2>1 DEF HarvestFallsShort, HarvestFails, Only, Retrying, IdleDrain, DrainState
    <2>2. CASE WritesReceipt(e) \/ RetryRequeues(e)
      <3>1. drain' = [drain EXCEPT ![e] = Releasing(e)]
        BY <2>2 DEF WritesReceipt, RetryRequeues
      <3>2. Releasing(e).at # "receipt"
        BY DEF Releasing, IdleDrain
      <3> QED
        BY <3>1, <3>2
    <2>3. CASE RetryChecksQueue(e) \/ ClaimUnqueueFails(e)
      BY <2>3 DEF RetryChecksQueue, ClaimUnqueueFails, Only, Releasing, IdleDrain, DrainState
    <2>4. CASE ReleaseChecksOwner(e)
      BY <2>4 DEF ReleaseChecksOwner, Only, IdleDrain, DrainState
    <2>5. CASE ReleaseRemoves(e) \/ RowFails(e)
      BY <2>5 DEF ReleaseRemoves, RowFails, IdleDrain
    <2> QED
      BY <1>10, <2>1, <2>2, <2>3, <2>4, <2>5
  <1>11. ASSUME \/ \E h \in Hooks : HookStep(h)
                \/ \E e \in Daemons : DaemonStarts(e) \/ DaemonCloses(e) \/ DaemonExits(e)
                \/ \E s \in Sessions : TranscriptGrows(s)
                \/ CursorToggles
         PROVE  UNCHANGED drain
    BY <1>11 DEF HookStep, HookObserves, HookReadsPrior, HookWrites, DaemonStarts, DaemonCloses,
       DaemonExits, TranscriptGrows, CursorToggles
  <1>12. UNCHANGED vars => UNCHANGED drain
    BY DEF vars
  <1> QED
    BY <1>1, <1>3, <1>4, <1>5, <1>6, <1>7, <1>8, <1>9, <1>10, <1>11, <1>12 DEF Next, DrainStep


LEMMA HonestInvariant == Spec => []HonestInv
  <1>1. ASSUME Init PROVE HonestInv
    <2>1. ASSUME NEW s \in Sessions PROVE receipt[s] <= covered[s]
      <3>1. receipt[s] = 0 /\ covered[s] = 0
        BY <1>1 DEF Init
      <3> QED
        BY <3>1, 0 <= 0
    <2>2. \A d \in Daemons : drain[d].at = "idle"
      BY <1>1 DEF Init, IdleDrain
    <2> QED
      BY <1>1, <2>1, <2>2, InitType DEF HonestInv, ReceiptHonest, AboutToReceipt
  <1>2. ASSUME HonestInv, [Next]_vars PROVE HonestInv'
    <2>1. TypeOK /\ TypeOK'
      BY <1>2, NextType DEF HonestInv
    <2>2. \A s \in Sessions : covered[s] \in Nat /\ covered'[s] \in Nat
                             /\ receipt[s] \in Nat /\ covered'[s] >= covered[s]
      BY <1>2, <2>1, CoverageGrows DEF TypeOK
    <2>3. ReceiptHonest'
      <3>1. CASE receipt' = receipt
        BY <1>2, <2>2, <3>1 DEF HonestInv, ReceiptHonest
      <3>2. ASSUME NEW d \in Daemons, WritesReceipt(d) PROVE ReceiptHonest'
        <4>1. /\ drain[d].on \in Sessions
              /\ drain[d].seen \in Nat
              /\ drain[d].seen <= covered[drain[d].on]
          BY <1>2, <2>1, <3>2 DEF HonestInv, AboutToReceipt, WritesReceipt, TypeOK, DrainState
        <4>2. receipt' = [receipt EXCEPT ![drain[d].on] = drain[d].seen]
          BY <3>2 DEF WritesReceipt
        <4> QED
          BY <1>2, <2>1, <2>2, <4>1, <4>2 DEF HonestInv, ReceiptHonest, TypeOK
      <3> QED
        BY <1>2, <3>1, <3>2, Frames
    <2>4. ASSUME NEW d \in Daemons, drain'[d].at = "receipt"
          PROVE  drain'[d].seen <= covered'[drain'[d].on]
      <3>1. CASE HarvestCompletes(d)
        <4> DEFINE s == drain[d].on
        <4>1. s \in Sessions /\ drain[d].seen \in Nat /\ covered[s] \in Nat
          BY <2>1, <3>1 DEF TypeOK, DrainState, HarvestCompletes
        <4>2. Larger(covered[s], drain[d].seen) >= drain[d].seen
          BY <4>1, LargerType
        <4>3. covered'[s] = Larger(covered[s], drain[d].seen)
          BY <2>1, <3>1, <4>1 DEF HarvestCompletes, TypeOK
        <4>4. drain'[d].on = s /\ drain'[d].seen = drain[d].seen
          BY <2>1, <3>1 DEF HarvestCompletes, TypeOK, DrainState
        <4> HIDE DEF s
        <4> QED
          BY <4>2, <4>3, <4>4
      <3>2. CASE /\ drain[d].at = "receipt"
                 /\ drain'[d].seen = drain[d].seen
                 /\ drain'[d].on = drain[d].on
        <4>1. drain[d].seen \in Nat /\ drain[d].on \in Sessions
          BY <2>1, <3>2 DEF TypeOK, DrainState
        <4>2. drain[d].seen <= covered[drain[d].on]
          BY <1>2, <3>2 DEF HonestInv, AboutToReceipt
        <4> QED
          BY <2>2, <3>2, <4>1, <4>2
      <3> QED
        BY <1>2, <2>1, <2>4, <3>1, <3>2, ReceiptStage
    <2> QED
      BY <2>1, <2>3, <2>4 DEF HonestInv, AboutToReceipt
  <1> QED
    BY <1>1, <1>2, PTL DEF Spec

(* For any number of daemons, hooks and sessions, through closes, crashes, *)
(* expired leases and overlapping drains, a receipt never claims more of a *)
(* transcript than a complete harvest has covered.                         *)
THEOREM HonestReceipts == Spec => []ReceiptHonest
  <1>1. HonestInv => ReceiptHonest
    BY DEF HonestInv
  <1> QED
    BY <1>1, HonestInvariant, PTL

-----------------------------------------------------------------------------
(* What each step of a drain does to the drain and to the files, field by  *)
(* field, as the invariants below need it.                                 *)
world == <<transcript, queue, working, receipt, hook, accepted, covered, dropped>>

Others(d) == \A e \in Daemons : e # d => drain'[e] = drain[e]
SameRow(d) == drain'[d].on = drain[d].on /\ drain'[d].row = drain[d].row
Goes(d, from, to) == Others(d) /\ drain[d].at = from /\ drain'[d].at = to

LEMMA OnlyEffect ==
  ASSUME TypeOK, NEW d \in Daemons, NEW next, Only(d, next)
  PROVE  UNCHANGED world /\ Others(d) /\ drain'[d] = next
  BY DEF Only, TypeOK, world, Others, env, files, history

LEMMA DrainFields ==
  ASSUME TypeOK, NEW d \in Daemons
  PROVE  /\ drain[d] \in DrainState
         /\ drain[d].at \in Stages
         /\ drain[d].seen \in Nat /\ drain[d].age \in Nat
         /\ drain[d].at \notin {"idle", "scan"} => drain[d].on \in Sessions
         /\ drain[d].at \in WithRow => drain[d].row \in Row
  BY DEF TypeOK, DrainState

LEMMA ScanEffect ==
  ASSUME TypeOK, NEW d \in Daemons, NEW s \in Sessions, ScanLease(d, s)
  PROVE  /\ UNCHANGED world /\ Others(d) /\ drain[d].at = "scan"
         /\ \/ drain'[d].at = "scan"
            \/ /\ drain'[d].at = "reap" /\ drain'[d].on = s
               /\ working[s] # None /\ working[s].ttl = 0 /\ working[s].row = None
            \/ /\ drain'[d].at = "exists" /\ drain'[d].on = s
               /\ working[s] # None /\ working[s].ttl = 0 /\ working[s].row # None
               /\ drain'[d].row = working[s].row
  <1> DEFINE rest == drain[d].todo \ {s}
             skip == [drain[d] EXCEPT !.todo = rest]
             reap == [drain[d] EXCEPT !.todo = rest, !.at = "reap", !.on = s]
             found == [drain[d] EXCEPT !.todo = rest, !.at = "exists", !.on = s,
                                       !.row = working[s].row]
             expired == working[s] # None /\ working[s].ttl = 0
  <1>1. /\ drain[d].at = "scan"
        /\ \/ Only(d, skip)
           \/ expired /\ working[s].row = None /\ Only(d, reap)
           \/ expired /\ working[s].row # None /\ Only(d, found)
    BY DEF ScanLease
  <1>2. skip.at = drain[d].at
    BY DrainFields DEF DrainState
  <1>3. reap.at = "reap" /\ reap.on = s
    BY DrainFields DEF DrainState
  <1>4. found.at = "exists" /\ found.on = s /\ found.row = working[s].row
    BY DrainFields DEF DrainState
  <1> HIDE DEF skip, reap, found
  <1> QED
    BY <1>1, <1>2, <1>3, <1>4, OnlyEffect

LEMMA RecoveryEffects ==
  ASSUME TypeOK, NEW d \in Daemons
  PROVE  /\ DrainStarts(d) => UNCHANGED world /\ Goes(d, "idle", "scan")
         /\ RecoverChecksQueue(d) =>
              /\ UNCHANGED world /\ SameRow(d)
              /\ \/ queue[drain[d].on] = None /\ Goes(d, "exists", "restore")
                 \/ queue[drain[d].on] # None /\ Goes(d, "exists", "reap")
         /\ RecoverRestores(d) =>
              /\ queue' = [queue EXCEPT ![drain[d].on] = drain[d].row]
              /\ Goes(d, "restore", "reap") /\ SameRow(d)
              /\ UNCHANGED <<transcript, working, receipt, hook, accepted, covered, dropped>>
         /\ RecoverRemoves(d) =>
              /\ working' = [working EXCEPT ![drain[d].on] = None]
              /\ Goes(d, "reap", "scan")
              /\ UNCHANGED <<transcript, queue, receipt, hook, accepted, covered, dropped>>
         /\ ListQueue(d) =>
              /\ UNCHANGED world
              /\ \/ Goes(d, "scan", "idle")
                 \/ /\ Goes(d, "scan", "claim")
                    /\ drain'[d].on \in Sessions
                    /\ queue[drain'[d].on] # None
                    /\ drain'[d].row = queue[drain'[d].on]
  <1> USE DrainFields
  <1>1. ASSUME DrainStarts(d) PROVE UNCHANGED world /\ Goes(d, "idle", "scan")
    <2>1. [IdleDrain EXCEPT !.at = "scan", !.todo = {s \in Sessions : working[s] # None}].at
             = "scan"
      BY DEF IdleDrain
    <2> QED
      BY <1>1, <2>1, OnlyEffect DEF DrainStarts, Goes
  <1>2. ASSUME RecoverChecksQueue(d)
        PROVE  /\ UNCHANGED world /\ SameRow(d)
               /\ \/ queue[drain[d].on] = None /\ Goes(d, "exists", "restore")
                  \/ queue[drain[d].on] # None /\ Goes(d, "exists", "reap")
    BY <1>2, OnlyEffect DEF RecoverChecksQueue, Goes, SameRow, DrainState
  <1>3. ASSUME RecoverRestores(d)
        PROVE  /\ queue' = [queue EXCEPT ![drain[d].on] = drain[d].row]
               /\ Goes(d, "restore", "reap") /\ SameRow(d)
               /\ UNCHANGED <<transcript, working, receipt, hook, accepted, covered, dropped>>
    BY <1>3 DEF RecoverRestores, Goes, SameRow, Others, DrainState, TypeOK, env, history
  <1>4. ASSUME RecoverRemoves(d)
        PROVE  /\ working' = [working EXCEPT ![drain[d].on] = None]
               /\ Goes(d, "reap", "scan")
               /\ UNCHANGED <<transcript, queue, receipt, hook, accepted, covered, dropped>>
    BY <1>4 DEF RecoverRemoves, Goes, Others, DrainState, TypeOK, env, history
  <1>5. ASSUME ListQueue(d)
        PROVE  /\ UNCHANGED world
               /\ \/ Goes(d, "scan", "idle")
                  \/ /\ Goes(d, "scan", "claim")
                     /\ drain'[d].on \in Sessions
                     /\ queue[drain'[d].on] # None
                     /\ drain'[d].row = queue[drain'[d].on]
    <2> DEFINE claim(s) == [drain[d] EXCEPT !.at = "claim", !.on = s, !.row = queue[s]]
    <2>1. \/ Only(d, IdleDrain)
          \/ \E s \in Sessions : queue[s] # None /\ Only(d, claim(s))
      BY <1>5 DEF ListQueue, Processable
    <2>2. IdleDrain.at = "idle"
      BY DEF IdleDrain
    <2>3. \A s \in Sessions : claim(s).at = "claim" /\ claim(s).on = s /\ claim(s).row = queue[s]
      BY DEF DrainState
    <2>4. drain[d].at = "scan"
      BY <1>5 DEF ListQueue
    <2> HIDE DEF claim
    <2> QED
      BY <2>1, <2>2, <2>3, <2>4, OnlyEffect DEF Goes
  <1> QED
    BY <1>1, <1>2, <1>3, <1>4, <1>5
LEMMA ClaimEffects ==
  ASSUME TypeOK, NEW d \in Daemons
  PROVE  /\ ClaimCreates(d) =>
              /\ UNCHANGED <<transcript, queue, receipt, hook, accepted, covered, dropped>>
              /\ \/ /\ working[drain[d].on] = None
                    /\ working' = [working EXCEPT ![drain[d].on] =
                                     [owner |-> d, ttl |-> Lease, row |-> None]]
                    /\ Goes(d, "claim", "fill") /\ SameRow(d)
                 \/ UNCHANGED working /\ Goes(d, "claim", "idle")
         /\ ClaimFills(d) =>
              /\ UNCHANGED <<transcript, queue, receipt, hook, accepted, covered, dropped>>
              /\ \/ /\ working[drain[d].on] # None /\ working[drain[d].on].owner = d
                    /\ working' = [working EXCEPT ![drain[d].on] =
                         [owner |-> d, ttl |-> Left(Lease, drain[d].age), row |-> drain[d].row]]
                 \/ /\ ~(working[drain[d].on] # None /\ working[drain[d].on].owner = d)
                    /\ UNCHANGED working
              /\ Goes(d, "fill", "unqueue") /\ SameRow(d)
         /\ ClaimFillFails(d) =>
              /\ UNCHANGED <<transcript, queue, receipt, hook, accepted, covered, dropped>>
              /\ working' = [working EXCEPT ![drain[d].on] = None]
              /\ Goes(d, "fill", "idle")
         /\ ClaimUnqueues(d) =>
              /\ UNCHANGED <<transcript, working, receipt, hook, accepted, covered, dropped>>
              /\ queue' = [queue EXCEPT ![drain[d].on] = None]
              /\ Goes(d, "unqueue", "resolve") /\ SameRow(d)
         /\ ClaimUnqueueFails(d) =>
              /\ UNCHANGED world
              /\ Goes(d, "unqueue", "release") /\ drain'[d].on = drain[d].on
  <1> USE DrainFields
  <1>1. ASSUME ClaimCreates(d)
        PROVE  /\ UNCHANGED <<transcript, queue, receipt, hook, accepted, covered, dropped>>
               /\ \/ /\ working[drain[d].on] = None
                     /\ working' = [working EXCEPT ![drain[d].on] =
                                      [owner |-> d, ttl |-> Lease, row |-> None]]
                     /\ Goes(d, "claim", "fill") /\ SameRow(d)
                  \/ UNCHANGED working /\ Goes(d, "claim", "idle")
    <2>1. CASE Only(d, IdleDrain) /\ drain[d].at = "claim"
      BY <2>1, OnlyEffect DEF Goes, IdleDrain, world
    <2> QED
      BY <1>1, <2>1 DEF ClaimCreates, Goes, SameRow, Others, DrainState, TypeOK, env, history
  <1>2. ASSUME ClaimFills(d)
        PROVE  /\ UNCHANGED <<transcript, queue, receipt, hook, accepted, covered, dropped>>
               /\ \/ /\ working[drain[d].on] # None /\ working[drain[d].on].owner = d
                     /\ working' = [working EXCEPT ![drain[d].on] =
                          [owner |-> d, ttl |-> Left(Lease, drain[d].age), row |-> drain[d].row]]
                  \/ /\ ~(working[drain[d].on] # None /\ working[drain[d].on].owner = d)
                     /\ UNCHANGED working
               /\ Goes(d, "fill", "unqueue") /\ SameRow(d)
    <2>1. Goes(d, "fill", "unqueue") /\ SameRow(d)
      BY <1>2 DEF ClaimFills, Goes, SameRow, Others, DrainState, TypeOK
    <2> QED
      BY <1>2, <2>1 DEF ClaimFills, env, history
  <1>3. ASSUME ClaimFillFails(d)
        PROVE  /\ UNCHANGED <<transcript, queue, receipt, hook, accepted, covered, dropped>>
               /\ working' = [working EXCEPT ![drain[d].on] = None]
               /\ Goes(d, "fill", "idle")
    BY <1>3 DEF ClaimFillFails, Goes, Others, IdleDrain, TypeOK, env, history
  <1>4. ASSUME ClaimUnqueues(d)
        PROVE  /\ UNCHANGED <<transcript, working, receipt, hook, accepted, covered, dropped>>
               /\ queue' = [queue EXCEPT ![drain[d].on] = None]
               /\ Goes(d, "unqueue", "resolve") /\ SameRow(d)
    BY <1>4 DEF ClaimUnqueues, Goes, SameRow, Others, DrainState, TypeOK, env, history
  <1>5. ASSUME ClaimUnqueueFails(d)
        PROVE  /\ UNCHANGED world
               /\ Goes(d, "unqueue", "release") /\ drain'[d].on = drain[d].on
    <2>1. Releasing(d).at = "release" /\ Releasing(d).on = drain[d].on
      BY DEF Releasing, IdleDrain
    <2> QED
      BY <1>5, <2>1, OnlyEffect DEF ClaimUnqueueFails, Goes
  <1> QED
    BY <1>1, <1>2, <1>3, <1>4, <1>5

(* A claim that fails keeps what its row had observed.                     *)
LEMMA RetryingEffect ==
  ASSUME TypeOK, NEW d \in Daemons, NEW row \in {FailedRow(d), IncompleteRow(d)},
         drain[d].at \in WithRow, Only(d, Retrying(d, row))
  PROVE  /\ UNCHANGED world /\ Others(d)
         /\ drain'[d].at = "retry" /\ drain'[d].on = drain[d].on
         /\ drain'[d].row # None /\ drain'[d].row.observed = drain[d].row.observed
  <1>1. row \in Row /\ row.observed = drain[d].row.observed
    <2>1. row \in Row
      BY RetryRowType, DrainFields
    <2>2. row.observed = drain[d].row.observed
      BY DEF FailedRow, IncompleteRow, RetryRow
    <2> QED
      BY <2>1, <2>2
  <1>2. Retrying(d, row).at = "retry" /\ Retrying(d, row).on = drain[d].on
        /\ Retrying(d, row).row = row
    BY DEF Retrying, IdleDrain
  <1> QED
    BY <1>1, <1>2, OnlyEffect, NoneAssumption

LEMMA ResolveEffect ==
  ASSUME TypeOK, NEW d \in Daemons, Resolves(d)
  PROVE  /\ UNCHANGED <<transcript, queue, working, receipt, hook, accepted, covered>>
         /\ drain'[d].on = drain[d].on
         /\ \/ /\ Goes(d, "resolve", "retry") /\ UNCHANGED dropped
               /\ drain'[d].row # None /\ drain'[d].row.observed = drain[d].row.observed
            \/ /\ Goes(d, "resolve", "release")
               /\ dropped' = [dropped EXCEPT ![drain[d].on] = TRUE]
            \/ /\ Goes(d, "resolve", "release") /\ UNCHANGED dropped
               /\ receipt[drain[d].on] >= transcript[drain[d].on]
            \/ /\ Goes(d, "resolve", "harvest") /\ SameRow(d) /\ UNCHANGED dropped
               /\ drain'[d].seen = transcript[drain[d].on]
  <1> USE DrainFields
  <1> DEFINE s == drain[d].on
             harvest == [drain[d] EXCEPT !.at = "harvest", !.seen = transcript[s]]
  <1>1. /\ drain[d].at = "resolve"
        /\ \/ Only(d, Retrying(d, FailedRow(d)))
           \/ /\ drain' = [drain EXCEPT ![d] = Releasing(d)]
              /\ dropped' = [dropped EXCEPT ![s] = TRUE]
              /\ UNCHANGED <<env, files, hook, life, accepted, covered, counters>>
           \/ receipt[s] >= transcript[s] /\ Only(d, Releasing(d))
           \/ Only(d, harvest)
    BY DEF Resolves
  <1>2. Releasing(d).at = "release" /\ Releasing(d).on = s
    BY DEF Releasing, IdleDrain
  <1>3. harvest.at = "harvest" /\ harvest.on = s /\ harvest.row = drain[d].row
        /\ harvest.seen = transcript[s]
    BY <1>1 DEF DrainState
  <1>4. "resolve" \in WithRow
    BY DEF WithRow, Holding
  <1> HIDE DEF harvest
  <1>5. CASE Only(d, Retrying(d, FailedRow(d)))
    BY <1>1, <1>4, <1>5, RetryingEffect DEF Goes, world
  <1>6. CASE /\ drain' = [drain EXCEPT ![d] = Releasing(d)]
             /\ dropped' = [dropped EXCEPT ![s] = TRUE]
             /\ UNCHANGED <<env, files, hook, life, accepted, covered, counters>>
    BY <1>1, <1>2, <1>6 DEF Goes, Others, TypeOK, env, files
  <1>7. CASE receipt[s] >= transcript[s] /\ Only(d, Releasing(d))
    BY <1>1, <1>2, <1>7, OnlyEffect DEF Goes, world
  <1>8. CASE Only(d, harvest)
    BY <1>1, <1>3, <1>8, OnlyEffect DEF Goes, SameRow, world
  <1> QED
    BY <1>1, <1>5, <1>6, <1>7, <1>8

LEMMA HarvestEffects ==
  ASSUME TypeOK, NEW d \in Daemons
  PROVE  /\ HarvestCompletes(d) =>
              /\ UNCHANGED <<transcript, queue, working, receipt, hook, accepted, dropped>>
              /\ covered' = [covered EXCEPT ![drain[d].on] = Larger(@, drain[d].seen)]
              /\ Goes(d, "harvest", "receipt") /\ SameRow(d)
         /\ HarvestFallsShort(d) \/ HarvestFails(d) =>
              /\ UNCHANGED world
              /\ Goes(d, "harvest", "retry") \/ Goes(d, "receipt", "retry")
              /\ drain'[d].on = drain[d].on
              /\ drain'[d].row # None /\ drain'[d].row.observed = drain[d].row.observed
         /\ WritesReceipt(d) =>
              /\ UNCHANGED <<transcript, queue, working, hook, accepted, covered, dropped>>
              /\ Goes(d, "receipt", "release") /\ drain'[d].on = drain[d].on
  <1> USE DrainFields
  <1>1. ASSUME HarvestCompletes(d)
        PROVE  /\ UNCHANGED <<transcript, queue, working, receipt, hook, accepted, dropped>>
               /\ covered' = [covered EXCEPT ![drain[d].on] = Larger(@, drain[d].seen)]
               /\ Goes(d, "harvest", "receipt") /\ SameRow(d)
    BY <1>1 DEF HarvestCompletes, Goes, SameRow, Others, DrainState, TypeOK, env, files
  <1>2. ASSUME HarvestFallsShort(d) \/ HarvestFails(d)
        PROVE  /\ UNCHANGED world
               /\ Goes(d, "harvest", "retry") \/ Goes(d, "receipt", "retry")
               /\ drain'[d].on = drain[d].on
               /\ drain'[d].row # None /\ drain'[d].row.observed = drain[d].row.observed
    <2>1. drain[d].at \in {"harvest", "receipt"} /\ drain[d].at \in WithRow
      BY <1>2 DEF HarvestFallsShort, HarvestFails, WithRow, Holding
    <2>2. \E row \in {FailedRow(d), IncompleteRow(d)} : Only(d, Retrying(d, row))
      BY <1>2 DEF HarvestFallsShort, HarvestFails
    <2> QED
      BY <2>1, <2>2, RetryingEffect DEF Goes
  <1>3. ASSUME WritesReceipt(d)
        PROVE  /\ UNCHANGED <<transcript, queue, working, hook, accepted, covered, dropped>>
               /\ Goes(d, "receipt", "release") /\ drain'[d].on = drain[d].on
    BY <1>3 DEF WritesReceipt, Goes, Others, Releasing, IdleDrain, TypeOK, env, history
  <1> QED
    BY <1>1, <1>2, <1>3

LEMMA SettlingEffects ==
  ASSUME TypeOK, NEW d \in Daemons
  PROVE  /\ RetryChecksQueue(d) =>
              /\ UNCHANGED world /\ drain'[d].on = drain[d].on
              /\ \/ queue[drain[d].on] = None /\ Goes(d, "retry", "requeue") /\ SameRow(d)
                 \/ queue[drain[d].on] # None /\ Goes(d, "retry", "release")
         /\ RetryRequeues(d) =>
              /\ UNCHANGED <<transcript, working, receipt, hook, accepted, covered, dropped>>
              /\ queue' = [queue EXCEPT ![drain[d].on] = drain[d].row]
              /\ Goes(d, "requeue", "release") /\ drain'[d].on = drain[d].on
         /\ RowFails(d) =>
              /\ UNCHANGED world /\ crashes < MaxCrashes
              /\ Goes(d, "restore", "idle") \/ Goes(d, "requeue", "idle")
         /\ ReleaseChecksOwner(d) =>
              /\ UNCHANGED world
              /\ \/ Goes(d, "release", "idle")
                 \/ /\ Goes(d, "release", "unlease") /\ drain'[d].on = drain[d].on
                    /\ working[drain[d].on] # None /\ working[drain[d].on].owner = d
         /\ ReleaseRemoves(d) =>
              /\ UNCHANGED <<transcript, queue, receipt, hook, accepted, covered, dropped>>
              /\ working' = [working EXCEPT ![drain[d].on] = None]
              /\ Goes(d, "unlease", "idle")
  <1> USE DrainFields
  <1>1. ASSUME RetryChecksQueue(d)
        PROVE  /\ UNCHANGED world /\ drain'[d].on = drain[d].on
               /\ \/ queue[drain[d].on] = None /\ Goes(d, "retry", "requeue") /\ SameRow(d)
                  \/ queue[drain[d].on] # None /\ Goes(d, "retry", "release")
    <2>1. Releasing(d).at = "release" /\ Releasing(d).on = drain[d].on
      BY DEF Releasing, IdleDrain
    <2> QED
      BY <1>1, <2>1, OnlyEffect DEF RetryChecksQueue, Goes, SameRow, DrainState
  <1>2. ASSUME RetryRequeues(d)
        PROVE  /\ UNCHANGED <<transcript, working, receipt, hook, accepted, covered, dropped>>
               /\ queue' = [queue EXCEPT ![drain[d].on] = drain[d].row]
               /\ Goes(d, "requeue", "release") /\ drain'[d].on = drain[d].on
    BY <1>2 DEF RetryRequeues, Goes, Others, Releasing, IdleDrain, TypeOK, env, history
  <1>3. ASSUME RowFails(d)
        PROVE  /\ UNCHANGED world /\ crashes < MaxCrashes
               /\ Goes(d, "restore", "idle") \/ Goes(d, "requeue", "idle")
    BY <1>3 DEF RowFails, Goes, Others, IdleDrain, TypeOK, env, files, history, world
  <1>4. ASSUME ReleaseChecksOwner(d)
        PROVE  /\ UNCHANGED world
               /\ \/ Goes(d, "release", "idle")
                  \/ /\ Goes(d, "release", "unlease") /\ drain'[d].on = drain[d].on
                     /\ working[drain[d].on] # None /\ working[drain[d].on].owner = d
    BY <1>4, OnlyEffect DEF ReleaseChecksOwner, Goes, IdleDrain, DrainState
  <1>5. ASSUME ReleaseRemoves(d)
        PROVE  /\ UNCHANGED <<transcript, queue, receipt, hook, accepted, covered, dropped>>
               /\ working' = [working EXCEPT ![drain[d].on] = None]
               /\ Goes(d, "unlease", "idle")
    BY <1>5 DEF ReleaseRemoves, Goes, Others, IdleDrain, TypeOK, env, history
  <1> QED
    BY <1>1, <1>2, <1>3, <1>4, <1>5

(* What the steps of the others do, and a crash.                           *)
LEMMA HookEffects ==
  ASSUME TypeOK, NEW h \in Hooks, HookStep(h)
  PROVE  /\ UNCHANGED <<drain, transcript, working, receipt, covered, dropped>>
         /\ \A g \in Hooks : g # h => hook'[g] = hook[g]
         /\ \/ /\ UNCHANGED <<queue, accepted>>
               /\ hook'[h].on \in Sessions
               /\ hook'[h].row.observed \in {0, transcript[hook'[h].on]}
            \/ /\ UNCHANGED <<queue, accepted>>
               /\ hook[h].at # "idle" /\ hook'[h].on = hook[h].on
               /\ hook'[h].row.observed \in {hook[h].row.observed} \cup
                    {queue[s].observed : s \in {t \in {hook[h].on} : queue[t] # None}}
            \/ /\ hook[h].at # "idle" /\ hook'[h].at = "idle"
               /\ queue' = [queue EXCEPT ![hook[h].on] = hook[h].row]
               /\ accepted' = [accepted EXCEPT ![hook[h].on] = Larger(@, hook[h].row.observed)]
  <1> USE DEF TypeOK
  <1>1. ASSUME NEW s \in Sessions, NEW reason \in Events, NEW withPath \in BOOLEAN,
               HookObserves(h, s, reason, withPath)
        PROVE  /\ UNCHANGED <<drain, transcript, working, receipt, covered, dropped, queue, accepted>>
               /\ \A g \in Hooks : g # h => hook'[g] = hook[g]
               /\ hook'[h].on = s
               /\ hook'[h].row.observed \in {0, transcript[s]}
    BY <1>1 DEF HookObserves, env, files, history
  <1>2. ASSUME HookReadsPrior(h)
        PROVE  /\ UNCHANGED <<drain, transcript, working, receipt, covered, dropped, queue, accepted>>
               /\ \A g \in Hooks : g # h => hook'[g] = hook[g]
               /\ hook[h].at # "idle" /\ hook'[h].on = hook[h].on
               /\ hook'[h].row.observed \in {hook[h].row.observed} \cup
                    {queue[s].observed : s \in {t \in {hook[h].on} : queue[t] # None}}
    <2> DEFINE s == hook[h].on
    <2>1. hook[h].at = "observed" /\ hook[h] \in HookState /\ s \in Sessions /\ hook[h].row \in Row
      BY <1>2 DEF HookReadsPrior, HookState
    <2>2. queue[s] # None => Merged(hook[h].row, queue[s]).observed
                               \in {hook[h].row.observed, queue[s].observed}
      BY <2>1 DEF Merged, Larger
    <2>3. /\ hook' = [hook EXCEPT ![h] =
               [at |-> "merged", on |-> s,
                row |-> IF queue[s] = None THEN hook[h].row ELSE Merged(hook[h].row, queue[s])]]
          /\ UNCHANGED <<drain, transcript, working, receipt, covered, dropped, queue, accepted>>
      BY <1>2 DEF HookReadsPrior, env, files, history
    <2>4. /\ hook'[h].on = s
          /\ hook'[h].row = IF queue[s] = None THEN hook[h].row ELSE Merged(hook[h].row, queue[s])
      BY <2>3
    <2>5. \A g \in Hooks : g # h => hook'[g] = hook[g]
      BY <2>3
    <2>6. hook'[h].row.observed \in {hook[h].row.observed} \cup
            {queue[t].observed : t \in {u \in {s} : queue[u] # None}}
      BY <2>2, <2>4
    <2> QED
      BY <2>1, <2>3, <2>4, <2>5, <2>6
  <1>3. ASSUME HookWrites(h)
        PROVE  /\ UNCHANGED <<drain, transcript, working, receipt, covered, dropped>>
               /\ \A g \in Hooks : g # h => hook'[g] = hook[g]
               /\ hook[h].at # "idle" /\ hook'[h].at = "idle"
               /\ queue' = [queue EXCEPT ![hook[h].on] = hook[h].row]
               /\ accepted' = [accepted EXCEPT ![hook[h].on] = Larger(@, hook[h].row.observed)]
    BY <1>3 DEF HookWrites, IdleHook, env
  <1> QED
    BY <1>1, <1>2, <1>3 DEF HookStep

LEMMA CrashEffect ==
  ASSUME TypeOK, NEW d \in Daemons, DaemonCrashes(d)
  PROVE  /\ UNCHANGED <<transcript, queue, receipt, hook, accepted, covered, dropped>>
         /\ Others(d) /\ drain'[d].at = "idle" /\ crashes < MaxCrashes
         /\ \A s \in Sessions :
              /\ working[s] = None => working'[s] = None
              /\ working[s] # None =>
                   /\ working'[s] # None
                   /\ working'[s].row = working[s].row /\ working'[s].ttl = working[s].ttl
  <1>1. \A s \in Sessions :
          /\ working[s] = None => working'[s] = None
          /\ working[s] # None =>
               /\ working'[s] # None
               /\ working'[s].row = working[s].row /\ working'[s].ttl = working[s].ttl
    BY NoneAssumption DEF DaemonCrashes, TypeOK, LeaseFile
  <1> QED
    BY <1>1 DEF DaemonCrashes, Others, IdleDrain, TypeOK, env, history

LEMMA TickEffect ==
  ASSUME TypeOK, Tick
  PROVE  /\ UNCHANGED <<transcript, receipt, accepted, covered, dropped>>
         /\ \A s \in Sessions :
              /\ queue[s] = None <=> queue'[s] = None
              /\ queue[s] # None => queue'[s].observed = queue[s].observed
              /\ working[s] = None <=> working'[s] = None
              /\ working[s] # None =>
                   /\ working'[s].owner = working[s].owner
                   /\ working[s].ttl = 0 => working'[s].ttl = 0
                   /\ working[s].row = None <=> working'[s].row = None
                   /\ working[s].row # None =>
                        working'[s].row.observed = working[s].row.observed
         /\ \A h \in Hooks :
              /\ hook'[h].at = hook[h].at /\ hook'[h].on = hook[h].on
              /\ hook[h].at # "idle" => hook'[h].row.observed = hook[h].row.observed
         /\ \A d \in Daemons :
              /\ drain'[d].at = drain[d].at /\ drain'[d].on = drain[d].on
              /\ drain'[d].seen = drain[d].seen
              /\ drain[d].at \in WithRow => drain'[d].row.observed = drain[d].row.observed
  <1>1. ASSUME NEW row \in Row
        PROVE  RowAfterTick(row) # None /\ RowAfterTick(row).observed = row.observed
    BY <1>1, RowAfterTickKeepsRow, NoneAssumption DEF RowAfterTick, Row
  <1>2. RowAfterTick(None) = None
    BY DEF RowAfterTick
  <1>3. ASSUME NEW s \in Sessions
        PROVE  /\ queue[s] = None <=> queue'[s] = None
               /\ queue[s] # None => queue'[s].observed = queue[s].observed
    BY <1>1, <1>2 DEF Tick, TypeOK
  <1>4. ASSUME NEW s \in Sessions
        PROVE  /\ working[s] = None <=> working'[s] = None
               /\ working[s] # None =>
                    /\ working'[s].owner = working[s].owner
                    /\ working[s].ttl = 0 => working'[s].ttl = 0
                    /\ working[s].row = None <=> working'[s].row = None
                    /\ working[s].row # None =>
                         working'[s].row.observed = working[s].row.observed
    <2>1. CASE working[s] = None
      BY <2>1 DEF Tick
    <2>2. CASE working[s] # None
      <3>1. working[s] \in LeaseFile
        BY <2>2 DEF TypeOK
      <3>2. working'[s] = [working[s] EXCEPT !.ttl = Left(@, 1), !.row = RowAfterTick(@)]
        BY <2>2 DEF Tick
      <3>3. /\ working'[s].owner = working[s].owner
            /\ working'[s].ttl = Left(working[s].ttl, 1)
            /\ working'[s].row = RowAfterTick(working[s].row)
        BY <3>1, <3>2 DEF LeaseFile
      <3>4. working[s].ttl = 0 => Left(working[s].ttl, 1) = 0
        BY DEF Left
      <3>5. working'[s] # None
        <4>1. Left(working[s].ttl, 1) \in Nat /\ RowAfterTick(working[s].row) \in Row \cup {None}
          BY <3>1, LeftType, RowAfterTickType DEF LeaseFile
        <4>2. [working[s] EXCEPT !.ttl = Left(@, 1), !.row = RowAfterTick(@)] \in LeaseFile
          BY <3>1, <4>1 DEF LeaseFile
        <4> QED
          BY <3>2, <4>2, NoneAssumption
      <3>6. working[s].row \in Row \cup {None}
        BY <3>1 DEF LeaseFile
      <3> QED
        BY <1>1, <1>2, <2>2, <3>3, <3>4, <3>5, <3>6
    <2> QED
      BY <2>1, <2>2
  <1>5. ASSUME NEW h \in Hooks
        PROVE  /\ hook'[h].at = hook[h].at /\ hook'[h].on = hook[h].on
               /\ hook[h].at # "idle" => hook'[h].row.observed = hook[h].row.observed
    <2>1. hook[h] \in HookState /\ hook'[h] = [hook[h] EXCEPT !.row = RowAfterTick(@)]
      BY DEF TypeOK, Tick
    <2>2. /\ hook'[h].at = hook[h].at /\ hook'[h].on = hook[h].on
          /\ hook'[h].row = RowAfterTick(hook[h].row)
      BY <2>1 DEF HookState
    <2> QED
      BY <1>1, <2>1, <2>2 DEF HookState
  <1>6. ASSUME NEW d \in Daemons
        PROVE  /\ drain'[d].at = drain[d].at /\ drain'[d].on = drain[d].on
               /\ drain'[d].seen = drain[d].seen
               /\ drain[d].at \in WithRow => drain'[d].row.observed = drain[d].row.observed
    <2> DEFINE age == IF drain[d].at \in Undated THEN 0
                      ELSE Smaller(drain[d].age + 1, Larger(MaxRetry, Lease))
    <2>1. drain'[d] = [drain[d] EXCEPT !.row = RowAfterTick(@), !.age = age]
      BY DEF Tick
    <2> HIDE DEF age
    <2>2. /\ drain'[d].at = drain[d].at /\ drain'[d].on = drain[d].on
          /\ drain'[d].seen = drain[d].seen /\ drain'[d].row = RowAfterTick(drain[d].row)
      BY <2>1, DrainFields DEF DrainState
    <2> QED
      BY <1>1, <2>2, DrainFields
  <1> QED
    BY <1>3, <1>4, <1>5, <1>6 DEF Tick, env, history

(* The steps that concern none of this.                                    *)
LEMMA QuietSteps ==
  ASSUME \/ \E d \in Daemons : DaemonStarts(d) \/ DaemonCloses(d) \/ DaemonExits(d)
         \/ CursorToggles \/ UNCHANGED vars
  PROVE  UNCHANGED <<world, drain>>
  BY DEF DaemonStarts, DaemonCloses, DaemonExits, CursorToggles, vars, world, env, files,
     history

LEMMA GrowthEffect ==
  ASSUME TypeOK, NEW s \in Sessions, TranscriptGrows(s)
  PROVE  /\ UNCHANGED <<queue, working, receipt, hook, accepted, covered, dropped, drain>>
         /\ \A t \in Sessions : transcript'[t] >= transcript[t]
  BY DEF TranscriptGrows, TypeOK, files, history

-----------------------------------------------------------------------------
(* Nothing in the pipeline claims to have seen more of a transcript than   *)
(* there is: neither a row, wherever it is, nor the record of what hooks   *)
(* reported as queued.                                                     *)
SeenBy(row, mtime) == row # None => row.observed <= mtime

Observed ==
  /\ \A s \in Sessions : accepted[s] <= transcript[s] /\ SeenBy(queue[s], transcript[s])
  /\ \A s \in Sessions : working[s] # None => SeenBy(working[s].row, transcript[s])
  /\ \A h \in Hooks : hook[h].at # "idle" => SeenBy(hook[h].row, transcript[hook[h].on])
  /\ \A d \in Daemons :
       drain[d].at \in WithRow => SeenBy(drain[d].row, transcript[drain[d].on])

LEMMA ObservedByDrains ==
  ASSUME TypeOK, TypeOK', Observed, NEW d \in Daemons, UNCHANGED <<transcript, hook, accepted>>,
         Others(d),
         \A s \in Sessions : SeenBy(queue'[s], transcript[s]),
         \A s \in Sessions : working'[s] # None => SeenBy(working'[s].row, transcript[s]),
         drain'[d].at \in WithRow => SeenBy(drain'[d].row, transcript[drain'[d].on])
  PROVE  Observed'
  BY DEF Observed, Others, SeenBy

LEMMA ObservedStep ==
  ASSUME TypeOK, TypeOK', Observed, [Next]_vars
  PROVE  Observed'
  <1> USE DrainFields
  <1>1. ASSUME \/ \E d \in Daemons : DaemonStarts(d) \/ DaemonCloses(d) \/ DaemonExits(d)
               \/ CursorToggles \/ UNCHANGED vars
        PROVE  Observed'
    <2>1. UNCHANGED <<world, drain>>
      BY <1>1, QuietSteps
    <2> QED
      BY <2>1 DEF Observed, SeenBy, world
  <1>2. ASSUME NEW s \in Sessions, TranscriptGrows(s) PROVE Observed'
    <2>1. /\ UNCHANGED <<queue, working, hook, accepted, drain>>
          /\ \A t \in Sessions : /\ transcript'[t] >= transcript[t] /\ transcript'[t] \in Nat
                                 /\ transcript[t] \in Nat /\ accepted[t] \in Nat
      BY <1>2, GrowthEffect DEF TypeOK
    <2>2. ASSUME NEW t \in Sessions, NEW row \in Row \cup {None}, SeenBy(row, transcript[t])
          PROVE  SeenBy(row, transcript'[t])
      BY <2>1, <2>2 DEF SeenBy, Row
    <2>3. \A t \in Sessions : accepted'[t] <= transcript'[t] /\ SeenBy(queue'[t], transcript'[t])
      BY <2>1, <2>2 DEF Observed, TypeOK
    <2>4. \A t \in Sessions : working'[t] # None => SeenBy(working'[t].row, transcript'[t])
      BY <2>1, <2>2 DEF Observed, TypeOK, LeaseFile
    <2>5. \A h \in Hooks : hook'[h].at # "idle" => SeenBy(hook'[h].row, transcript'[hook'[h].on])
      BY <2>1, <2>2 DEF Observed, TypeOK, HookState
    <2>6. \A d \in Daemons :
            drain'[d].at \in WithRow => SeenBy(drain'[d].row, transcript'[drain'[d].on])
      BY <2>1, <2>2 DEF Observed, WithRow, Holding
    <2> QED
      BY <2>3, <2>4, <2>5, <2>6 DEF Observed
  <1>3. CASE Tick
    <2>1. \A s \in Sessions : accepted'[s] <= transcript'[s] /\ SeenBy(queue'[s], transcript'[s])
      BY <1>3, TickEffect DEF Observed, SeenBy
    <2>2. \A s \in Sessions : working'[s] # None => SeenBy(working'[s].row, transcript'[s])
      BY <1>3, TickEffect DEF Observed, SeenBy
    <2>3. ASSUME NEW h \in Hooks, hook'[h].at # "idle"
          PROVE  SeenBy(hook'[h].row, transcript'[hook'[h].on])
      <3>1. hook[h].row # None /\ hook[h].at # "idle"
        BY <1>3, <2>3, TickEffect, NoneAssumption DEF TypeOK, HookState
      <3> QED
        BY <1>3, <3>1, TickEffect DEF Observed, SeenBy
    <2>4. ASSUME NEW d \in Daemons, drain'[d].at \in WithRow
          PROVE  SeenBy(drain'[d].row, transcript'[drain'[d].on])
      <3>1. drain[d].row # None /\ drain[d].at \in WithRow
        BY <1>3, <2>4, TickEffect, NoneAssumption
      <3> QED
        BY <1>3, <3>1, TickEffect DEF Observed, SeenBy
    <2> QED
      BY <2>1, <2>2, <2>3, <2>4 DEF Observed
  <1>4. ASSUME NEW h \in Hooks, HookStep(h) PROVE Observed'
    <2> DEFINE s == hook'[h].on
    <2>1. /\ UNCHANGED <<drain, transcript, working>>
          /\ \A g \in Hooks : g # h => hook'[g] = hook[g]
      BY <1>4, HookEffects
    <2>2. CASE /\ UNCHANGED <<queue, accepted>>
               /\ hook'[h].at # "idle" => SeenBy(hook'[h].row, transcript[hook'[h].on])
      BY <2>1, <2>2 DEF Observed
    <2>3. CASE UNCHANGED <<queue, accepted>> /\ hook'[h].on \in Sessions
                 /\ hook'[h].row.observed \in {0, transcript[hook'[h].on]}
      BY <2>2, <2>3 DEF SeenBy, TypeOK
    <2>4. CASE /\ UNCHANGED <<queue, accepted>>
               /\ hook[h].at # "idle" /\ hook'[h].on = hook[h].on
               /\ hook'[h].row.observed \in {hook[h].row.observed} \cup
                    {queue[t].observed : t \in {u \in {hook[h].on} : queue[u] # None}}
      <3>1. hook[h].on \in Sessions /\ hook[h].row # None
        BY <2>4, NoneAssumption DEF TypeOK, HookState
      <3> QED
        BY <2>2, <2>4, <3>1 DEF Observed, SeenBy
    <2>5. CASE /\ hook[h].at # "idle" /\ hook'[h].at = "idle"
               /\ queue' = [queue EXCEPT ![hook[h].on] = hook[h].row]
               /\ accepted' = [accepted EXCEPT ![hook[h].on] = Larger(@, hook[h].row.observed)]
      <3>1. hook[h].on \in Sessions /\ hook[h].row \in Row /\ hook[h].row # None
        BY <2>5, NoneAssumption DEF TypeOK, HookState
      <3>2. hook[h].row.observed <= transcript[hook[h].on]
        BY <2>5, <3>1 DEF Observed, SeenBy
      <3>3. \A t \in Sessions : accepted'[t] <= transcript'[t]
        BY <2>1, <2>5, <3>1, <3>2 DEF Observed, Larger, TypeOK
      <3>4. \A t \in Sessions : SeenBy(queue'[t], transcript'[t])
        BY <2>1, <2>5, <3>1, <3>2 DEF Observed, SeenBy, TypeOK
      <3> QED
        BY <2>1, <2>5, <3>3, <3>4 DEF Observed
    <2> QED
      BY <1>4, HookEffects, <2>3, <2>4, <2>5
  <1>5. ASSUME NEW d \in Daemons, DaemonCrashes(d) PROVE Observed'
    <2>1. drain'[d].at \notin WithRow
      BY <1>5, CrashEffect DEF WithRow, Holding
    <2>2. \A s \in Sessions : working'[s] # None => SeenBy(working'[s].row, transcript[s])
      BY <1>5, CrashEffect DEF Observed
    <2> QED
      BY <1>5, <2>1, <2>2, CrashEffect, ObservedByDrains DEF Observed
  <1>6. ASSUME NEW d \in Daemons, NEW s \in Sessions, ScanLease(d, s) PROVE Observed'
    <2>1. /\ UNCHANGED world /\ Others(d)
          /\ drain'[d].at \in WithRow => SeenBy(drain'[d].row, transcript[drain'[d].on])
      BY <1>6, ScanEffect DEF Observed, WithRow, Holding
    <2> QED
      BY <2>1, ObservedByDrains DEF world, Observed
  <1>7. ASSUME NEW d \in Daemons,
               DrainStarts(d) \/ RecoverChecksQueue(d) \/ RecoverRestores(d)
                 \/ RecoverRemoves(d) \/ ListQueue(d)
        PROVE  Observed'
    <2>1. CASE DrainStarts(d) \/ RecoverChecksQueue(d) \/ ListQueue(d)
      <3>1. /\ UNCHANGED world /\ Others(d)
            /\ drain'[d].at \in WithRow => SeenBy(drain'[d].row, transcript[drain'[d].on])
        BY <2>1, RecoveryEffects DEF Observed, WithRow, Holding, Goes, SameRow
      <3> QED
        BY <3>1, ObservedByDrains DEF world, Observed
    <2>2. CASE RecoverRestores(d)
      <3>1. drain[d].on \in Sessions /\ SeenBy(drain[d].row, transcript[drain[d].on])
        BY <2>2, RecoveryEffects DEF Observed, WithRow, Holding, Goes
      <3>2. \A s \in Sessions : SeenBy(queue'[s], transcript[s])
        BY <2>2, <3>1, RecoveryEffects DEF Observed, TypeOK
      <3>3. drain'[d].at \notin WithRow
        BY <2>2, RecoveryEffects DEF Goes, WithRow, Holding
      <3> QED
        BY <2>2, <3>2, <3>3, RecoveryEffects, ObservedByDrains DEF Observed, Goes
    <2>3. CASE RecoverRemoves(d)
      <3>1. \A s \in Sessions : working'[s] # None => SeenBy(working'[s].row, transcript[s])
        BY <2>3, RecoveryEffects DEF Observed, TypeOK
      <3>2. drain'[d].at \notin WithRow
        BY <2>3, RecoveryEffects DEF Goes, WithRow, Holding
      <3> QED
        BY <2>3, <3>1, <3>2, RecoveryEffects, ObservedByDrains DEF Observed, Goes
    <2> QED
      BY <1>7, <2>1, <2>2, <2>3
  <1>8. ASSUME NEW d \in Daemons,
               ClaimCreates(d) \/ ClaimFills(d) \/ ClaimFillFails(d) \/ ClaimUnqueues(d)
                 \/ ClaimUnqueueFails(d)
        PROVE  Observed'
    <2>1. drain'[d].at \in WithRow => SeenBy(drain'[d].row, transcript[drain'[d].on])
      BY <1>8, ClaimEffects DEF Observed, WithRow, Holding, Goes, SameRow
    <2>2. \A s \in Sessions : SeenBy(queue'[s], transcript[s])
      BY <1>8, ClaimEffects DEF Observed, SeenBy, TypeOK, world
    <2>3. \A s \in Sessions : working'[s] # None => SeenBy(working'[s].row, transcript[s])
      <3>1. CASE ClaimUnqueues(d) \/ ClaimUnqueueFails(d)
        BY <3>1, ClaimEffects DEF Observed, world
      <3>3. CASE ClaimCreates(d)
        <4>1. [owner |-> d, ttl |-> Lease, row |-> None].row = None
          OBVIOUS
        <4> QED
          <5>1. CASE UNCHANGED working
            BY <5>1 DEF Observed
          <5>2. CASE working' = [working EXCEPT ![drain[d].on] =
                                   [owner |-> d, ttl |-> Lease, row |-> None]]
            BY <4>1, <5>2 DEF Observed, SeenBy, TypeOK
          <5> QED
            BY <3>3, <5>1, <5>2, ClaimEffects
      <3>4. CASE ClaimFillFails(d)
        <4>1. working' = [working EXCEPT ![drain[d].on] = None]
          BY <3>4, ClaimEffects
        <4> QED
          BY <4>1 DEF Observed, TypeOK
      <3>2. CASE ClaimFills(d)
        <4>1. SeenBy(drain[d].row, transcript[drain[d].on])
          BY <3>2, ClaimEffects DEF Observed, WithRow, Holding, Goes
        <4> QED
          <5>1. CASE UNCHANGED working
            BY <5>1 DEF Observed
          <5>2. CASE working' = [working EXCEPT ![drain[d].on] =
                  [owner |-> d, ttl |-> Left(Lease, drain[d].age), row |-> drain[d].row]]
            BY <4>1, <5>2 DEF Observed, TypeOK
          <5> QED
            BY <3>2, <5>1, <5>2, ClaimEffects
      <3> QED
        BY <1>8, <3>1, <3>2, <3>3, <3>4
    <2>4. UNCHANGED <<transcript, hook, accepted>> /\ Others(d)
      BY <1>8, ClaimEffects DEF world, Goes
    <2> QED
      BY <2>1, <2>2, <2>3, <2>4, ObservedByDrains
  <1>9. ASSUME NEW d \in Daemons,
               Resolves(d) \/ HarvestCompletes(d) \/ HarvestFallsShort(d) \/ HarvestFails(d)
                 \/ WritesReceipt(d)
        PROVE  Observed'
    <2>1. UNCHANGED <<transcript, hook, accepted, queue, working>> /\ Others(d)
      BY <1>9, ResolveEffect, HarvestEffects DEF world, Goes
    <2>2. drain'[d].at \in WithRow => SeenBy(drain'[d].row, transcript[drain'[d].on])
      <3>1. CASE Resolves(d)
        <4>1. drain[d].at \in WithRow /\ drain[d].row # None
          BY <3>1, NoneAssumption DEF Resolves, WithRow, Holding
        <4>2. SeenBy(drain[d].row, transcript[drain[d].on])
          BY <4>1 DEF Observed
        <4>3. CASE drain'[d].row.observed = drain[d].row.observed /\ drain'[d].on = drain[d].on
          BY <4>1, <4>2, <4>3 DEF SeenBy
        <4>4. CASE drain'[d].at = "release"
          BY <4>4 DEF WithRow, Holding
        <4> QED
          BY <3>1, <4>3, <4>4, ResolveEffect DEF Goes, SameRow
      <3>2. CASE HarvestCompletes(d) \/ WritesReceipt(d)
        BY <3>2, HarvestEffects DEF Observed, WithRow, Holding, Goes, SameRow
      <3>3. CASE HarvestFallsShort(d) \/ HarvestFails(d)
        <4>1. drain[d].at \in WithRow /\ drain'[d].on = drain[d].on
              /\ drain'[d].row.observed = drain[d].row.observed /\ drain[d].row # None
          BY <3>3, HarvestEffects, NoneAssumption DEF WithRow, Holding, Goes
        <4> QED
          BY <4>1 DEF Observed, SeenBy
      <3> QED
        BY <1>9, <3>1, <3>2, <3>3
    <2> QED
      BY <2>1, <2>2, ObservedByDrains DEF Observed
  <1>10. ASSUME NEW d \in Daemons,
                RetryChecksQueue(d) \/ RetryRequeues(d) \/ RowFails(d)
                  \/ ReleaseChecksOwner(d) \/ ReleaseRemoves(d)
         PROVE  Observed'
    <2>1. drain'[d].at \in WithRow => SeenBy(drain'[d].row, transcript[drain'[d].on])
      BY <1>10, SettlingEffects DEF Observed, WithRow, Holding, Goes, SameRow
    <2>2. UNCHANGED <<transcript, hook, accepted>> /\ Others(d)
      BY <1>10, SettlingEffects DEF world, Goes
    <2>3. \A s \in Sessions : SeenBy(queue'[s], transcript[s])
      <3>1. CASE RetryRequeues(d)
        <4>1. SeenBy(drain[d].row, transcript[drain[d].on])
          BY <3>1, SettlingEffects DEF Observed, WithRow, Holding, Goes
        <4> QED
          BY <3>1, <4>1, SettlingEffects DEF Observed, TypeOK
      <3> QED
        BY <1>10, <3>1, SettlingEffects DEF Observed, world
    <2>4. \A s \in Sessions : working'[s] # None => SeenBy(working'[s].row, transcript[s])
      BY <1>10, SettlingEffects DEF Observed, TypeOK, world
    <2> QED
      BY <2>1, <2>2, <2>3, <2>4, ObservedByDrains
  <1> QED
    BY <1>1, <1>2, <1>3, <1>4, <1>5, <1>6, <1>7, <1>8, <1>9, <1>10 DEF Next, DrainStep

-----------------------------------------------------------------------------
(* When no daemon dies and every row can be written, an accepted capture   *)
(* is in the queue or with a drain that took it out (or found it in an     *)
(* expired lease), however many daemons overlap.  A drain past the harvest *)
(* is not needed: by then the capture is covered.                          *)
Settled(s) == covered[s] >= accepted[s] \/ dropped[s]
Waiting(s) == Settled(s) \/ queue[s] # None

HeldBy(d, s) ==
  /\ drain[d].on = s
  /\ \/ drain[d].at \in {"restore", "resolve", "retry", "requeue"}
     \/ drain[d].at = "harvest" /\ drain[d].seen >= accepted[s]

Kept == \A s \in Sessions : Waiting(s) \/ \E d \in Daemons : HeldBy(d, s)

LEMMA HeldByOthers ==
  ASSUME NEW d \in Daemons, Others(d), UNCHANGED accepted,
         NEW e \in Daemons, e # d, NEW s \in Sessions, HeldBy(e, s)
  PROVE  HeldBy(e, s)'
  BY DEF Others, HeldBy

(* A step of one drain has to account for that drain only.                 *)
LEMMA KeptByDrains ==
  ASSUME Kept, NEW d \in Daemons, Others(d), UNCHANGED accepted,
         \A s \in Sessions : Waiting(s) \/ HeldBy(d, s) => (Waiting(s) \/ HeldBy(d, s))'
  PROVE  Kept'
  <1> SUFFICES ASSUME NEW s \in Sessions, ~Waiting(s)' PROVE \E e \in Daemons : HeldBy(e, s)'
    BY DEF Kept
  <1>1. CASE Waiting(s) \/ HeldBy(d, s)
    BY <1>1
  <1>2. ASSUME NEW e \in Daemons, e # d, HeldBy(e, s) PROVE HeldBy(e, s)'
    BY <1>2, HeldByOthers
  <1> QED
    BY <1>1, <1>2 DEF Kept

LEMMA KeptStep ==
  ASSUME TypeOK, TypeOK', ReceiptHonest, Observed, Kept, MaxCrashes = 0, [Next]_vars
  PROVE  Kept'
  <1> USE DrainFields
  <1>1. CASE \/ \E d \in Daemons : DaemonStarts(d) \/ DaemonCloses(d) \/ DaemonExits(d)
             \/ CursorToggles \/ UNCHANGED vars
    <2>1. UNCHANGED <<world, drain>>
      BY <1>1, QuietSteps
    <2> QED
      BY <2>1 DEF Kept, Waiting, Settled, HeldBy, world
  <1>2. ASSUME NEW s \in Sessions, TranscriptGrows(s) PROVE Kept'
    BY <1>2, GrowthEffect DEF Kept, Waiting, Settled, HeldBy
  <1>3. CASE Tick
    <2>1. ASSUME NEW s \in Sessions, Waiting(s) PROVE Waiting(s)'
      BY <1>3, <2>1, TickEffect DEF Waiting, Settled
    <2>2. ASSUME NEW s \in Sessions, NEW d \in Daemons, HeldBy(d, s) PROVE HeldBy(d, s)'
      BY <1>3, <2>2, TickEffect DEF HeldBy
    <2> QED
      BY <2>1, <2>2 DEF Kept
  <1>4. ASSUME NEW h \in Hooks, HookStep(h) PROVE Kept'
    <2>1. UNCHANGED <<drain, covered, dropped>>
      BY <1>4, HookEffects
    <2>2. CASE UNCHANGED <<queue, accepted>>
      BY <2>1, <2>2 DEF Kept, Waiting, Settled, HeldBy
    <2>3. CASE /\ hook[h].at # "idle"
               /\ queue' = [queue EXCEPT ![hook[h].on] = hook[h].row]
               /\ accepted' = [accepted EXCEPT ![hook[h].on] = Larger(@, hook[h].row.observed)]
      <3>1. PICK k \in Sessions : k = hook[h].on /\ hook[h].row # None
        BY <2>3, NoneAssumption DEF TypeOK, HookState
      <3>2. Waiting(k)'
        BY <2>3, <3>1 DEF Waiting, TypeOK
      <3>3. \A s \in Sessions : s # k => queue'[s] = queue[s] /\ accepted'[s] = accepted[s]
        BY <2>3, <3>1 DEF TypeOK
      <3> QED
        BY <2>1, <3>2, <3>3 DEF Kept, Waiting, Settled, HeldBy
    <2> QED
      BY <1>4, <2>2, <2>3, HookEffects
  <1>5. ASSUME NEW d \in Daemons PROVE ~DaemonCrashes(d) /\ ~RowFails(d)
    BY DEF DaemonCrashes, RowFails, TypeOK
  <1>6. ASSUME NEW d \in Daemons, NEW s \in Sessions, ScanLease(d, s) PROVE Kept'
    <2>1. UNCHANGED world /\ Others(d) /\ drain[d].at = "scan"
      BY <1>6, ScanEffect
    <2> QED
      BY <2>1, KeptByDrains DEF Waiting, Settled, HeldBy, world
  <1>7. ASSUME NEW d \in Daemons,
               DrainStarts(d) \/ RecoverChecksQueue(d) \/ RecoverRestores(d)
                 \/ RecoverRemoves(d) \/ ListQueue(d)
        PROVE  Kept'
    <2>1. UNCHANGED <<accepted, covered, dropped>> /\ Others(d)
      BY <1>7, RecoveryEffects DEF Goes, world
    <2>2. ASSUME NEW s \in Sessions, Waiting(s) \/ HeldBy(d, s) PROVE (Waiting(s) \/ HeldBy(d, s))'
      <3>1. CASE DrainStarts(d) \/ RecoverChecksQueue(d) \/ ListQueue(d)
        BY <2>1, <2>2, <3>1, RecoveryEffects DEF Goes, SameRow, world, Waiting, Settled, HeldBy
      <3>2. CASE RecoverRemoves(d)
        BY <2>1, <2>2, <3>2, RecoveryEffects DEF Goes, Waiting, Settled, HeldBy
      <3>3. CASE RecoverRestores(d)
        <4>1. drain[d].on \in Sessions /\ drain[d].row # None
          BY <3>3, NoneAssumption DEF RecoverRestores, WithRow
        <4>2. CASE s = drain[d].on
          BY <3>3, <4>1, <4>2, RecoveryEffects DEF Waiting, TypeOK
        <4>3. CASE s # drain[d].on
          BY <2>1, <2>2, <3>3, <4>1, <4>3, RecoveryEffects DEF Waiting, Settled, HeldBy, TypeOK
        <4> QED
          BY <4>2, <4>3
      <3> QED
        BY <1>7, <3>1, <3>2, <3>3
    <2> QED
      BY <2>1, <2>2, KeptByDrains
  <1>8. ASSUME NEW d \in Daemons,
               ClaimCreates(d) \/ ClaimFills(d) \/ ClaimFillFails(d) \/ ClaimUnqueues(d)
                 \/ ClaimUnqueueFails(d)
        PROVE  Kept'
    <2>1. UNCHANGED <<accepted, covered, dropped>> /\ Others(d)
      BY <1>8, ClaimEffects DEF Goes, world
    <2>2. ASSUME NEW s \in Sessions, Waiting(s) \/ HeldBy(d, s) PROVE (Waiting(s) \/ HeldBy(d, s))'
      <3>1. CASE ClaimCreates(d) \/ ClaimFills(d) \/ ClaimFillFails(d) \/ ClaimUnqueueFails(d)
        BY <2>1, <2>2, <3>1, ClaimEffects DEF Goes, SameRow, world, Waiting, Settled, HeldBy
      <3>2. CASE ClaimUnqueues(d)
        BY <2>1, <2>2, <3>2, ClaimEffects DEF Goes, SameRow, Waiting, Settled, HeldBy, TypeOK
      <3> QED
        BY <1>8, <3>1, <3>2
    <2> QED
      BY <2>1, <2>2, KeptByDrains
  <1>9. ASSUME NEW d \in Daemons,
               Resolves(d) \/ HarvestCompletes(d) \/ HarvestFallsShort(d) \/ HarvestFails(d)
                 \/ WritesReceipt(d)
        PROVE  Kept'
    <2>1. UNCHANGED <<accepted, queue>> /\ Others(d)
      BY <1>9, ResolveEffect, HarvestEffects DEF Goes, world
    <2>2. ASSUME NEW s \in Sessions, Waiting(s) \/ HeldBy(d, s) PROVE (Waiting(s) \/ HeldBy(d, s))'
      <3>1. CASE Resolves(d)
        <4>1. drain[d].on \in Sessions /\ dropped \in [Sessions -> BOOLEAN]
          BY <3>1 DEF Resolves, TypeOK
        <4>2. /\ accepted[s] <= transcript[s] /\ receipt[s] <= covered[s]
              /\ accepted[s] \in Nat /\ transcript[s] \in Nat /\ receipt[s] \in Nat
              /\ covered[s] \in Nat
          BY DEF Observed, ReceiptHonest, TypeOK
        <4>3. Waiting(s) => Waiting(s)'
          BY <2>1, <3>1, <4>1, ResolveEffect DEF Waiting, Settled
        <4>4. CASE HeldBy(d, s)
          <5>1. s = drain[d].on
            BY <4>4 DEF HeldBy
          <5>2. CASE Goes(d, "resolve", "release") /\ dropped' = [dropped EXCEPT ![drain[d].on] = TRUE]
            BY <4>1, <5>1, <5>2 DEF Waiting, Settled
          <5>3. CASE Goes(d, "resolve", "release") /\ receipt[s] >= transcript[s]
            BY <2>1, <3>1, <4>2, <5>3, ResolveEffect DEF Waiting, Settled
          <5>4. CASE Goes(d, "resolve", "retry")
            BY <3>1, <5>1, <5>4, ResolveEffect DEF HeldBy, Goes
          <5>5. CASE Goes(d, "resolve", "harvest") /\ drain'[d].seen = transcript[s]
            BY <2>1, <3>1, <4>2, <5>1, <5>5, ResolveEffect DEF HeldBy, Goes
          <5> QED
            BY <3>1, <5>1, <5>2, <5>3, <5>4, <5>5, ResolveEffect
        <4> QED
          BY <2>2, <4>3, <4>4
      <3>2. CASE HarvestCompletes(d)
        <4>1. drain[d].on \in Sessions /\ drain[d].seen \in Nat /\ drain[d].at = "harvest"
          BY <3>2 DEF HarvestCompletes
        <4>2. /\ covered' = [covered EXCEPT ![drain[d].on] = Larger(@, drain[d].seen)]
              /\ UNCHANGED <<queue, accepted, dropped>>
          BY <3>2, HarvestEffects
        <4>3. /\ covered[s] \in Nat /\ accepted[s] \in Nat /\ covered'[s] >= covered[s]
              /\ s = drain[d].on => covered'[s] >= drain[d].seen
              /\ covered'[s] \in Nat
          <5>1. \A t \in Sessions : covered[t] \in Nat /\ accepted[t] \in Nat
            BY DEF TypeOK
          <5>2. covered'[s] = IF s = drain[d].on THEN Larger(covered[s], drain[d].seen) ELSE covered[s]
            BY <4>1, <4>2 DEF TypeOK
          <5>3. CASE s = drain[d].on
            BY <4>1, <5>1, <5>2, <5>3, LargerType
          <5>4. CASE s # drain[d].on
            BY <5>1, <5>2, <5>4
          <5> QED
            BY <5>3, <5>4
        <4> QED
          BY <2>2, <4>1, <4>2, <4>3 DEF Waiting, Settled, HeldBy
      <3>3. CASE HarvestFallsShort(d) \/ HarvestFails(d)
        BY <2>2, <3>3, HarvestEffects DEF Goes, world, Waiting, Settled, HeldBy
      <3>4. CASE WritesReceipt(d)
        BY <2>2, <3>4, HarvestEffects DEF Goes, Waiting, Settled, HeldBy
      <3> QED
        BY <1>9, <3>1, <3>2, <3>3, <3>4
    <2> QED
      BY <2>1, <2>2, KeptByDrains
  <1>10. ASSUME NEW d \in Daemons,
                RetryChecksQueue(d) \/ RetryRequeues(d)
                  \/ ReleaseChecksOwner(d) \/ ReleaseRemoves(d)
         PROVE  Kept'
    <2>1. UNCHANGED <<accepted, covered, dropped>> /\ Others(d)
      BY <1>10, SettlingEffects DEF Goes, world
    <2>2. ASSUME NEW s \in Sessions, Waiting(s) \/ HeldBy(d, s) PROVE (Waiting(s) \/ HeldBy(d, s))'
      <3>1. CASE RetryChecksQueue(d)
        BY <2>1, <2>2, <3>1, SettlingEffects DEF Goes, SameRow, world, Waiting, Settled, HeldBy
      <3>2. CASE ReleaseChecksOwner(d) \/ ReleaseRemoves(d)
        BY <2>1, <2>2, <3>2, SettlingEffects DEF Goes, world, Waiting, Settled, HeldBy
      <3>3. CASE RetryRequeues(d)
        <4>1. drain[d].on \in Sessions /\ drain[d].row # None
          BY <3>3, NoneAssumption DEF RetryRequeues, WithRow, Holding
        <4>2. CASE s = drain[d].on
          BY <3>3, <4>1, <4>2, SettlingEffects DEF Waiting, TypeOK
        <4>3. CASE s # drain[d].on
          BY <2>1, <2>2, <3>3, <4>1, <4>3, SettlingEffects DEF Waiting, Settled, HeldBy, TypeOK
        <4> QED
          BY <4>2, <4>3
      <3> QED
        BY <1>10, <3>1, <3>2, <3>3
    <2> QED
      BY <2>1, <2>2, KeptByDrains
  <1> QED
    BY <1>1, <1>2, <1>3, <1>4, <1>5, <1>6, <1>7, <1>8, <1>9, <1>10 DEF Next, DrainStep

(* Nothing has been observed, accepted or claimed to begin with.           *)
LEMMA ObservedInit == ASSUME Init PROVE Observed
  <1>1. \A s \in Sessions : accepted[s] = 0 /\ transcript[s] = 0 /\ queue[s] = None
                            /\ working[s] = None
    BY DEF Init
  <1>2. \A h \in Hooks : hook[h].at = "idle"
    BY DEF Init, IdleHook
  <1>3. \A d \in Daemons : drain[d].at = "idle"
    BY DEF Init, IdleDrain
  <1> QED
    BY <1>1, <1>2, <1>3 DEF Observed, SeenBy, WithRow, Holding

LEMMA ObservedInvariant == Spec => []Observed
  <1>1. TypeOK /\ TypeOK' /\ Observed /\ [Next]_vars => Observed'
    BY ObservedStep
  <1> QED
    BY <1>1, ObservedInit, TypeInvariant, PTL DEF Spec

LEMMA SettledInit == ASSUME Init, NEW s \in Sessions PROVE Settled(s)
  <1>1. covered[s] = 0 /\ accepted[s] = 0
    BY DEF Init
  <1> QED
    BY <1>1 DEF Settled

(* However many hooks, daemons and drains overlap, nothing a hook reported *)
(* as queued is forgotten, as long as no daemon dies in the middle of a    *)
(* drain and every row can be written.                                     *)
THEOREM CapturesSurviveOverlap ==
  ASSUME MaxCrashes = 0
  PROVE  Spec => []AcceptedNotLost
  <1>1. Init => Kept
    BY SettledInit DEF Kept, Waiting
  <1>2. TypeOK /\ TypeOK' /\ HonestInv /\ Observed /\ Kept /\ [Next]_vars => Kept'
    BY KeptStep DEF HonestInv
  <1>3. Kept => AcceptedNotLost
    BY DEF Kept, Waiting, Settled, HeldBy, AcceptedNotLost, Holding
  <1> QED
    BY <1>1, <1>2, <1>3, TypeInvariant, HonestInvariant, ObservedInvariant, PTL DEF Spec

-----------------------------------------------------------------------------
(* One daemon may die at any step, and a row may be impossible to write:   *)
(* the lease then stands for the capture, so from the removal of the row   *)
(* to its return or the receipt the lease is there, readable and owned by  *)
(* the drain.  A lease that has expired stays expired until its creator    *)
(* writes it, so recovery removes no other.                                *)
Alone == \A d, e \in Daemons : d = e

Readable(s) == working[s] # None /\ working[s].row # None
Leased(d, s) == working[s] # None /\ working[s].owner = d

Backed(d) ==
  LET s == drain[d].on
      at == drain[d].at
  IN /\ at \in {"exists", "restore"} => Readable(s) /\ working[s].ttl = 0
     /\ at = "reap" => /\ working[s] # None /\ working[s].ttl = 0
                       /\ queue[s] # None \/ working[s].row = None
     /\ at \in {"claim", "fill", "unqueue"} => queue[s] # None
     /\ at \in (Holding \cup {"unlease"}) => Leased(d, s)
     /\ at = "fill" => working[s].row = None
     /\ at \in Holding \ {"fill"} => Readable(s)
     /\ at = "harvest" => drain[d].seen >= accepted[s] \/ queue[s] # None
     /\ at \in {"receipt", "release", "unlease"} => Waiting(s)

Backing ==
  /\ \A s \in Sessions : Waiting(s) \/ Readable(s)
  /\ \A d \in Daemons : Backed(d)

(* The steps of the only daemon that leave the world alone.                *)
LEMMA BackedAlone ==
  ASSUME Alone, Backing, NEW d \in Daemons, UNCHANGED world, Backed(d)'
  PROVE  Backing'
  <1>1. \A e \in Daemons : e = d
    BY DEF Alone
  <1>2. \A s \in Sessions : (Waiting(s) \/ Readable(s))'
    BY DEF Backing, world, Waiting, Settled, Readable
  <1> QED
    BY <1>1, <1>2 DEF Backing

LEMMA BackingByDaemon ==
  ASSUME Alone, NEW d \in Daemons, Backed(d)', \A s \in Sessions : (Waiting(s) \/ Readable(s))'
  PROVE  Backing'
  <1>1. \A e \in Daemons : e = d
    BY DEF Alone
  <1> QED
    BY <1>1 DEF Backing

LEMMA BackingInRecovery ==
  ASSUME TypeOK, Backing, Alone, NEW d \in Daemons,
         \/ DrainStarts(d) \/ RecoverChecksQueue(d) \/ RecoverRestores(d)
         \/ RecoverRemoves(d) \/ ListQueue(d) \/ \E s \in Sessions : ScanLease(d, s)
  PROVE  Backing'
  <1> USE DrainFields
  <1>1. Backed(d) /\ \A s \in Sessions : Waiting(s) \/ Readable(s)
    BY DEF Backing
  <1>2. ASSUME NEW s \in Sessions, ScanLease(d, s) PROVE Backing'
    <2>1. UNCHANGED world
      BY <1>2, ScanEffect
    <2>2. Backed(d)'
      BY <1>1, <1>2, ScanEffect DEF Backed, Readable, Waiting, Holding, world
    <2> QED
      BY <2>1, <2>2, BackedAlone
  <1>3. CASE DrainStarts(d) \/ RecoverChecksQueue(d) \/ ListQueue(d)
    <2>1. UNCHANGED world
      BY <1>3, RecoveryEffects
    <2>2. Backed(d)'
      BY <1>1, <1>3, RecoveryEffects DEF Backed, Readable, Goes, SameRow, Holding, world
    <2> QED
      BY <2>1, <2>2, BackedAlone
  <1>4. CASE RecoverRestores(d)
    <2>1. drain[d].on \in Sessions /\ drain[d].row # None
      BY <1>4, NoneAssumption DEF RecoverRestores, WithRow
    <2>2. /\ queue' = [queue EXCEPT ![drain[d].on] = drain[d].row]
          /\ drain[d].at = "restore" /\ drain'[d].at = "reap" /\ drain'[d].on = drain[d].on
          /\ UNCHANGED <<working, accepted, covered, dropped>>
      BY <1>4, RecoveryEffects DEF Goes, SameRow
    <2>3. \A s \in Sessions : queue[s] # None => queue'[s] # None
      BY <2>1, <2>2 DEF TypeOK
    <2>4. queue'[drain[d].on] # None
      BY <2>1, <2>2 DEF TypeOK
    <2>5. Backed(d)'
      BY <1>1, <2>2, <2>4 DEF Backed, Readable, Holding
    <2>6. \A s \in Sessions : (Waiting(s) \/ Readable(s))'
      BY <1>1, <2>2, <2>3 DEF Waiting, Settled, Readable
    <2> QED
      BY <2>5, <2>6, BackingByDaemon
  <1>5. CASE RecoverRemoves(d)
    <2>1. drain[d].on \in Sessions
      BY <1>5 DEF RecoverRemoves
    <2>2. /\ working' = [working EXCEPT ![drain[d].on] = None]
          /\ drain[d].at = "reap" /\ drain'[d].at = "scan"
          /\ UNCHANGED <<queue, accepted, covered, dropped>>
      BY <1>5, RecoveryEffects DEF Goes
    <2>3. queue[drain[d].on] # None \/ working[drain[d].on].row = None
      BY <1>1, <2>2 DEF Backed
    <2>4. Waiting(drain[d].on)
      BY <1>1, <2>1, <2>3 DEF Waiting, Readable
    <2>5. \A s \in Sessions : s # drain[d].on => working'[s] = working[s]
      BY <2>1, <2>2 DEF TypeOK
    <2>6. \A s \in Sessions : (Waiting(s) \/ Readable(s))'
      BY <1>1, <2>2, <2>4, <2>5 DEF Waiting, Settled, Readable
    <2>7. Backed(d)'
      BY <2>2 DEF Backed, Holding
    <2> QED
      BY <2>6, <2>7, BackingByDaemon
  <1> QED
    BY <1>2, <1>3, <1>4, <1>5

LEMMA BackingInClaims ==
  ASSUME TypeOK, Backing, Alone, NEW d \in Daemons,
         \/ ClaimCreates(d) \/ ClaimFills(d) \/ ClaimFillFails(d) \/ ClaimUnqueues(d)
         \/ ClaimUnqueueFails(d)
  PROVE  Backing'
  <1> USE DrainFields
  <1>1. Backed(d) /\ \A s \in Sessions : Waiting(s) \/ Readable(s)
    BY DEF Backing
  <1>2. CASE ClaimUnqueueFails(d)
    <2>1. UNCHANGED world
      BY <1>2, ClaimEffects
    <2>2. Backed(d)'
      BY <1>1, <1>2, ClaimEffects DEF Backed, Readable, Waiting, Goes, Holding, world
    <2> QED
      BY <2>1, <2>2, BackedAlone
  <1>3. CASE ClaimCreates(d)
    <2>1. drain[d].on \in Sessions
      BY <1>3 DEF ClaimCreates
    <2>2. CASE UNCHANGED working /\ drain'[d].at = "idle"
      <3>1. UNCHANGED world
        BY <1>3, <2>2, ClaimEffects DEF world
      <3>2. Backed(d)'
        BY <2>2 DEF Backed, Holding
      <3> QED
        BY <3>1, <3>2, BackedAlone
    <2>3. CASE /\ working[drain[d].on] = None
               /\ working' = [working EXCEPT ![drain[d].on] =
                                [owner |-> d, ttl |-> Lease, row |-> None]]
               /\ drain'[d].at = "fill" /\ drain'[d].on = drain[d].on
      <3>1. UNCHANGED <<queue, accepted, covered, dropped>> /\ drain[d].at = "claim"
        BY <1>3, ClaimEffects DEF Goes
      <3>2. working'[drain[d].on] = [owner |-> d, ttl |-> Lease, row |-> None]
        BY <2>1, <2>3 DEF TypeOK
      <3>3. working'[drain[d].on] \in LeaseFile
        BY <3>2, ConstantsAssumption DEF LeaseFile
      <3>4. working'[drain[d].on] # None
        BY <3>3, NoneAssumption
      <3>5. \A s \in Sessions : s # drain[d].on => working'[s] = working[s]
        BY <2>1, <2>3 DEF TypeOK
      <3>6. queue[drain[d].on] # None
        BY <1>1, <3>1 DEF Backed
      <3>7. Backed(d)'
        BY <2>3, <3>1, <3>2, <3>4, <3>6 DEF Backed, Leased, Holding
      <3>8. \A s \in Sessions : (Waiting(s) \/ Readable(s))'
        BY <1>1, <3>1, <3>5, <3>6 DEF Waiting, Settled, Readable
      <3> QED
        BY <3>7, <3>8, BackingByDaemon
    <2> QED
      BY <1>3, <2>2, <2>3, ClaimEffects DEF Goes, SameRow
  <1>4. CASE ClaimFills(d)
    <2>1. drain[d].on \in Sessions /\ drain[d].row \in Row /\ drain[d].at = "fill"
      BY <1>4 DEF ClaimFills, WithRow, Holding
    <2> DEFINE lease == [owner |-> d, ttl |-> Left(Lease, drain[d].age), row |-> drain[d].row]
    <2>2. /\ UNCHANGED <<queue, accepted, covered, dropped>>
          /\ drain'[d].at = "unqueue" /\ drain'[d].on = drain[d].on
      BY <1>4, ClaimEffects DEF Goes, SameRow
    <2>3. Leased(d, drain[d].on) /\ queue[drain[d].on] # None
      BY <1>1, <2>1 DEF Backed, Holding
    <2>4. working' = [working EXCEPT ![drain[d].on] = lease]
      BY <1>4, <2>3, ClaimEffects DEF Leased
    <2>5. lease \in LeaseFile /\ lease.owner = d /\ lease.row # None
      BY <2>1, LeftType, ConstantsAssumption, NoneAssumption DEF LeaseFile
    <2> HIDE DEF lease
    <2>6. working'[drain[d].on] = lease /\ lease # None
      BY <2>1, <2>4, <2>5, NoneAssumption DEF TypeOK
    <2>7. \A s \in Sessions : s # drain[d].on => working'[s] = working[s]
      BY <2>1, <2>4 DEF TypeOK
    <2>8. Backed(d)'
      BY <2>2, <2>3, <2>5, <2>6 DEF Backed, Leased, Readable, Holding
    <2>9. \A s \in Sessions : (Waiting(s) \/ Readable(s))'
      BY <1>1, <2>2, <2>3, <2>7 DEF Waiting, Settled, Readable
    <2> QED
      BY <2>8, <2>9, BackingByDaemon
  <1>5. CASE ClaimFillFails(d)
    <2>1. drain[d].on \in Sessions /\ drain[d].at = "fill"
      BY <1>5 DEF ClaimFillFails
    <2>2. /\ UNCHANGED <<queue, accepted, covered, dropped>>
          /\ working' = [working EXCEPT ![drain[d].on] = None]
          /\ drain'[d].at = "idle"
      BY <1>5, ClaimEffects DEF Goes
    <2>3. queue[drain[d].on] # None
      BY <1>1, <2>1 DEF Backed
    <2>4. \A s \in Sessions : s # drain[d].on => working'[s] = working[s]
      BY <2>1, <2>2 DEF TypeOK
    <2>5. \A s \in Sessions : (Waiting(s) \/ Readable(s))'
      BY <1>1, <2>2, <2>3, <2>4 DEF Waiting, Settled, Readable
    <2>6. Backed(d)'
      BY <2>2 DEF Backed, Holding
    <2> QED
      BY <2>5, <2>6, BackingByDaemon
  <1>6. CASE ClaimUnqueues(d)
    <2>1. drain[d].on \in Sessions /\ drain[d].at = "unqueue"
      BY <1>6 DEF ClaimUnqueues
    <2>2. /\ UNCHANGED <<working, accepted, covered, dropped>>
          /\ queue' = [queue EXCEPT ![drain[d].on] = None]
          /\ drain'[d].at = "resolve" /\ drain'[d].on = drain[d].on
      BY <1>6, ClaimEffects DEF Goes, SameRow
    <2>3. Leased(d, drain[d].on) /\ Readable(drain[d].on)
      BY <1>1, <2>1 DEF Backed, Holding
    <2>4. \A s \in Sessions : s # drain[d].on => queue'[s] = queue[s]
      BY <2>1, <2>2 DEF TypeOK
    <2>5. \A s \in Sessions : (Waiting(s) \/ Readable(s))'
      BY <1>1, <2>2, <2>3, <2>4 DEF Waiting, Settled, Readable
    <2>6. Backed(d)'
      BY <2>2, <2>3 DEF Backed, Leased, Readable, Holding
    <2> QED
      BY <2>5, <2>6, BackingByDaemon
  <1> QED
    BY <1>2, <1>3, <1>4, <1>5, <1>6

LEMMA BackingInHarvests ==
  ASSUME TypeOK, ReceiptHonest, Observed, Backing, Alone, NEW d \in Daemons,
         \/ Resolves(d) \/ HarvestCompletes(d) \/ HarvestFallsShort(d) \/ HarvestFails(d)
         \/ WritesReceipt(d)
  PROVE  Backing'
  <1> USE DrainFields
  <1>1. Backed(d) /\ \A s \in Sessions : Waiting(s) \/ Readable(s)
    BY DEF Backing
  <1>2. drain[d].on \in Sessions /\ drain'[d].on = drain[d].on /\ UNCHANGED <<accepted, queue, working>>
    BY ResolveEffect, HarvestEffects DEF Resolves, HarvestCompletes, HarvestFallsShort,
       HarvestFails, WritesReceipt, Goes, SameRow, world
  <1>3. \A s \in Sessions : Waiting(s) => Waiting(s)'
    <2>1. CASE Resolves(d)
      BY <1>2, <2>1, ResolveEffect DEF Waiting, Settled, TypeOK
    <2>2. CASE HarvestCompletes(d)
      <3>1. drain[d].seen \in Nat /\ covered \in [Sessions -> Nat] /\ accepted \in [Sessions -> Nat]
        BY DEF TypeOK
      <3>2. ASSUME NEW s \in Sessions PROVE covered'[s] >= covered[s] /\ covered'[s] \in Nat
        <4>1. covered'[s] \in {covered[s], Larger(covered[s], drain[d].seen)}
          BY <1>2, <2>2, <3>1, HarvestEffects
        <4>2. covered[s] \in Nat
          BY <3>1
        <4>3. Larger(covered[s], drain[d].seen) \in Nat
              /\ Larger(covered[s], drain[d].seen) >= covered[s]
          BY <3>1, <4>2, LargerType
        <4> QED
          BY <4>1, <4>2, <4>3
      <3> QED
        BY <1>2, <2>2, <3>1, <3>2, HarvestEffects DEF Waiting, Settled
    <2>3. CASE HarvestFallsShort(d) \/ HarvestFails(d) \/ WritesReceipt(d)
      BY <1>2, <2>3, HarvestEffects DEF Waiting, Settled, world
    <2> QED
      BY <2>1, <2>2, <2>3
  <1>4. \A s \in Sessions : (Waiting(s) \/ Readable(s))'
    BY <1>1, <1>2, <1>3 DEF Readable
  <1>5. Backed(d)'
    <2> DEFINE s == drain[d].on
    <2>0. s \in Sessions /\ drain'[d].on = s
      BY <1>2
    <2>1. CASE Resolves(d)
      <3>1. Leased(d, s) /\ Readable(s) /\ drain[d].at = "resolve"
        BY <1>1, <2>1 DEF Backed, Resolves, Holding
      <3>2. /\ accepted[s] <= transcript[s] /\ receipt[s] <= covered[s]
            /\ accepted[s] \in Nat /\ transcript[s] \in Nat /\ receipt[s] \in Nat
            /\ covered[s] \in Nat
        BY <2>0 DEF Observed, ReceiptHonest, TypeOK
      <3>3. CASE drain'[d].at = "release" /\ dropped' = [dropped EXCEPT ![s] = TRUE]
        <4>1. dropped'[s]
          BY <2>0, <3>3 DEF TypeOK
        <4> QED
          BY <2>0, <3>3, <4>1 DEF Backed, Waiting, Settled, Holding
      <3>4. CASE drain'[d].at = "release" /\ receipt[s] >= transcript[s] /\ covered' = covered
        BY <1>2, <2>0, <3>2, <3>4 DEF Backed, Waiting, Settled, Holding
      <3>5. CASE drain'[d].at = "retry"
        BY <1>2, <2>0, <3>1, <3>5 DEF Backed, Leased, Readable, Holding
      <3>6. CASE drain'[d].at = "harvest" /\ drain'[d].seen = transcript[s]
        BY <1>2, <2>0, <3>1, <3>2, <3>6 DEF Backed, Leased, Readable, Holding
      <3> QED
        BY <2>1, <3>3, <3>4, <3>5, <3>6, ResolveEffect DEF Goes
    <2>2. CASE HarvestCompletes(d)
      <3>1. /\ Leased(d, s) /\ Readable(s) /\ drain[d].at = "harvest"
            /\ drain[d].seen >= accepted[s] \/ queue[s] # None
        BY <1>1, <2>2 DEF Backed, HarvestCompletes, Holding
      <3>2. covered'[s] = Larger(covered[s], drain[d].seen) /\ drain'[d].at = "receipt"
        BY <2>0, <2>2, HarvestEffects DEF Goes, TypeOK
      <3>3. covered'[s] >= drain[d].seen /\ covered'[s] \in Nat /\ accepted[s] \in Nat
        <4>1. covered[s] \in Nat /\ drain[d].seen \in Nat /\ accepted[s] \in Nat
          BY <2>0 DEF TypeOK
        <4>2. Larger(covered[s], drain[d].seen) \in Nat
              /\ Larger(covered[s], drain[d].seen) >= drain[d].seen
          BY <4>1, LargerType
        <4> QED
          BY <3>2, <4>1, <4>2
      <3>4. Waiting(s)'
        <4>1. CASE queue[s] # None
          BY <1>2, <2>0, <4>1 DEF Waiting
        <4>2. CASE drain[d].seen >= accepted[s]
          BY <1>2, <2>0, <3>3, <4>2 DEF Waiting, Settled
        <4> QED
          BY <3>1, <4>1, <4>2
      <3> QED
        BY <1>2, <2>0, <3>1, <3>2, <3>4 DEF Backed, Leased, Readable, Holding
    <2>3. CASE HarvestFallsShort(d) \/ HarvestFails(d)
      <3>1. Leased(d, s) /\ Readable(s) /\ drain'[d].at = "retry"
        BY <1>1, <2>3, HarvestEffects DEF Backed, Goes, Holding
      <3> QED
        BY <1>2, <2>0, <3>1 DEF Backed, Leased, Readable, Holding
    <2>4. CASE WritesReceipt(d)
      <3>1. Waiting(s) /\ drain'[d].at = "release"
        BY <1>1, <2>4, HarvestEffects DEF Backed, Goes
      <3>2. UNCHANGED <<covered, dropped>>
        BY <2>4, HarvestEffects
      <3> QED
        BY <1>2, <2>0, <3>1, <3>2 DEF Backed, Waiting, Settled, Holding
    <2> QED
      BY <2>1, <2>2, <2>3, <2>4
  <1> QED
    BY <1>4, <1>5, BackingByDaemon

LEMMA BackingInSettling ==
  ASSUME TypeOK, Backing, Alone, NEW d \in Daemons,
         \/ RetryChecksQueue(d) \/ RetryRequeues(d) \/ RowFails(d)
         \/ ReleaseChecksOwner(d) \/ ReleaseRemoves(d)
  PROVE  Backing'
  <1> USE DrainFields
  <1>1. Backed(d) /\ \A s \in Sessions : Waiting(s) \/ Readable(s)
    BY DEF Backing
  <1>2. CASE RetryChecksQueue(d) \/ RowFails(d) \/ ReleaseChecksOwner(d)
    <2>1. UNCHANGED world
      BY <1>2, SettlingEffects
    <2>2. Backed(d)'
      BY <1>1, <1>2, SettlingEffects
         DEF Backed, Readable, Leased, Waiting, Settled, Goes, SameRow, Holding, world
    <2> QED
      BY <2>1, <2>2, BackedAlone
  <1>3. CASE RetryRequeues(d)
    <2>1. drain[d].on \in Sessions /\ drain[d].row # None
      BY <1>3, NoneAssumption DEF RetryRequeues, WithRow, Holding
    <2>2. /\ queue' = [queue EXCEPT ![drain[d].on] = drain[d].row]
          /\ drain'[d].at = "release" /\ drain'[d].on = drain[d].on
          /\ UNCHANGED <<working, accepted, covered, dropped>>
      BY <1>3, SettlingEffects DEF Goes
    <2>3. \A s \in Sessions : queue[s] # None => queue'[s] # None
      BY <2>1, <2>2 DEF TypeOK
    <2>4. queue'[drain[d].on] # None
      BY <2>1, <2>2 DEF TypeOK
    <2>5. Backed(d)'
      BY <2>2, <2>4 DEF Backed, Waiting, Holding
    <2>6. \A s \in Sessions : (Waiting(s) \/ Readable(s))'
      BY <1>1, <2>2, <2>3 DEF Waiting, Settled, Readable
    <2> QED
      BY <2>5, <2>6, BackingByDaemon
  <1>4. CASE ReleaseRemoves(d)
    <2>1. drain[d].on \in Sessions /\ drain[d].at = "unlease"
      BY <1>4 DEF ReleaseRemoves
    <2>2. /\ working' = [working EXCEPT ![drain[d].on] = None]
          /\ drain'[d].at = "idle"
          /\ UNCHANGED <<queue, accepted, covered, dropped>>
      BY <1>4, SettlingEffects DEF Goes
    <2>3. Waiting(drain[d].on)
      BY <1>1, <2>1 DEF Backed
    <2>4. \A s \in Sessions : s # drain[d].on => working'[s] = working[s]
      BY <2>1, <2>2 DEF TypeOK
    <2>5. \A s \in Sessions : (Waiting(s) \/ Readable(s))'
      BY <1>1, <2>2, <2>3, <2>4 DEF Waiting, Settled, Readable
    <2>6. Backed(d)'
      BY <2>2 DEF Backed, Holding
    <2> QED
      BY <2>5, <2>6, BackingByDaemon
  <1> QED
    BY <1>2, <1>3, <1>4

LEMMA BackingStep ==
  ASSUME TypeOK, TypeOK', ReceiptHonest, Observed, Backing, Alone, [Next]_vars
  PROVE  Backing'
  <1> USE DrainFields
  <1>1. CASE \/ \E d \in Daemons : DaemonStarts(d) \/ DaemonCloses(d) \/ DaemonExits(d)
             \/ CursorToggles \/ UNCHANGED vars
    <2>1. UNCHANGED <<world, drain>>
      BY <1>1, QuietSteps
    <2> QED
      BY <2>1 DEF Backing, Backed, Waiting, Settled, Readable, Leased, world
  <1>2. ASSUME NEW s \in Sessions, TranscriptGrows(s) PROVE Backing'
    BY <1>2, GrowthEffect DEF Backing, Backed, Waiting, Settled, Readable, Leased
  <1>3. CASE Tick
    <2>1. ASSUME NEW s \in Sessions
          PROVE  /\ (Waiting(s) => Waiting(s)') /\ (Readable(s) => Readable(s)')
                 /\ \A d \in Daemons : Leased(d, s) => Leased(d, s)'
      BY <1>3, TickEffect DEF Waiting, Settled, Readable, Leased
    <2>2. ASSUME NEW d \in Daemons PROVE Backed(d)'
      <3>1. Backed(d)
        BY DEF Backing
      <3>2. /\ drain'[d].at = drain[d].at /\ drain'[d].on = drain[d].on
            /\ drain'[d].seen = drain[d].seen
        BY <1>3, TickEffect
      <3>3. CASE drain[d].at \in {"idle", "scan"}
        BY <3>2, <3>3 DEF Backed, Holding
      <3>4. CASE drain[d].at \notin {"idle", "scan"}
        <4> DEFINE s == drain[d].on
        <4>1. s \in Sessions /\ drain'[d].on = s
          BY <3>2, <3>4
        <4>2. /\ queue[s] = None <=> queue'[s] = None
              /\ working[s] = None <=> working'[s] = None
              /\ working[s] # None => (working[s].row = None <=> working'[s].row = None)
              /\ working[s] # None => (working[s].ttl = 0 => working'[s].ttl = 0)
              /\ accepted' = accepted
          BY <1>3, <4>1, TickEffect
        <4>3. /\ (Waiting(s) => Waiting(s)') /\ (Readable(s) => Readable(s)')
              /\ Leased(d, s) => Leased(d, s)'
          BY <2>1, <4>1
        <4>4. /\ drain[d].at \in {"exists", "restore"} => Readable(s) /\ working[s].ttl = 0
              /\ drain[d].at = "reap" => /\ working[s] # None /\ working[s].ttl = 0
                                         /\ queue[s] # None \/ working[s].row = None
              /\ drain[d].at \in {"claim", "fill", "unqueue"} => queue[s] # None
              /\ drain[d].at \in (Holding \cup {"unlease"}) => Leased(d, s)
              /\ drain[d].at = "fill" => working[s].row = None
              /\ drain[d].at \in Holding \ {"fill"} => Readable(s)
              /\ drain[d].at = "harvest" => drain[d].seen >= accepted[s] \/ queue[s] # None
              /\ drain[d].at \in {"receipt", "release", "unlease"} => Waiting(s)
          BY <3>1 DEF Backed
        <4> QED
          BY <3>2, <4>1, <4>2, <4>3, <4>4 DEF Backed, Readable, Leased, Holding
      <3> QED
        BY <3>3, <3>4
    <2> QED
      BY <2>1, <2>2 DEF Backing
  <1>4. ASSUME NEW h \in Hooks, HookStep(h) PROVE Backing'
    <2>1. UNCHANGED <<drain, working, covered, dropped>>
      BY <1>4, HookEffects
    <2>2. CASE UNCHANGED <<queue, accepted>>
      BY <2>1, <2>2 DEF Backing, Backed, Waiting, Settled, Readable, Leased
    <2>3. CASE /\ hook[h].at # "idle"
               /\ queue' = [queue EXCEPT ![hook[h].on] = hook[h].row]
               /\ accepted' = [accepted EXCEPT ![hook[h].on] = Larger(@, hook[h].row.observed)]
      <3>1. PICK k \in Sessions : k = hook[h].on /\ hook[h].row # None
        BY <2>3, NoneAssumption DEF TypeOK, HookState
      <3>2. queue'[k] # None
        BY <2>3, <3>1 DEF TypeOK
      <3>3. \A s \in Sessions : s # k => queue'[s] = queue[s] /\ accepted'[s] = accepted[s]
        BY <2>3, <3>1 DEF TypeOK
      <3>4. \A s \in Sessions : (Waiting(s) => Waiting(s)') /\ (queue[s] # None => queue'[s] # None)
        BY <2>1, <3>2, <3>3 DEF Waiting, Settled
      <3>5. ASSUME NEW d \in Daemons PROVE Backed(d)'
        <4>1. Backed(d)
          BY DEF Backing
        <4>2. CASE drain[d].at \in {"idle", "scan"}
          BY <2>1, <4>2 DEF Backed, Holding
        <4>3. CASE drain[d].at \notin {"idle", "scan"}
          <5>1. drain[d].on \in Sessions
            BY <4>3
          <5>2. drain[d].at = "harvest" =>
                  drain[d].seen >= accepted'[drain[d].on] \/ queue'[drain[d].on] # None
            BY <3>2, <3>3, <4>1, <5>1 DEF Backed
          <5> QED
            BY <2>1, <3>4, <4>1, <5>1, <5>2 DEF Backed, Readable, Leased
        <4> QED
          BY <4>2, <4>3
      <3> QED
        BY <2>1, <3>4, <3>5 DEF Backing, Readable
    <2> QED
      BY <1>4, <2>2, <2>3, HookEffects
  <1>5. ASSUME NEW d \in Daemons, DaemonCrashes(d) PROVE Backing'
    <2>1. Backed(d)'
      BY <1>5, CrashEffect DEF Backed, Holding
    <2>2. \A s \in Sessions : (Waiting(s) \/ Readable(s))'
      BY <1>5, CrashEffect DEF Backing, Waiting, Settled, Readable
    <2> QED
      BY <2>1, <2>2, BackingByDaemon
  <1> QED
    BY <1>1, <1>2, <1>3, <1>4, <1>5, BackingInRecovery, BackingInClaims, BackingInHarvests,
       BackingInSettling DEF Next, DrainStep

LEMMA BackingInvariant == ASSUME Alone PROVE Spec => []Backing
  <1>1. Init => Backing
    <2>1. Init => \A d \in Daemons : drain[d].at = "idle"
      BY DEF Init, IdleDrain
    <2> QED
      BY <2>1, SettledInit DEF Backing, Backed, Waiting, Holding
  <1>2. TypeOK /\ TypeOK' /\ HonestInv /\ Observed /\ Backing /\ [Next]_vars => Backing'
    BY BackingStep DEF HonestInv
  <1> QED
    BY <1>1, <1>2, TypeInvariant, HonestInvariant, ObservedInvariant, PTL DEF Spec

(* With one daemon, nothing a hook reported as queued is forgotten,        *)
(* wherever the daemon dies and whatever row it cannot write.              *)
THEOREM CapturesSurviveCrashes ==
  ASSUME Alone
  PROVE  Spec => []AcceptedNotLost
  <1>1. Backing => AcceptedNotLost
    BY DEF Backing, Waiting, Settled, Readable, AcceptedNotLost
  <1> QED
    BY <1>1, BackingInvariant, PTL

(* Only four steps remove a lease: recovery, a claim whose file cannot be  *)
(* written, and the release of the drain's own.                            *)
LEMMA LeaseRemovals ==
  ASSUME TypeOK, [Next]_vars, NEW s \in Sessions, working[s] # None, working'[s] = None
  PROVE  \E d \in Daemons : /\ drain[d].on = s
                            /\ RecoverRemoves(d) \/ ClaimFillFails(d) \/ ReleaseRemoves(d)
  <1> USE DrainFields
  <1>1. CASE \/ \E d \in Daemons : DaemonStarts(d) \/ DaemonCloses(d) \/ DaemonExits(d)
             \/ CursorToggles \/ UNCHANGED vars
    BY <1>1, QuietSteps DEF world
  <1>2. CASE \/ \E t \in Sessions : TranscriptGrows(t)
             \/ Tick \/ \E h \in Hooks : HookStep(h)
    BY <1>2, GrowthEffect, TickEffect, HookEffects
  <1>3. ASSUME NEW d \in Daemons
        PROVE  ~DaemonCrashes(d) /\ \A t \in Sessions : ~ScanLease(d, t)
    BY CrashEffect, ScanEffect DEF world
  <1>4. ASSUME NEW d \in Daemons,
               \/ DrainStarts(d) \/ RecoverChecksQueue(d) \/ RecoverRestores(d) \/ ListQueue(d)
               \/ ClaimUnqueues(d) \/ ClaimUnqueueFails(d)
        PROVE  FALSE
    BY <1>4, RecoveryEffects, ClaimEffects DEF world
  <1>5. ASSUME NEW d \in Daemons, ClaimCreates(d) PROVE FALSE
    <2>1. drain[d].on \in Sessions
      BY <1>5 DEF ClaimCreates
    <2> DEFINE fresh == [owner |-> d, ttl |-> Lease, row |-> None]
    <2>2. \/ UNCHANGED working
          \/ /\ working[drain[d].on] = None
             /\ working' = [working EXCEPT ![drain[d].on] = fresh]
      BY <1>5, ClaimEffects
    <2> HIDE DEF fresh
    <2> QED
      BY <2>1, <2>2 DEF TypeOK
  <1>6. ASSUME NEW d \in Daemons, ClaimFills(d) PROVE FALSE
    <2> DEFINE lease == [owner |-> d, ttl |-> Left(Lease, drain[d].age), row |-> drain[d].row]
    <2>1. drain[d].on \in Sessions /\ drain[d].row \in Row
      BY <1>6 DEF ClaimFills, WithRow, Holding
    <2>2. lease # None
      <3>1. Left(Lease, drain[d].age) \in Nat
        BY LeftType, ConstantsAssumption
      <3>2. lease \in LeaseFile
        BY <2>1, <3>1 DEF LeaseFile
      <3> HIDE DEF lease
      <3> QED
        BY <3>2, NoneAssumption
    <2>3. working' = working \/ working' = [working EXCEPT ![drain[d].on] = lease]
      BY <1>6, ClaimEffects
    <2> HIDE DEF lease
    <2> QED
      BY <2>1, <2>2, <2>3 DEF TypeOK
  <1>7. ASSUME NEW d \in Daemons,
               \/ Resolves(d) \/ HarvestCompletes(d) \/ HarvestFallsShort(d) \/ HarvestFails(d)
               \/ WritesReceipt(d)
        PROVE  FALSE
    BY <1>7, ResolveEffect, HarvestEffects DEF world
  <1>8. ASSUME NEW d \in Daemons,
               RetryChecksQueue(d) \/ RetryRequeues(d) \/ RowFails(d) \/ ReleaseChecksOwner(d)
        PROVE  FALSE
    BY <1>8, SettlingEffects DEF world
  <1>9. ASSUME NEW d \in Daemons, RecoverRemoves(d) \/ ClaimFillFails(d) \/ ReleaseRemoves(d)
        PROVE  drain[d].on = s
    BY <1>9 DEF RecoverRemoves, ClaimFillFails, ReleaseRemoves, TypeOK
  <1> QED
    BY <1>1, <1>2, <1>3, <1>4, <1>5, <1>6, <1>7, <1>8, <1>9 DEF Next, DrainStep

(* With one daemon, a lease that has not expired is removed only by the    *)
(* drain it belongs to: what the recovery of a restarted daemon read as    *)
(* expired is still expired when it removes the file.                      *)
THEOREM LeasesAreRespected ==
  ASSUME Alone
  PROVE  Spec => LeaseRespected
  <1>1. ASSUME TypeOK, Backing, [Next]_vars
        PROVE  [\A s \in Sessions :
                  (working[s] # None /\ working[s].ttl > 0 /\ working'[s] = None)
                    => \E d \in Daemons : working[s].owner = d /\ drain[d].on = s]_vars
    <2>1. ASSUME NEW s \in Sessions, working[s] # None, working[s].ttl > 0, working'[s] = None
          PROVE  \E d \in Daemons : working[s].owner = d /\ drain[d].on = s
      <3>1. PICK d \in Daemons : /\ drain[d].on = s
                                 /\ RecoverRemoves(d) \/ ClaimFillFails(d) \/ ReleaseRemoves(d)
        BY <1>1, <2>1, LeaseRemovals
      <3>2. drain[d].at \in {"reap", "fill", "unlease"}
        BY <3>1 DEF RecoverRemoves, ClaimFillFails, ReleaseRemoves
      <3>3. Backed(d)
        BY <1>1 DEF Backing
      <3>4. drain[d].at # "reap"
        BY <2>1, <3>1, <3>3 DEF Backed
      <3>5. Leased(d, s)
        BY <3>1, <3>2, <3>3, <3>4 DEF Backed, Holding
      <3> QED
        BY <3>1, <3>5 DEF Leased
    <2> QED
      BY <2>1
  <1> QED
    BY <1>1, BackingInvariant, TypeInvariant, PTL DEF Spec, LeaseRespected
=============================================================================
