-------------------------- MODULE Lifecycle_proofs --------------------------
(***************************************************************************)
(* Theorems of Lifecycle, for any number of daemons, supervised or not, of *)
(* shims and of requests, any deadlines that are in the order of the       *)
(* code's, and any bounds on time, marks and crashes.                      *)
(***************************************************************************)
EXTENDS Lifecycle, FiniteSetTheorems, WellFoundedInduction, TLAPS

-----------------------------------------------------------------------------
(* Numbers.                                                                *)

(* A set of numbers has a least one.                                        *)
LEMMA Least ==
  ASSUME NEW S, S \subseteq Nat, S # {}
  PROVE  \E m \in S : \A k \in S : m =< k
  <1> PICK n \in S : TRUE
    OBVIOUS
  <1> DEFINE F == {0..k : k \in {k \in S : k =< n}}
             R == StrictSubsetOrdering(0..n)
  <1>1. IsWellFoundedOn(R, SUBSET (0..n))
    <2>1. IsFiniteSet(0..n)
      BY FS_Interval
    <2> QED
      BY <2>1, FS_FiniteSubsetsOfFinite, FS_StrictSubsetOrderingWellFounded
  <1>2. F \subseteq SUBSET (0..n) /\ F # {}
    OBVIOUS
  <1> HIDE DEF R
  <1>3. \E x \in F : \A y \in F : <<y, x>> \notin R
    BY <1>1, <1>2, WFMin
  <1>4. PICK m \in S : m =< n /\ \A y \in F : <<y, 0..m>> \notin R
    BY <1>3
  <1>5. ASSUME NEW k \in S, k < m PROVE FALSE
    <2>1. 0..k \in F /\ 0..k \subseteq 0..m /\ 0..k # 0..m
      <3>1. m \in 0..m /\ m \notin 0..k
        BY <1>5
      <3> QED
        BY <1>4, <1>5, <3>1
    <2>2. 0..k \in SUBSET (0..n) /\ 0..m \in SUBSET (0..n)
      BY <1>4, <1>5
    <2> QED
      BY <1>4, <2>1, <2>2 DEF R, StrictSubsetOrdering
  <1> QED
    BY <1>4, <1>5

(* A set of numbers up to a bound has a greatest one.                       *)
LEMMA Greatest ==
  ASSUME NEW n \in Nat, NEW S, S \subseteq 0..n, S # {}
  PROVE  \E m \in S : \A k \in S : k =< m
  <1> DEFINE T == {n - k : k \in S}
  <1>1. T \subseteq Nat /\ T # {}
    OBVIOUS
  <1>2. PICK d \in T : \A k \in T : d =< k
    BY <1>1, Least
  <1>3. PICK m \in S : d = n - m
    OBVIOUS
  <1>4. ASSUME NEW k \in S PROVE k =< m
    <2>1. n - k \in T
      OBVIOUS
    <2>2. k \in Int /\ m \in Int
      OBVIOUS
    <2> HIDE DEF T
    <2> QED
      BY <1>2, <1>3, <2>1, <2>2
  <1> QED
    BY <1>4

-----------------------------------------------------------------------------
(* Types, in the order of the variables.                                    *)
Pcs ==
  Gone \cup {"claim_main", "unlink_main", "claim_control", "unlink_control", "bind_main",
             "bind_control", "lingers", "consume", "claim_legacy", "settle_legacy", "up",
             "signalled", "draining", "overdue", "finishing"}

DaemonTypes ==
  /\ dpc \in [Daemons -> Pcs]
  /\ path \in [Sockets -> Daemons \cup {None, Left}]
  /\ listens \in [Daemons -> SUBSET Sockets]
  /\ crashes \in 0..MaxCrashes

Snap == [files : SUBSET Marker, legacy : MaybeMarker, taken : MaybeMarker]

MarkerTypes ==
  /\ files \subseteq Marker /\ legacy \in MaybeMarker
  /\ snap \in [Daemons -> Snap]
  /\ marks \in 0..MaxMarks /\ now \in 0..MaxTick
  /\ restart \in Nat \cup {None}

StartTypes == deadline \in [Shims -> Nat] /\ promise \in [Shims -> Nat \cup {None}]

SessionTypes ==
  /\ spc \in [Shims -> {"off", "dials", "inprocess", "exited"} \cup Waiting \cup Running]
  /\ link \in [Shims -> LinkType]
  /\ attached = [c \in Shims |-> spc[c] = "relays"] /\ ended \in [Shims -> BOOLEAN]
  /\ sent \in [Shims -> SUBSET Ids] /\ pending \in [Shims -> SUBSET Ids]
  /\ cancelled \in [Shims -> SUBSET Ids]
  /\ replies \in [Shims -> [Ids -> Nat]]

ShimStep(c) ==
  ShimStarts(c) \/ WaitStep(c) \/ ServeStep(c) \/ RelayStep(c) \/ ReplayFails(c) \/ ClientStep(c)

DaemonStep(d) ==
  Starts(d) \/ StartStep(d) \/ Signalled(d) \/ StopStep(d) \/ Refreshes(d) \/ Crashes(d)

(* What the one leaves to the other.                                        *)
LEMMA ShimsLeaveDaemons ==
  ASSUME NEW c \in Shims, ShimStep(c)
  PROVE  UNCHANGED <<daemonVars, markerVars, now>>
  <1>1. CASE ShimStarts(c) \/ WaitStep(c)
    BY <1>1 DEF ShimStarts, WaitStep, ReadsMarkers, ProbeAnswered, ProbeFails, Wakes, Dials
  <1>2. CASE ServeStep(c) \/ ReplayFails(c)
    BY <1>2 DEF ServeStep, Takes, Answers, AnswersReplay, SeesEnd, ReplayFails, Travels
  <1>3. CASE RelayStep(c)
    BY <1>3 DEF RelayStep, RelaysAnswer, SeesClose, Redials, Reattaches, Travels
  <1>4. CASE ClientStep(c)
    BY <1>4 DEF ClientStep, ClientInitializes, ClientInitialized, ClientAsks, ClientCancels,
                StdinEnds, ShimKilled, Relays, Travels
  <1> QED
    BY <1>1, <1>2, <1>3, <1>4 DEF ShimStep

LEMMA DaemonsLeaveShims ==
  ASSUME NEW d \in Daemons, DaemonStep(d)
  PROVE  /\ UNCHANGED <<now, deadline, clientVars, spc, attached>>
         /\ UNCHANGED link \/ Disconnects(d)
  <1>1. CASE Starts(d) \/ Signalled(d) \/ Refreshes(d) \/ Crashes(d)
    BY <1>1 DEF Starts, Signalled, Refreshes, Crashes, startVars, relayVars, daemonVars
  <1>2. CASE StartStep(d)
    BY <1>2 DEF StartStep, Claims, Unlinks, BindsMain, BindsControl, Binds, BindFails, ChmodFails,
                FailsToStart, ConsumesGenerations, ClaimsLegacy, SettlesLegacy, startVars, relayVars
  <1>3. CASE StopStep(d)
    BY <1>3 DEF StopStep, StopsListening, DrainEnds, DrainTimesOut, Finishes, startVars, relayVars
  <1> QED
    BY <1>1, <1>2, <1>3 DEF DaemonStep

LEMMA NextSteps ==
  ASSUME [Next]_vars
  PROVE  \/ \E d \in Daemons : DaemonStep(d)
         \/ \E c \in Shims : ShimStep(c)
         \/ Tick \/ UNCHANGED vars
  BY DEF Next, DaemonStep, ShimStep

-----------------------------------------------------------------------------
(* The invariant, in parts.                                                *)

(* A daemon listens from the time it binds to the time it closes or dies,  *)
(* and the file it made is gone by then, unless it was killed.             *)
Quiet ==
  Gone \cup {"claim_main", "unlink_main", "claim_control", "unlink_control", "bind_main",
             "lingers", "draining", "overdue", "finishing"}

SocketsInv ==
  \A d \in Daemons :
    /\ dpc[d] \in Quiet => listens[d] = {}
    /\ \A s \in Sockets : path[s] = d => s \in listens[d] \/ dpc[d] = "crashed"

(* A session: what the relay is doing, its link, and the client's requests.*)
(* A request is on the link once at most and unanswered there, and what is *)
(* on the link has been sent.                                              *)
Travelling(l) == l.asked \cup l.handling \cup l.answers

SessionOK(s, l, S, P, C, R) ==
  /\ s \notin Running => l = NoLink
  /\ s \notin Running \cup {"exited"} => S = {}
  /\ s = "relays" => l.stage \in {"fresh", "ready"}
  /\ s = "recovers" => Travelling(l) = {}
  /\ ~l.open => l.asked = {} /\ l.handling = {}
  /\ l.stage = "ready" \/ l.asked \cup l.handling \subseteq {Hello}
  /\ l.asked \cap l.handling = {} /\ (l.asked \cup l.handling) \cap l.answers = {}
  /\ P \cup Travelling(l) \subseteq S
  /\ \A r \in Ids : /\ R[r] \in {0, 1}
                    /\ r \notin S \/ r \in P \cup Travelling(l) => R[r] = 0
                    /\ s \in Running /\ r \in S \ C /\ R[r] = 0 => r \in P /\ s = "relays"

SessionsInv ==
  \A c \in Shims : SessionOK(spc[c], link[c], sent[c], pending[c], cancelled[c], replies[c])

(* The mark of a restart that is promised to somebody, or would be, is     *)
(* there, and no daemon that has bound its socket will remove it.          *)
Bound == {"bind_control", "consume"}

Outlives(m) == m \in files /\ \A d \in Daemons : dpc[d] \in Bound => m \notin snap[d].files

MarksInv ==
  /\ \A m \in files : m.gen <= marks
  /\ \A d \in Daemons : \A m \in snap[d].files : m.gen <= marks
  /\ restart # None => \E m \in files : Outlives(m) /\ m.at = restart
  /\ \A c \in Shims : promise[c] # None =>
       \E m \in files : Outlives(m) /\ m.at + Grace = promise[c]

(* A session that was promised to wait does: nothing listens, and its      *)
(* deadline is late enough once it has read the markers.                   *)
WaitsInv ==
  \A c \in Shims : promise[c] # None =>
    /\ ~Accepts("main")
    /\ spc[c] # "dials"
    /\ spc[c] \in {"probes", "sleeps"} => promise[c] <= deadline[c] \/ promise[c] <= now

SocketsOK == DaemonTypes /\ SocketsInv

LEMMA SocketsBegin == Init => SocketsOK
  BY LifecycleAssumption
  DEF Init, SocketsOK, DaemonTypes, SocketsInv, Pcs, Gone, Quiet, Sockets

(* A daemon goes on, and the socket files and what it listens on stay.      *)
LEMMA SocketsMove ==
  ASSUME SocketsOK, NEW d \in Daemons, NEW to \in Pcs, Moves(d, to),
         UNCHANGED <<path, listens, crashes>>,
         to \in Quiet => dpc[d] \in Quiet, dpc[d] # "crashed"
  PROVE  SocketsOK'
  <1>1. /\ dpc' \in [Daemons -> Pcs] /\ dpc'[d] = to
        /\ \A e \in Daemons \ {d} : dpc'[e] = dpc[e]
    BY DEF Moves, SocketsOK, DaemonTypes
  <1> QED
    BY <1>1 DEF SocketsOK, DaemonTypes, SocketsInv

(* It closes its servers, or leaves nothing listening in dying.             *)
LEMMA SocketsClose ==
  ASSUME SocketsOK, NEW d \in Daemons, NEW to \in Pcs, Moves(d, to), dpc[d] # "crashed",
         ClosesServers(d), UNCHANGED crashes
  PROVE  SocketsOK'
  <1>1. /\ dpc' \in [Daemons -> Pcs] /\ dpc'[d] = to
        /\ \A e \in Daemons \ {d} : dpc'[e] = dpc[e]
    BY DEF Moves, SocketsOK, DaemonTypes
  <1>2. /\ listens' \in [Daemons -> SUBSET Sockets] /\ listens'[d] = {}
        /\ \A e \in Daemons \ {d} : listens'[e] = listens[e]
    BY DEF ClosesServers, SocketsOK, DaemonTypes
  <1>3. /\ path' \in [Sockets -> Daemons \cup {None, Left}]
        /\ \A s \in Sockets : path'[s] = IF s \in listens[d] THEN None ELSE path[s]
    BY DEF ClosesServers, SocketsOK, DaemonTypes
  <1>4. DaemonTypes'
    BY <1>1, <1>2, <1>3 DEF SocketsOK, DaemonTypes
  <1>5. SocketsInv'
    BY <1>1, <1>2, <1>3, LifecycleAssumption DEF SocketsOK, SocketsInv
  <1> QED
    BY <1>4, <1>5 DEF SocketsOK

LEMMA SocketsCrash ==
  ASSUME SocketsOK, NEW d \in Daemons, Crashes(d)
  PROVE  SocketsOK'
  <1>1. /\ dpc' \in [Daemons -> Pcs] /\ dpc'[d] = "crashed"
        /\ \A e \in Daemons \ {d} : dpc'[e] = dpc[e]
    BY DEF Crashes, Moves, SocketsOK, DaemonTypes, Pcs, Gone
  <1>2. /\ listens' \in [Daemons -> SUBSET Sockets] /\ listens'[d] = {}
        /\ \A e \in Daemons \ {d} : listens'[e] = listens[e]
    BY DEF Crashes, SocketsOK, DaemonTypes
  <1>3. crashes' \in 0..MaxCrashes /\ UNCHANGED path
    BY LifecycleAssumption DEF Crashes, SocketsOK, DaemonTypes
  <1> QED
    BY <1>1, <1>2, <1>3 DEF SocketsOK, DaemonTypes, SocketsInv

LEMMA SocketsBind ==
  ASSUME SocketsOK, NEW d \in Daemons, NEW s \in Sockets, NEW to \in Pcs \ Quiet,
         Moves(d, to), Binds(d, s), dpc[d] # "crashed"
  PROVE  SocketsOK'
  <1>1. /\ dpc' \in [Daemons -> Pcs] /\ dpc'[d] = to
        /\ \A e \in Daemons \ {d} : dpc'[e] = dpc[e]
    BY DEF Moves, SocketsOK, DaemonTypes
  <1>2. /\ listens' \in [Daemons -> SUBSET Sockets] /\ listens'[d] = listens[d] \cup {s}
        /\ \A e \in Daemons \ {d} : listens'[e] = listens[e]
    BY DEF Binds, SocketsOK, DaemonTypes
  <1>3. /\ path' \in [Sockets -> Daemons \cup {None, Left}] /\ path'[s] = d
        /\ \A z \in Sockets \ {s} : path'[z] = path[z]
    BY DEF Binds, SocketsOK, DaemonTypes
  <1>4. DaemonTypes'
    BY <1>1, <1>2, <1>3 DEF SocketsOK, DaemonTypes, Binds
  <1>5. SocketsInv'
    <2> SUFFICES ASSUME NEW e \in Daemons
                 PROVE  /\ dpc'[e] \in Quiet => listens'[e] = {}
                        /\ \A z \in Sockets : path'[z] = e => z \in listens'[e] \/ dpc'[e] = "crashed"
      BY DEF SocketsInv
    <2>1. CASE e = d
      <3>1. dpc[d] # "crashed" => \A z \in Sockets : path[z] = d => z \in listens[d]
        BY DEF SocketsOK, SocketsInv
      <3> QED
        BY <1>1, <1>2, <1>3, <2>1, <3>1
    <2>2. CASE e # d
      BY <1>1, <1>2, <1>3, <2>2 DEF SocketsOK, SocketsInv
    <2> QED
      BY <2>1, <2>2
  <1> QED
    BY <1>4, <1>5 DEF SocketsOK

LEMMA SocketsStay ==
  ASSUME SocketsOK, UNCHANGED daemonVars
  PROVE  SocketsOK'
  BY DEF daemonVars, SocketsOK, DaemonTypes, SocketsInv

LEMMA SocketsStep == SocketsOK /\ [Next]_vars => SocketsOK'
  <1> SUFFICES ASSUME SocketsOK, [Next]_vars PROVE SocketsOK'
    OBVIOUS
  <1> USE DEF Claiming, Unlinking, Claimed, Sockets
  <1>1. ASSUME NEW d \in Daemons, Starts(d) PROVE SocketsOK'
    BY <1>1, SocketsMove DEF Starts, Pcs, Gone, Quiet
  <1>2. ASSUME NEW d \in Daemons, NEW s \in Sockets, Claims(d, s) PROVE SocketsOK'
    <2>1. /\ Claimed[s] \in Pcs \cap Quiet /\ Unlinking[s] \in Pcs \cap Quiet
          /\ Claiming[s] \in Quiet \ {"crashed"} /\ "failed" \in Pcs \cap Quiet
      BY DEF Pcs, Gone, Quiet
    <2>2. PICK to \in Pcs \cap Quiet : Moves(d, to)
      BY <1>2, <2>1 DEF Claims
    <2>3. dpc[d] = Claiming[s] /\ UNCHANGED <<path, listens, crashes>>
      BY <1>2 DEF Claims
    <2> QED
      BY <2>1, <2>2, <2>3, SocketsMove
  <1>3. ASSUME NEW d \in Daemons, NEW s \in Sockets, Unlinks(d, s) PROVE SocketsOK'
    <2>1. /\ Claimed[s] \in Pcs \cap Quiet /\ Unlinking[s] \in Quiet \ {"crashed"}
          /\ "failed" \in Pcs \cap Quiet
      BY DEF Pcs, Gone, Quiet
    <2>2. PICK to \in Pcs \cap Quiet : Moves(d, to)
      BY <1>3, <2>1 DEF Unlinks
    <2>3. /\ dpc' \in [Daemons -> Pcs] /\ dpc'[d] = to
          /\ \A e \in Daemons \ {d} : dpc'[e] = dpc[e]
      BY <2>2 DEF Moves, SocketsOK, DaemonTypes
    <2>4. /\ path' \in [Sockets -> Daemons \cup {None, Left}] /\ path'[s] = None
          /\ \A z \in Sockets \ {s} : path'[z] = path[z]
          /\ UNCHANGED <<listens, crashes>> /\ dpc[d] \in Quiet \ {"crashed"}
      BY <1>3, <2>1 DEF Unlinks, SocketsOK, DaemonTypes
    <2>5. DaemonTypes'
      BY <2>3, <2>4 DEF SocketsOK, DaemonTypes
    <2>6. SocketsInv'
      BY <2>3, <2>4, LifecycleAssumption DEF SocketsOK, SocketsInv
    <2> QED
      BY <2>5, <2>6 DEF SocketsOK
  <1>4. ASSUME NEW d \in Daemons, BindsMain(d) \/ BindsControl(d) PROVE SocketsOK'
    <2>1. "bind_control" \in Pcs \ Quiet /\ "consume" \in Pcs \ Quiet
      BY DEF Pcs, Gone, Quiet
    <2> QED
      BY <1>4, <2>1, SocketsBind DEF BindsMain, BindsControl
  <1>5. ASSUME NEW d \in Daemons, BindFails(d) PROVE SocketsOK'
    <2>1. "failed" \in Pcs \cap Quiet /\ "lingers" \in Pcs /\ "bind_main" \in Quiet
      BY DEF Pcs, Gone, Quiet
    <2>2. CASE dpc[d] = "bind_main" /\ Moves(d, "failed") /\ UNCHANGED <<path, listens>>
      BY <1>5, <2>1, <2>2, SocketsMove DEF BindFails
    <2>3. CASE dpc[d] = "bind_control" /\ Moves(d, "lingers") /\ ClosesServers(d)
      BY <1>5, <2>1, <2>3, SocketsClose DEF BindFails
    <2> QED
      BY <1>5, <2>2, <2>3 DEF BindFails
  <1>6. ASSUME NEW d \in Daemons, FailsToStart(d) PROVE SocketsOK'
    BY <1>6, SocketsMove DEF FailsToStart, Pcs, Gone, Quiet
  <1>7. ASSUME NEW d \in Daemons,
               ConsumesGenerations(d) \/ ClaimsLegacy(d) \/ SettlesLegacy(d) \/ Signalled(d)
        PROVE  SocketsOK'
    <2>1. {"up", "claim_legacy", "settle_legacy", "signalled"} \subseteq Pcs \ Quiet
      BY DEF Pcs, Gone, Quiet
    <2>2. PICK to \in {"up", "claim_legacy", "settle_legacy", "signalled"} : Moves(d, to)
      BY <1>7 DEF ConsumesGenerations, ClaimsLegacy, SettlesLegacy, Signalled
    <2>3. dpc[d] # "crashed" /\ UNCHANGED <<path, listens, crashes>>
      BY <1>7 DEF ConsumesGenerations, ClaimsLegacy, SettlesLegacy, Signalled
    <2> QED
      BY <2>1, <2>2, <2>3, SocketsMove
  <1>8. ASSUME NEW d \in Daemons, StopsListening(d) PROVE SocketsOK'
    BY <1>8, SocketsClose DEF StopsListening, Pcs
  <1>9. ASSUME NEW d \in Daemons, DrainEnds(d) \/ DrainTimesOut(d) \/ Finishes(d)
        PROVE  SocketsOK'
    <2>1. {"draining", "overdue", "finishing", "closed"} \subseteq Pcs \cap Quiet
      BY DEF Pcs, Gone, Quiet
    <2>2. PICK to \in {"overdue", "finishing", "closed"} : Moves(d, to)
      BY <1>9 DEF DrainEnds, DrainTimesOut, Finishes
    <2>3. dpc[d] \in {"draining", "overdue", "finishing"} /\ UNCHANGED <<path, listens, crashes>>
      BY <1>9 DEF DrainEnds, DrainTimesOut, Finishes
    <2> QED
      BY <2>1, <2>2, <2>3, SocketsMove
  <1>10. ASSUME NEW d \in Daemons, Refreshes(d) PROVE SocketsOK'
    BY <1>10, SocketsStay DEF Refreshes
  <1>11. ASSUME NEW d \in Daemons, Crashes(d) PROVE SocketsOK'
    BY <1>11, SocketsCrash
  <1>12. ASSUME NEW d \in Daemons, ChmodFails(d) PROVE SocketsOK'
    BY <1>12, SocketsClose DEF ChmodFails, Pcs, Gone
  <1>13. CASE \E d \in Daemons : DaemonStep(d)
    BY <1>1, <1>2, <1>3, <1>4, <1>5, <1>6, <1>7, <1>8, <1>9, <1>10, <1>11, <1>12, <1>13
    DEF DaemonStep, StartStep, StopStep
  <1>14. CASE (\E c \in Shims : ShimStep(c)) \/ Tick \/ UNCHANGED vars
    BY <1>14, ShimsLeaveDaemons, SocketsStay DEF Tick, vars
  <1> QED
    BY <1>13, <1>14, NextSteps

LEMMA SocketsHold == Spec => []SocketsOK
  BY SocketsBegin, SocketsStep, PTL DEF Spec

-----------------------------------------------------------------------------
(* The markers, and those who wait for them.                                *)

MarksOK == MarkerTypes /\ StartTypes /\ MarksInv

LEMMA MarksBegin == Init => MarksOK
  BY LifecycleAssumption
  DEF Init, MarksOK, MarkerTypes, StartTypes, MarksInv, NoSnap, Snap, MaybeMarker

(* A marker that outlives, as long as it is there and none binds over it.   *)
LEMMA StillOutlives ==
  ASSUME NEW m, Outlives(m), m \in files',
         \A e \in Daemons : dpc'[e] \in Bound => dpc[e] \in Bound /\ snap'[e].files = snap[e].files
  PROVE  Outlives(m)'
  BY DEF Outlives

(* No daemon binds, none starts, and no marker is removed or made.          *)
LEMMA MarksStay ==
  ASSUME MarksOK, UNCHANGED <<files, marks, restart, now, startVars>>,
         legacy' \in MaybeMarker, snap' \in [Daemons -> Snap],
         \A e \in Daemons : snap'[e].files = snap[e].files,
         \A e \in Daemons : dpc'[e] \in Bound => dpc[e] \in Bound
  PROVE  MarksOK'
  <1>1. MarkerTypes' /\ StartTypes'
    BY DEF MarksOK, MarkerTypes, StartTypes, startVars
  <1>2. \A m : Outlives(m) => Outlives(m)'
    BY StillOutlives DEF Outlives
  <1>3. MarksInv'
    BY <1>2 DEF MarksOK, MarksInv, startVars
  <1> QED
    BY <1>1, <1>3 DEF MarksOK

(* markDaemonRestart: the new generation is in no daemon's snapshot.        *)
LEMMA MarksMade ==
  ASSUME MarksOK, NEW d \in Daemons, Marks, Announces(d),
         UNCHANGED <<now, startVars>>,
         \A e \in Daemons : dpc'[e] \in Bound => dpc[e] \in Bound
  PROVE  MarksOK'
  <1>1. CASE UNCHANGED <<files, legacy, snap, marks>>
    <2>1. UNCHANGED restart
      BY <1>1 DEF Announces
    <2> QED
      BY <1>1, <2>1, MarksStay DEF MarksOK, MarkerTypes
  <1>2. CASE marks < MaxMarks /\ marks' = marks + 1 /\ UNCHANGED snap
             /\ files' = files \cup {[gen |-> marks + 1, at |-> now]}
             /\ legacy' = [gen |-> marks + 1, at |-> now]
    <2>0. marks \in Nat /\ now \in Nat /\ MaxMarks \in Nat /\ MaxTick \in Nat
      BY LifecycleAssumption DEF MarksOK, MarkerTypes
    <2>1. PICK m \in Marker : /\ m.gen = marks + 1 /\ m.at = now
                              /\ files' = files \cup {m} /\ legacy' = m
      <3>1. [gen |-> marks + 1, at |-> now] \in Marker
        BY <1>2, <2>0 DEF MarksOK, MarkerTypes, Marker
      <3> QED
        BY <1>2, <3>1
    <2>2. files' = files \cup {m} /\ legacy' = m
      BY <2>1
    <2>3. restart' \in {restart, now}
      BY DEF Announces
    <2>4. MarkerTypes' /\ StartTypes'
      BY <1>2, <2>0, <2>1, <2>2, <2>3
      DEF MarksOK, MarkerTypes, StartTypes, startVars, MaybeMarker
    <2>5. \A x : Outlives(x) => Outlives(x)'
      BY <1>2, <2>2, StillOutlives DEF Outlives
    <2>6. Outlives(m)'
      <3>1. \A e \in Daemons : \A x \in snap[e].files : x.gen <= marks
        BY DEF MarksOK, MarksInv
      <3>2. \A e \in Daemons : m \notin snap'[e].files
        BY <1>2, <2>0, <2>1, <3>1
      <3> QED
        BY <2>2, <3>2 DEF Outlives
    <2>7. /\ \A x \in files' : x.gen <= marks'
          /\ \A e \in Daemons : \A x \in snap'[e].files : x.gen <= marks'
      <3>1. \A x \in Marker : x.gen \in Nat
        BY <2>0 DEF Marker
      <3>2. /\ \A x \in files : x.gen <= marks /\ x.gen \in Nat
            /\ \A e \in Daemons : \A x \in snap[e].files : x.gen <= marks /\ x.gen \in Nat
        BY <3>1 DEF MarksOK, MarksInv, MarkerTypes, Snap
      <3> QED
        BY <1>2, <2>0, <2>1, <2>2, <3>2
    <2>8. restart' # None => \E x \in files' : Outlives(x)' /\ x.at = restart'
      BY <2>1, <2>2, <2>3, <2>5, <2>6 DEF MarksOK, MarksInv
    <2>9. \A c \in Shims : promise'[c] # None =>
            \E x \in files' : Outlives(x)' /\ x.at + Grace = promise'[c]
      BY <2>2, <2>5 DEF MarksOK, MarksInv, startVars
    <2>10. MarksInv'
      BY <2>7, <2>8, <2>9 DEF MarksInv
    <2> QED
      BY <2>4, <2>10 DEF MarksOK
  <1> QED
    BY <1>1, <1>2 DEF Marks

(* A daemon binds its main socket: the restart is over.                     *)
LEMMA MarksBound ==
  ASSUME MarksOK, NEW d \in Daemons, BindsMain(d)
  PROVE  MarksOK'
  <1>1. UNCHANGED <<files, legacy, snap, marks, now, deadline>>
    BY DEF BindsMain, Binds
  <1>2. restart' = None /\ promise' = [c \in Shims |-> None]
    BY DEF BindsMain
  <1> QED
    BY <1>1, <1>2 DEF MarksOK, MarkerTypes, StartTypes, MarksInv

LEMMA MarksStarted ==
  ASSUME SocketsOK, MarksOK, NEW d \in Daemons, Starts(d)
  PROVE  MarksOK'
  <1> DEFINE seen == [NoSnap EXCEPT !.files = files, !.legacy = legacy]
  <1>1. seen \in Snap /\ seen.files = files
    BY DEF NoSnap, Snap, MaybeMarker, MarksOK, MarkerTypes
  <1>2. snap' = [snap EXCEPT ![d] = seen]
    BY DEF Starts
  <1> HIDE DEF seen
  <1>3. /\ snap' \in [Daemons -> Snap] /\ snap'[d].files = files
        /\ \A e \in Daemons \ {d} : snap'[e] = snap[e]
    BY <1>1, <1>2 DEF MarksOK, MarkerTypes
  <1>4. /\ dpc'[d] = "claim_main" /\ \A e \in Daemons \ {d} : dpc'[e] = dpc[e]
    BY DEF Starts, Moves, SocketsOK, DaemonTypes
  <1>5. UNCHANGED <<files, legacy, marks, restart, now, startVars>>
    BY DEF Starts
  <1>6. \A x : Outlives(x) => Outlives(x)'
    BY <1>3, <1>4, <1>5 DEF Outlives, Bound
  <1>7. MarkerTypes' /\ StartTypes'
    BY <1>3, <1>5 DEF MarksOK, MarkerTypes, StartTypes, startVars
  <1>8. MarksInv'
    BY <1>3, <1>5, <1>6 DEF MarksOK, MarksInv, startVars
  <1> QED
    BY <1>7, <1>8 DEF MarksOK

(* The generations that were there before the start go, and those alone.    *)
LEMMA MarksConsumed ==
  ASSUME SocketsOK, MarksOK, NEW d \in Daemons, ConsumesGenerations(d)
  PROVE  MarksOK'
  <1>1. /\ files' = files \ snap[d].files /\ dpc[d] = "consume"
        /\ UNCHANGED <<legacy, snap, marks, restart, now, startVars>>
    BY DEF ConsumesGenerations
  <1>2. dpc'[d] \notin Bound /\ \A e \in Daemons \ {d} : dpc'[e] = dpc[e]
    BY DEF ConsumesGenerations, Moves, SocketsOK, DaemonTypes, Bound
  <1>3. \A x : Outlives(x) => Outlives(x)'
    BY <1>1, <1>2 DEF Outlives, Bound
  <1>4. MarkerTypes' /\ StartTypes'
    BY <1>1 DEF MarksOK, MarkerTypes, StartTypes, startVars
  <1>5. MarksInv'
    BY <1>1, <1>3 DEF MarksOK, MarksInv, startVars, Outlives
  <1> QED
    BY <1>4, <1>5 DEF MarksOK

LEMMA MarksByDaemons ==
  ASSUME SocketsOK, MarksOK, NEW d \in Daemons, DaemonStep(d)
  PROVE  MarksOK'
  <1>0. /\ dpc \in [Daemons -> Pcs]
        /\ \A to : Moves(d, to) => dpc'[d] = to /\ \A e \in Daemons \ {d} : dpc'[e] = dpc[e]
    BY DEF Moves, SocketsOK, DaemonTypes
  <1>1. CASE Starts(d) \/ ConsumesGenerations(d) \/ BindsMain(d)
    BY <1>1, MarksStarted, MarksConsumed, MarksBound
  <1>2. CASE Signalled(d) \/ Refreshes(d) \/ Finishes(d)
    BY <1>0, <1>2, MarksMade DEF Signalled, Refreshes, Finishes, daemonVars, Bound
  <1>3. CASE BindsControl(d)
    <2>1. UNCHANGED <<files, legacy, snap, marks, restart, now, startVars>>
      BY <1>3 DEF BindsControl, Binds, startVars
    <2> QED
      BY <1>0, <1>3, <2>1, MarksStay DEF BindsControl, Bound, MarksOK, MarkerTypes
  <1>4. CASE (\E s \in Sockets : Claims(d, s) \/ Unlinks(d, s)) \/ BindFails(d) \/ ChmodFails(d)
             \/ FailsToStart(d) \/ StopsListening(d) \/ DrainEnds(d) \/ DrainTimesOut(d) \/ Crashes(d)
    <2>1. UNCHANGED <<files, legacy, snap, marks, restart, now, startVars>>
      BY <1>4 DEF Claims, Unlinks, BindFails, ChmodFails, FailsToStart, StopsListening, DrainEnds,
                  DrainTimesOut, Crashes, markerVars
    <2>2. dpc'[d] \notin Bound
      BY <1>0, <1>4 DEF Claims, Unlinks, BindFails, ChmodFails, FailsToStart, StopsListening, DrainEnds,
                  DrainTimesOut, Crashes, Claimed, Unlinking, Bound, Sockets
    <2>3. \A e \in Daemons \ {d} : dpc'[e] = dpc[e]
      BY <1>0, <1>4 DEF Claims, Unlinks, BindFails, ChmodFails, FailsToStart, StopsListening, DrainEnds,
                  DrainTimesOut, Crashes
    <2> QED
      BY <2>1, <2>2, <2>3, MarksStay DEF MarksOK, MarkerTypes
  <1>5. CASE ClaimsLegacy(d) \/ SettlesLegacy(d)
    <2>1. UNCHANGED <<files, marks, restart, now, startVars>>
      BY <1>5 DEF ClaimsLegacy, SettlesLegacy
    <2>2. dpc'[d] \notin Bound /\ \A e \in Daemons \ {d} : dpc'[e] = dpc[e]
      BY <1>0, <1>5 DEF ClaimsLegacy, SettlesLegacy, Bound
    <2>3. legacy \in MaybeMarker /\ snap \in [Daemons -> Snap] /\ None \in MaybeMarker
      BY DEF MarksOK, MarkerTypes, MaybeMarker
    <2>4. snap[d].taken \in MaybeMarker
      BY <2>3 DEF Snap
    <2>5. legacy' \in MaybeMarker
      BY <1>5, <2>3, <2>4 DEF ClaimsLegacy, SettlesLegacy
    <2>6. /\ snap' \in [Daemons -> Snap]
          /\ \A e \in Daemons : snap'[e].files = snap[e].files
      BY <1>5, <2>3 DEF ClaimsLegacy, SettlesLegacy, Snap
    <2> QED
      BY <2>1, <2>2, <2>5, <2>6, MarksStay
  <1> QED
    BY <1>1, <1>2, <1>3, <1>4, <1>5 DEF DaemonStep, StartStep, StopStep

(* Of the shims, the marks are disturbed by one that starts, which is       *)
(* promised the grace of the mark that announces the restart, and by one   *)
(* that moves its deadline.                                                 *)
LEMMA Newest ==
  ASSUME MarksOK, NEW x \in Recent
  PROVE  LET newest == CHOOSE t \in {m.at + Grace : m \in Recent} : \A m \in Recent : m.at + Grace =< t
         IN newest \in Nat /\ \A m \in Recent : m.at + Grace =< newest
  <1> DEFINE T == {m.at + Grace : m \in Recent}
  <1>0. MaxTick \in Nat /\ Grace \in Nat /\ MaxMarks \in Nat
    BY LifecycleAssumption
  <1>1. \A m \in Recent : m.at \in 0..MaxTick
    BY <1>0 DEF Recent, MarksOK, MarkerTypes, MaybeMarker, Marker
  <1>2. T \subseteq 0..(MaxTick + Grace) /\ T # {}
    BY <1>0, <1>1
  <1>3. PICK t \in T : \A k \in T : k =< t
    <2>1. MaxTick + Grace \in Nat
      BY <1>0
    <2> HIDE DEF T
    <2> QED
      BY <1>2, <2>1, Greatest
  <1>4. \A m \in Recent : m.at + Grace =< t
    BY <1>3
  <1> HIDE DEF T
  <1>5. \E u \in T : \A m \in Recent : m.at + Grace =< u
    BY <1>3, <1>4
  <1>6. T \subseteq Nat
    BY <1>0, <1>2
  <1> QED
    BY <1>5, <1>6 DEF T

LEMMA MarksByShims ==
  ASSUME MarksOK, NEW c \in Shims, ShimStep(c)
  PROVE  MarksOK'
  <1>0. UNCHANGED <<daemonVars, markerVars, now>>
    BY ShimsLeaveDaemons
  <1>1. MarkerTypes'
    BY <1>0 DEF MarksOK, MarkerTypes, markerVars
  <1>2. \A m : Outlives(m)' <=> Outlives(m)
    BY <1>0 DEF Outlives, markerVars, daemonVars
  <1>3. CASE ShimStarts(c)
    <2>1. Ready \in Nat /\ Grace \in Nat /\ now \in Nat /\ MaxTick \in Nat
      BY LifecycleAssumption DEF MarksOK, MarkerTypes
    <2>2. deadline' \in [Shims -> Nat]
      BY <1>3, <2>1 DEF ShimStarts, MarksOK, StartTypes
    <2>3. /\ \A x \in Shims \ {c} : promise'[x] = promise[x]
          /\ promise'[c] = IF restart = None \/ Accepts("main") THEN None ELSE restart + Grace
          /\ promise' \in [Shims -> Nat \cup {None}]
      BY <1>3, <2>1 DEF ShimStarts, MarksOK, StartTypes, MarkerTypes
    <2>4. MarksInv'
      BY <1>0, <1>2, <2>3 DEF MarksOK, MarksInv, markerVars
    <2> QED
      BY <1>1, <2>2, <2>3, <2>4 DEF MarksOK, StartTypes
  <1>4. CASE ReadsMarkers(c)
    <2>1. UNCHANGED promise /\ deadline' \in [Shims -> Nat]
      <3>1. (\E x \in Recent : TRUE) =>
              (CHOOSE t \in {m.at + Grace : m \in Recent} : \A m \in Recent : m.at + Grace =< t) \in Nat
        BY Newest
      <3> QED
        BY <1>4, <3>1 DEF ReadsMarkers, MarksOK, StartTypes
    <2> QED
      BY <1>0, <1>1, <1>2, <2>1 DEF MarksOK, StartTypes, MarksInv, markerVars
  <1>5. CASE ~ShimStarts(c) /\ ~ReadsMarkers(c)
    <2>1. UNCHANGED startVars
      <3>1. CASE WaitStep(c)
        BY <1>5, <3>1 DEF WaitStep, ProbeAnswered, ProbeFails, Wakes, Dials
      <3>2. CASE ServeStep(c) \/ ReplayFails(c)
        BY <3>2 DEF ServeStep, Takes, Answers, AnswersReplay, SeesEnd, ReplayFails, Travels
      <3>3. CASE RelayStep(c)
        BY <3>3 DEF RelayStep, RelaysAnswer, SeesClose, Redials, Reattaches, Travels
      <3>4. CASE ClientStep(c)
        BY <3>4 DEF ClientStep, ClientInitializes, ClientInitialized, ClientAsks, ClientCancels,
                    StdinEnds, ShimKilled, Relays, Travels
      <3> QED
        BY <1>5, <3>1, <3>2, <3>3, <3>4 DEF ShimStep
    <2> QED
      BY <1>0, <1>1, <1>2, <2>1 DEF MarksOK, StartTypes, MarksInv, markerVars, startVars
  <1> QED
    BY <1>3, <1>4, <1>5

LEMMA MarksByTime ==
  ASSUME MarksOK, Tick \/ UNCHANGED vars
  PROVE  MarksOK'
  <1>1. UNCHANGED <<daemonVars, markerVars, startVars>> /\ now' \in 0..MaxTick
    BY LifecycleAssumption DEF Tick, vars, MarksOK, MarkerTypes
  <1>2. \A m : Outlives(m)' <=> Outlives(m)
    BY <1>1 DEF Outlives, markerVars, daemonVars
  <1> QED
    BY <1>1, <1>2 DEF MarksOK, MarkerTypes, StartTypes, MarksInv, markerVars, startVars

LEMMA MarksStep == SocketsOK /\ MarksOK /\ [Next]_vars => MarksOK'
  BY NextSteps, MarksByDaemons, MarksByShims, MarksByTime

-----------------------------------------------------------------------------
(* Sessions.  First what each step makes of one session's values.           *)

Pending == {"off", "dials", "inprocess"} \cup Waiting

LEMMA Links ==
  /\ NoLink \in LinkType /\ NoLink.stage = "none" /\ ~NoLink.open
  /\ Travelling(NoLink) = {} /\ NoLink.asked = {} /\ NoLink.handling = {}
  /\ \A d \in Daemons, stage \in {"fresh", "replaying"} :
       LET l == Dialled(d, stage)
       IN /\ l \in LinkType /\ l.stage = stage /\ l.open /\ Travelling(l) = {}
          /\ l.asked = {} /\ l.handling = {}
  BY DEF NoLink, LinkType, Travelling, Dialled

LEMMA OtherPending ==
  ASSUME NEW s \in Pending, NEW z \in Pending, NEW l, NEW S, NEW P, NEW C, NEW R,
         SessionOK(s, l, S, P, C, R)
  PROVE  SessionOK(z, l, S, P, C, R)
  BY DEF SessionOK, Pending, Waiting, Running

LEMMA Connected ==
  ASSUME NEW l \in LinkType, NEW S, NEW P, NEW C, NEW R \in [Ids -> Nat], NEW d \in Daemons,
         SessionOK("dials", l, S, P, C, R)
  PROVE  SessionOK("relays", Dialled(d, "fresh"), S, P, C, R)
  <1>1. S = {} /\ P = {}
    BY DEF SessionOK, Running
  <1> QED
    BY <1>1, Links DEF SessionOK, Running

LEMMA Taken ==
  ASSUME NEW s, NEW l \in LinkType, NEW S, NEW P, NEW C, NEW R \in [Ids -> Nat], NEW r \in l.asked,
         SessionOK(s, l, S, P, C, R)
  PROVE  LET m == [l EXCEPT !.asked = @ \ {r}, !.handling = @ \cup {r}]
         IN m \in LinkType /\ SessionOK(s, m, S, P, C, R)
  <1> DEFINE m == [l EXCEPT !.asked = @ \ {r}, !.handling = @ \cup {r}]
  <1>1. /\ m \in LinkType /\ m.open = l.open /\ m.stage = l.stage /\ m.answers = l.answers
        /\ m.asked = l.asked \ {r} /\ m.handling = l.handling \cup {r}
    BY DEF LinkType
  <1>2. l # NoLink /\ l.open
    BY Links DEF SessionOK
  <1>5. SessionOK(s, m, S, P, C, R)
    <2> HIDE DEF m
    <2> QED
      BY <1>1, <1>2 DEF SessionOK, Travelling
  <1> QED
    BY <1>1, <1>5

LEMMA Answered ==
  ASSUME NEW s, NEW l \in LinkType, NEW S, NEW P, NEW C, NEW R \in [Ids -> Nat], NEW r \in l.handling,
         SessionOK(s, l, S, P, C, R)
  PROVE  LET m == [l EXCEPT !.handling = @ \ {r}, !.answers = @ \cup {r}]
         IN m \in LinkType /\ SessionOK(s, m, S, P, C, R)
  <1> DEFINE m == [l EXCEPT !.handling = @ \ {r}, !.answers = @ \cup {r}]
  <1>1. /\ m \in LinkType /\ m.open = l.open /\ m.stage = l.stage /\ m.asked = l.asked
        /\ m.handling = l.handling \ {r} /\ m.answers = l.answers \cup {r}
    BY DEF LinkType
  <1>2. l # NoLink /\ l.open
    BY Links DEF SessionOK
  <1>5. SessionOK(s, m, S, P, C, R)
    <2> HIDE DEF m
    <2> QED
      BY <1>1, <1>2 DEF SessionOK, Travelling
  <1> QED
    BY <1>1, <1>5

LEMMA Staged ==
  ASSUME NEW s, NEW l \in LinkType, NEW S, NEW P, NEW C, NEW R \in [Ids -> Nat],
         NEW stage \in {"ready", "replayed"},
         \/ s = "relays" /\ stage = "ready"
         \/ l.stage = "replaying" /\ stage = "replayed",
         SessionOK(s, l, S, P, C, R)
  PROVE  LET m == [l EXCEPT !.stage = stage]
         IN m \in LinkType /\ SessionOK(s, m, S, P, C, R)
  <1> DEFINE m == [l EXCEPT !.stage = stage]
  <1>1. /\ m \in LinkType /\ m.open = l.open /\ m.stage = stage /\ m.asked = l.asked
        /\ m.handling = l.handling /\ m.answers = l.answers
    BY DEF LinkType
  <1>2. s \in Running /\ (s = "recovers" => Travelling(l) = {})
    BY Links DEF SessionOK, Running
  <1>3. l.stage = "replaying" => s = "recovers"
    BY <1>2 DEF SessionOK, Running
  <1>5. SessionOK(s, m, S, P, C, R)
    <2> HIDE DEF m
    <2> QED
      BY <1>1, <1>2, <1>3 DEF SessionOK, Travelling, Running
  <1> QED
    BY <1>1, <1>5

(* The connection is cut; answers may be lost with it.                      *)
LEMMA CutOff ==
  ASSUME NEW s, NEW l \in LinkType, NEW m \in LinkType,
         NEW S, NEW P, NEW C, NEW R \in [Ids -> Nat], l.open,
         ~m.open, m.stage = l.stage, m.asked = {}, m.handling = {}, m.answers \subseteq l.answers,
         SessionOK(s, l, S, P, C, R)
  PROVE  SessionOK(s, m, S, P, C, R)
  <1>1. l # NoLink
    BY Links
  <1> QED
    BY <1>1 DEF SessionOK, Travelling

LEMMA Asked ==
  ASSUME NEW l \in LinkType, NEW S \in SUBSET Ids, NEW P \in SUBSET Ids, NEW C,
         NEW R \in [Ids -> Nat], NEW r \in Ids \ S,
         r = Hello \/ l.stage = "ready",
         SessionOK("relays", l, S, P, C, R)
  PROVE  LET m == [l EXCEPT !.asked = IF l.open THEN @ \cup {r} ELSE @]
         IN m \in LinkType /\ SessionOK("relays", m, S \cup {r}, P \cup {r}, C, R)
  <1> DEFINE m == [l EXCEPT !.asked = IF l.open THEN @ \cup {r} ELSE @]
  <1>1. /\ m \in LinkType /\ m.open = l.open /\ m.stage = l.stage
        /\ m.asked = (IF l.open THEN l.asked \cup {r} ELSE l.asked)
        /\ m.handling = l.handling /\ m.answers = l.answers
    BY DEF LinkType
  <1>2. "relays" \in Running /\ R[r] = 0 /\ r \notin Travelling(l)
    BY DEF SessionOK, Running
  <1>5. SessionOK("relays", m, S \cup {r}, P \cup {r}, C, R)
    <2> HIDE DEF m
    <2> QED
      BY <1>1, <1>2 DEF SessionOK, Travelling
  <1> QED
    BY <1>1, <1>5

LEMMA AskedInVain ==
  ASSUME NEW l \in LinkType, NEW S \in SUBSET Ids, NEW P \in SUBSET Ids, NEW C,
         NEW R \in [Ids -> Nat], NEW r \in Ids \ S, NEW T \in [Ids -> Nat],
         \A z \in Ids : T[z] = IF z = r THEN R[z] + 1 ELSE R[z],
         SessionOK("recovers", l, S, P, C, R)
  PROVE  SessionOK("recovers", l, S \cup {r}, P, C, T)
  <1>1. "recovers" \in Running /\ R[r] = 0 /\ r \notin P \cup Travelling(l)
    BY DEF SessionOK, Running
  <1> QED
    BY <1>1 DEF SessionOK

LEMMA CancelledOK ==
  ASSUME NEW s, NEW l \in LinkType, NEW S, NEW P, NEW C, NEW R \in [Ids -> Nat], NEW r,
         SessionOK(s, l, S, P, C, R)
  PROVE  SessionOK(s, l, S, P \ {r}, C \cup {r}, R)
  BY DEF SessionOK

LEMMA Delivered ==
  ASSUME NEW s, NEW l \in LinkType, NEW S, NEW P, NEW C, NEW R \in [Ids -> Nat],
         NEW r \in l.answers, NEW T \in [Ids -> Nat],
         \A z \in Ids : T[z] = IF z = r THEN R[z] + 1 ELSE R[z],
         SessionOK(s, l, S, P, C, R)
  PROVE  LET m == [l EXCEPT !.answers = @ \ {r}]
         IN m \in LinkType /\ SessionOK(s, m, S, P \ {r}, C, T)
  <1> DEFINE m == [l EXCEPT !.answers = @ \ {r}]
  <1>1. /\ m \in LinkType /\ m.open = l.open /\ m.stage = l.stage /\ m.asked = l.asked
        /\ m.handling = l.handling /\ m.answers = l.answers \ {r}
    BY DEF LinkType
  <1>2. l # NoLink /\ s \in Running
    BY Links DEF SessionOK, Travelling
  <1>3. r \in Ids /\ R[r] = 0 /\ r \in S
    BY DEF SessionOK, Travelling, LinkType
  <1>5. SessionOK(s, m, S, P \ {r}, C, T)
    <2> HIDE DEF m
    <2> QED
      BY <1>1, <1>2, <1>3 DEF SessionOK, Travelling
  <1> QED
    BY <1>1, <1>5

LEMMA Exited ==
  ASSUME NEW s \in Running, NEW l, NEW S, NEW P, NEW C, NEW R,
         SessionOK(s, l, S, P, C, R)
  PROVE  SessionOK("exited", NoLink, S, P, C, R)
  BY Links DEF SessionOK, Running

(* The connection is lost: what is pending fails, and nothing else is open. *)
LEMMA Lost ==
  ASSUME NEW l \in LinkType, NEW S, NEW P, NEW C, NEW R \in [Ids -> Nat], NEW T \in [Ids -> Nat],
         \A z \in Ids : T[z] = IF z \in P THEN R[z] + 1 ELSE R[z],
         SessionOK("relays", l, S, P, C, R)
  PROVE  SessionOK("recovers", NoLink, S, {}, C, T)
  BY Links DEF SessionOK, Running

LEMMA Relinked ==
  ASSUME NEW l, NEW m \in {NoLink} \cup {Dialled(d, "replaying") : d \in Daemons},
         NEW S, NEW P, NEW C, NEW R,
         SessionOK("recovers", l, S, P, C, R)
  PROVE  SessionOK("recovers", m, S, P, C, R)
  <1>1. m.stage \in {"none", "replaying"} /\ Travelling(m) = {} /\ m.asked = {} /\ m.handling = {}
    BY Links
  <1> QED
    BY <1>1 DEF SessionOK, Running

LEMMA Reattached ==
  ASSUME NEW l \in LinkType, NEW S, NEW P, NEW C, NEW R \in [Ids -> Nat],
         SessionOK("recovers", l, S, P, C, R)
  PROVE  LET m == [l EXCEPT !.stage = "ready"]
         IN m \in LinkType /\ SessionOK("relays", m, S, P, C, R)
  <1> DEFINE m == [l EXCEPT !.stage = "ready"]
  <1>1. /\ m \in LinkType /\ m.open = l.open /\ m.stage = "ready" /\ m.asked = l.asked
        /\ m.handling = l.handling /\ m.answers = l.answers
    BY DEF LinkType
  <1>5. SessionOK("relays", m, S, P, C, R)
    <2> HIDE DEF m
    <2> QED
      BY <1>1 DEF SessionOK, Travelling, Running
  <1> QED
    BY <1>1, <1>5

-----------------------------------------------------------------------------
(* Then the steps themselves: each is of one session, except that a daemon *)
(* cuts all of its connections.                                             *)

Spcs == {"off", "dials", "inprocess", "exited"} \cup Waiting \cup Running

SessionsOK == SessionTypes /\ SessionsInv

LEMMA SessionsBegin == Init => SessionsOK
  <1> SUFFICES ASSUME Init PROVE SessionsOK
    OBVIOUS
  <1>1. SessionTypes
    BY Links DEF Init, SessionTypes
  <1>2. SessionOK("off", NoLink, {}, {}, {}, [r \in Ids |-> 0])
    BY Links DEF SessionOK, Running
  <1> QED
    BY <1>1, <1>2 DEF Init, SessionsOK, SessionsInv

LEMMA Unaltered ==
  ASSUME SessionTypes, NEW c \in Shims
  PROVE  /\ spc = [spc EXCEPT ![c] = spc[c]] /\ link = [link EXCEPT ![c] = link[c]]
         /\ attached = [attached EXCEPT ![c] = (spc[c] = "relays")]
         /\ attached[c] <=> spc[c] = "relays"
         /\ spc[c] \in Spcs /\ link[c] \in LinkType
         /\ sent[c] \in SUBSET Ids /\ pending[c] \in SUBSET Ids
         /\ cancelled[c] \in SUBSET Ids /\ replies[c] \in [Ids -> Nat]
  BY DEF SessionTypes, Spcs

LEMMA SessionChanges ==
  ASSUME SessionsOK, NEW c \in Shims, NEW z \in Spcs, NEW m \in LinkType,
         spc' = [spc EXCEPT ![c] = z], link' = [link EXCEPT ![c] = m],
         attached' = [attached EXCEPT ![c] = (z = "relays")],
         ended' \in [Shims -> BOOLEAN],
         sent' \in [Shims -> SUBSET Ids], pending' \in [Shims -> SUBSET Ids],
         cancelled' \in [Shims -> SUBSET Ids], replies' \in [Shims -> [Ids -> Nat]],
         \A x \in Shims \ {c} : /\ sent'[x] = sent[x] /\ pending'[x] = pending[x]
                                /\ cancelled'[x] = cancelled[x] /\ replies'[x] = replies[x],
         SessionOK(z, m, sent'[c], pending'[c], cancelled'[c], replies'[c])
  PROVE  SessionsOK'
  <1>1. /\ spc' \in [Shims -> Spcs] /\ spc'[c] = z
        /\ \A x \in Shims \ {c} : spc'[x] = spc[x]
    BY DEF SessionsOK, SessionTypes, Spcs
  <1>2. /\ link' \in [Shims -> LinkType] /\ link'[c] = m
        /\ \A x \in Shims \ {c} : link'[x] = link[x]
    BY DEF SessionsOK, SessionTypes
  <1>3. attached' = [x \in Shims |-> spc'[x] = "relays"]
    BY <1>1 DEF SessionsOK, SessionTypes
  <1>4. SessionTypes'
    BY <1>1, <1>2, <1>3 DEF SessionTypes, Spcs
  <1>5. SessionsInv'
    BY <1>1, <1>2 DEF SessionsOK, SessionsInv
  <1> QED
    BY <1>4, <1>5 DEF SessionsOK

(* The client's requests stay as they are.                                  *)
LEMMA LinkChanges ==
  ASSUME SessionsOK, NEW c \in Shims, NEW z \in Spcs, NEW m \in LinkType,
         spc' = [spc EXCEPT ![c] = z], link' = [link EXCEPT ![c] = m],
         attached' = [attached EXCEPT ![c] = (z = "relays")],
         ended' \in [Shims -> BOOLEAN],
         UNCHANGED <<sent, pending, cancelled, replies>>,
         SessionOK(z, m, sent[c], pending[c], cancelled[c], replies[c])
  PROVE  SessionsOK'
  BY SessionChanges DEF SessionsOK, SessionTypes

LEMMA RepliedTo ==
  ASSUME SessionTypes, NEW c \in Shims, NEW ids, Replied(c, ids)
  PROVE  /\ replies' \in [Shims -> [Ids -> Nat]]
         /\ \A x \in Shims \ {c} : replies'[x] = replies[x]
         /\ \A z \in Ids : replies'[c][z] = IF z \in ids THEN replies[c][z] + 1 ELSE replies[c][z]
  <1> DEFINE R == replies[c]
             T == [r \in Ids |-> IF r \in ids THEN R[r] + 1 ELSE R[r]]
  <1>1. R \in [Ids -> Nat] /\ replies \in [Shims -> [Ids -> Nat]]
    BY DEF SessionTypes
  <1>2. T \in [Ids -> Nat]
    BY <1>1
  <1>3. replies' = [replies EXCEPT ![c] = T]
    BY DEF Replied
  <1>4. \A z \in Ids : T[z] = IF z \in ids THEN R[z] + 1 ELSE R[z]
    OBVIOUS
  <1> HIDE DEF T
  <1> QED
    BY <1>1, <1>2, <1>3, <1>4

LEMMA SessionWaits ==
  ASSUME SessionsOK, NEW c \in Shims, ShimStarts(c) \/ WaitStep(c)
  PROVE  SessionsOK'
  <1>0. /\ SessionOK(spc[c], link[c], sent[c], pending[c], cancelled[c], replies[c])
        /\ ended \in [Shims -> BOOLEAN] /\ SessionTypes
    BY DEF SessionsOK, SessionsInv, SessionTypes
  <1>1. CASE ~Dials(c) \/ ~Accepts("main")
    <2>1. PICK z \in Pending : Becomes(c, z) /\ spc[c] \in Pending
                               /\ UNCHANGED <<clientVars, link, attached>>
      BY <1>1 DEF ShimStarts, WaitStep, ReadsMarkers, ProbeAnswered, ProbeFails, Wakes, Dials,
                  Pending, Waiting
    <2>2. z \in Spcs /\ z # "relays" /\ spc[c] # "relays"
      BY <2>1 DEF Pending, Spcs, Waiting
    <2>3. SessionOK(z, link[c], sent[c], pending[c], cancelled[c], replies[c])
      BY <1>0, <2>1, OtherPending
    <2>4. attached' = [attached EXCEPT ![c] = (z = "relays")] /\ link' = [link EXCEPT ![c] = link[c]]
      BY <1>0, <2>1, <2>2, Unaltered
    <2>5. /\ link[c] \in LinkType /\ spc' = [spc EXCEPT ![c] = z]
          /\ ended' \in [Shims -> BOOLEAN] /\ UNCHANGED <<sent, pending, cancelled, replies>>
      BY <1>0, <2>1 DEF Becomes, clientVars, SessionTypes
    <2> QED
      BY <2>2, <2>3, <2>4, <2>5, LinkChanges
  <1>2. CASE Dials(c) /\ Accepts("main")
    <2>1. PICK d \in Daemons : d = path["main"]
      BY <1>2 DEF Accepts
    <2>2. SessionOK("relays", Dialled(d, "fresh"), sent[c], pending[c], cancelled[c], replies[c])
      BY <1>0, <1>2, Unaltered, Connected DEF Dials
    <2>3. /\ spc' = [spc EXCEPT ![c] = "relays"] /\ link' = [link EXCEPT ![c] = Dialled(d, "fresh")]
          /\ attached' = [attached EXCEPT ![c] = TRUE] /\ UNCHANGED clientVars
      BY <1>2, <2>1 DEF Dials, Becomes
    <2>4. Dialled(d, "fresh") \in LinkType /\ "relays" \in Spcs
      BY Links DEF Spcs, Running
    <2>5. attached' = [attached EXCEPT ![c] = ("relays" = "relays")]
      BY <2>3
    <2> QED
      BY <1>0, <2>2, <2>3, <2>4, <2>5, LinkChanges DEF clientVars
  <1> QED
    BY <1>1, <1>2

(* Steps that only change what is on the link.                              *)
LEMMA SessionTravels ==
  ASSUME SessionsOK, NEW c \in Shims, NEW m \in LinkType, Travels(c, m), UNCHANGED clientVars,
         SessionOK(spc[c], m, sent[c], pending[c], cancelled[c], replies[c])
  PROVE  SessionsOK'
  <1>1. SessionTypes /\ ended \in [Shims -> BOOLEAN]
    BY DEF SessionsOK, SessionTypes
  <1> QED
    BY <1>1, Unaltered, LinkChanges DEF Travels, clientVars

LEMMA SessionServed ==
  ASSUME SessionsOK, NEW c \in Shims, ServeStep(c)
  PROVE  SessionsOK'
  <1>0. /\ SessionOK(spc[c], link[c], sent[c], pending[c], cancelled[c], replies[c])
        /\ SessionTypes /\ link[c] \in LinkType /\ replies[c] \in [Ids -> Nat]
    BY DEF SessionsOK, SessionsInv, SessionTypes
  <1>1. ASSUME NEW r \in Ids, Takes(c, r) PROVE SessionsOK'
    BY <1>0, <1>1, Taken, SessionTravels DEF Takes
  <1>2. ASSUME NEW r \in Ids, Answers(c, r) PROVE SessionsOK'
    BY <1>0, <1>2, Answered, SessionTravels DEF Answers
  <1>3. CASE AnswersReplay(c)
    BY <1>0, <1>3, Staged, SessionTravels DEF AnswersReplay
  <1>4. CASE SeesEnd(c)
    <2> DEFINE m == [link[c] EXCEPT !.open = FALSE, !.asked = {}, !.handling = {}]
    <2>1. /\ m \in LinkType /\ ~m.open /\ m.stage = link[c].stage /\ m.asked = {} /\ m.handling = {}
          /\ m.answers = link[c].answers
      BY <1>0 DEF LinkType
    <2>2. link[c].open /\ Travels(c, m) /\ UNCHANGED clientVars
      BY <1>4 DEF SeesEnd
    <2> HIDE DEF m
    <2>3. SessionOK(spc[c], m, sent[c], pending[c], cancelled[c], replies[c])
      BY <1>0, <2>1, <2>2, CutOff
    <2> QED
      BY <2>1, <2>2, <2>3, SessionTravels
  <1> QED
    BY <1>1, <1>2, <1>3, <1>4 DEF ServeStep

LEMMA SessionRelayed ==
  ASSUME SessionsOK, NEW c \in Shims, RelayStep(c) \/ ReplayFails(c)
  PROVE  SessionsOK'
  <1>0. /\ SessionOK(spc[c], link[c], sent[c], pending[c], cancelled[c], replies[c])
        /\ SessionTypes /\ link[c] \in LinkType /\ replies[c] \in [Ids -> Nat]
        /\ ended \in [Shims -> BOOLEAN]
    BY DEF SessionsOK, SessionsInv, SessionTypes
  <1>1. ASSUME NEW r \in Ids, RelaysAnswer(c, r) PROVE SessionsOK'
    <2> DEFINE m == [link[c] EXCEPT !.answers = @ \ {r}]
    <2>1. /\ r \in link[c].answers /\ link' = [link EXCEPT ![c] = m] /\ Replied(c, {r})
          /\ pending' = [pending EXCEPT ![c] = @ \ {r}]
          /\ UNCHANGED <<spc, attached, sent, cancelled, ended>>
      BY <1>1 DEF RelaysAnswer, Travels
    <2>2. /\ pending' \in [Shims -> SUBSET Ids] /\ pending'[c] = pending[c] \ {r}
          /\ \A x \in Shims \ {c} : pending'[x] = pending[x]
      BY <1>0, <2>1 DEF SessionTypes
    <2>3. /\ replies' \in [Shims -> [Ids -> Nat]]
          /\ \A x \in Shims \ {c} : replies'[x] = replies[x]
          /\ \A z \in Ids : replies'[c][z] = IF z = r THEN replies[c][z] + 1 ELSE replies[c][z]
      BY <1>0, <2>1, RepliedTo
    <2>4. replies'[c] \in [Ids -> Nat]
      BY <2>3
    <2>5. m \in LinkType /\ SessionOK(spc[c], m, sent[c], pending[c] \ {r}, cancelled[c], replies'[c])
      <3>1. r \in link[c].answers
        BY <2>1
      <3> QED
        BY ONLY <1>0, <2>3, <2>4, <3>1, Delivered
    <2> HIDE DEF m
    <2>6. spc' = [spc EXCEPT ![c] = spc[c]] /\ spc[c] \in Spcs
          /\ attached' = [attached EXCEPT ![c] = (spc[c] = "relays")]
          /\ sent' \in [Shims -> SUBSET Ids] /\ cancelled' \in [Shims -> SUBSET Ids]
      BY <1>0, <2>1, Unaltered DEF SessionTypes
    <2> QED
      BY <1>0, <2>1, <2>2, <2>3, <2>5, <2>6, SessionChanges
  <1>2. CASE SeesClose(c)
    <2>1. /\ spc[c] = "relays" /\ link' = [link EXCEPT ![c] = NoLink]
          /\ attached' = [attached EXCEPT ![c] = FALSE] /\ UNCHANGED <<sent, cancelled, ended>>
      BY <1>0, <1>2, Unaltered DEF SeesClose, Detaches
    <2>2. NoLink \in LinkType /\ "exited" \in Spcs /\ "recovers" \in Spcs /\ "relays" \in Running
      BY Links DEF Spcs, Running
    <2>3. CASE Becomes(c, "exited") /\ UNCHANGED <<pending, replies>>
      <3>1. SessionOK("exited", NoLink, sent[c], pending[c], cancelled[c], replies[c])
        BY <1>0, <2>1, <2>2, Exited
      <3>2. attached' = [attached EXCEPT ![c] = ("exited" = "relays")]
        BY <2>1
      <3> QED
        BY <1>0, <2>1, <2>2, <2>3, <3>1, <3>2, LinkChanges DEF Becomes
    <2>4. CASE Becomes(c, "recovers") /\ FailsPending(c)
      <3>1. /\ replies' \in [Shims -> [Ids -> Nat]]
            /\ \A x \in Shims \ {c} : replies'[x] = replies[x]
            /\ \A z \in Ids : replies'[c][z] =
                 IF z \in pending[c] THEN replies[c][z] + 1 ELSE replies[c][z]
        BY <1>0, <2>4, RepliedTo DEF FailsPending
      <3>2. replies'[c] \in [Ids -> Nat]
        BY <3>1
      <3>3. /\ pending' \in [Shims -> SUBSET Ids] /\ pending'[c] = {}
            /\ \A x \in Shims \ {c} : pending'[x] = pending[x]
        BY <1>0, <2>4 DEF FailsPending, SessionTypes
      <3>4. SessionOK("recovers", NoLink, sent[c], pending'[c], cancelled[c], replies'[c])
        BY <1>0, <2>1, <3>1, <3>2, <3>3, Lost
      <3>5. /\ attached' = [attached EXCEPT ![c] = ("recovers" = "relays")]
            /\ spc' = [spc EXCEPT ![c] = "recovers"]
            /\ sent' \in [Shims -> SUBSET Ids] /\ cancelled' \in [Shims -> SUBSET Ids]
        BY <1>0, <2>1, <2>4 DEF Becomes, SessionTypes
      <3> QED
        BY <1>0, <2>1, <2>2, <3>1, <3>3, <3>4, <3>5, SessionChanges
    <2> QED
      BY <1>2, <2>3, <2>4 DEF SeesClose
  <1>3. CASE Redials(c)
    <2>1. PICK d \in Daemons : d = path["main"]
      BY <1>3 DEF Redials, Accepts
    <2>2. Dialled(d, "replaying") \in LinkType
      BY Links
    <2>3. SessionOK("recovers", Dialled(d, "replaying"), sent[c], pending[c], cancelled[c], replies[c])
      BY <1>0, <1>3, Relinked DEF Redials
    <2> QED
      BY <1>3, <2>1, <2>2, <2>3, SessionTravels DEF Redials
  <1>4. CASE ReplayFails(c)
    <2>1. SessionOK("recovers", NoLink, sent[c], pending[c], cancelled[c], replies[c])
      BY <1>0, <1>4, Relinked DEF ReplayFails
    <2> QED
      BY <1>4, <2>1, Links, SessionTravels DEF ReplayFails
  <1>5. CASE Reattaches(c)
    <2> DEFINE m == [link[c] EXCEPT !.stage = "ready"]
    <2>1. /\ link' = [link EXCEPT ![c] = m] /\ spc[c] = "recovers"
          /\ spc' = [spc EXCEPT ![c] = "relays"]
          /\ attached' = [attached EXCEPT ![c] = TRUE] /\ UNCHANGED clientVars
      BY <1>0, <1>5 DEF Reattaches, Becomes, SessionTypes
    <2>2. m \in LinkType /\ SessionOK("relays", m, sent[c], pending[c], cancelled[c], replies[c])
      BY <1>0, <2>1, Reattached
    <2>3. attached' = [attached EXCEPT ![c] = ("relays" = "relays")] /\ "relays" \in Spcs
      BY <2>1 DEF Spcs, Running
    <2> HIDE DEF m
    <2> QED
      BY <1>0, <2>1, <2>2, <2>3, LinkChanges DEF clientVars
  <1> QED
    BY <1>1, <1>2, <1>3, <1>4, <1>5 DEF RelayStep

(* A request, which is the handshake or comes after it.                     *)
LEMMA SessionAsked ==
  ASSUME SessionsOK, NEW c \in Shims, spc[c] \in Running, NEW r \in Ids \ sent[c], Relays(c, r),
         r = Hello \/ Initialized(c)
  PROVE  SessionsOK'
  <1>0. /\ SessionOK(spc[c], link[c], sent[c], pending[c], cancelled[c], replies[c])
        /\ SessionTypes /\ link[c] \in LinkType /\ replies[c] \in [Ids -> Nat]
        /\ ended \in [Shims -> BOOLEAN] /\ cancelled \in [Shims -> SUBSET Ids]
        /\ sent[c] \in SUBSET Ids /\ pending[c] \in SUBSET Ids
    BY DEF SessionsOK, SessionsInv, SessionTypes
  <1>1. /\ sent' \in [Shims -> SUBSET Ids] /\ sent'[c] = sent[c] \cup {r}
        /\ \A x \in Shims \ {c} : sent'[x] = sent[x]
    BY <1>0 DEF Relays, SessionTypes
  <1>2. UNCHANGED <<spc, attached, cancelled, ended>>
    BY DEF Relays
  <1>3. /\ spc' = [spc EXCEPT ![c] = spc[c]] /\ spc[c] \in Spcs
        /\ attached' = [attached EXCEPT ![c] = (spc[c] = "relays")]
        /\ attached[c] <=> spc[c] = "relays"
    BY <1>0, <1>2, Unaltered
  <1>4. CASE attached[c]
    <2> DEFINE m == [link[c] EXCEPT !.asked = IF link[c].open THEN @ \cup {r} ELSE @]
    <2>1. link' = [link EXCEPT ![c] = m] /\ UNCHANGED replies
          /\ pending' = [pending EXCEPT ![c] = @ \cup {r}]
      BY <1>0, <1>4 DEF Relays, SessionTypes
    <2>2. /\ pending' \in [Shims -> SUBSET Ids] /\ pending'[c] = pending[c] \cup {r}
          /\ \A x \in Shims \ {c} : pending'[x] = pending[x]
      <3>1. pending \in [Shims -> SUBSET Ids]
        BY <1>0 DEF SessionTypes
      <3> QED
        BY <2>1, <3>1
    <2>3. r = Hello \/ link[c].stage = "ready"
      BY <1>0, <1>3, <1>4 DEF Initialized, SessionOK
    <2>4. m \in LinkType /\ SessionOK(spc[c], m, sent'[c], pending'[c], cancelled[c], replies[c])
      <3>1. SessionOK("relays", link[c], sent[c], pending[c], cancelled[c], replies[c])
            /\ spc[c] = "relays"
        BY <1>0, <1>3, <1>4
      <3>2. /\ m \in LinkType
            /\ SessionOK("relays", m, sent[c] \cup {r}, pending[c] \cup {r}, cancelled[c], replies[c])
        BY ONLY <1>0, <2>3, <3>1, Asked, r \in Ids \ sent[c]
      <3> QED
        BY <1>1, <2>2, <3>1, <3>2
    <2> HIDE DEF m
    <2> QED
      BY <1>0, <1>1, <1>2, <1>3, <2>1, <2>2, <2>4, SessionChanges DEF SessionTypes
  <1>5. CASE ~attached[c]
    <2>1. Replied(c, {r}) /\ UNCHANGED <<pending, link>> /\ spc[c] = "recovers"
      BY <1>3, <1>5 DEF Relays, FailsUnattached, Running
    <2>2. /\ replies' \in [Shims -> [Ids -> Nat]]
          /\ \A x \in Shims \ {c} : replies'[x] = replies[x]
          /\ \A z \in Ids : replies'[c][z] = IF z = r THEN replies[c][z] + 1 ELSE replies[c][z]
      BY <1>0, <2>1, RepliedTo
    <2>3. replies'[c] \in [Ids -> Nat]
      BY <2>2
    <2>4. SessionOK(spc[c], link[c], sent'[c], pending'[c], cancelled[c], replies'[c])
      <3>1. SessionOK("recovers", link[c], sent[c], pending[c], cancelled[c], replies[c])
        BY <1>0, <2>1
      <3>2. SessionOK("recovers", link[c], sent[c] \cup {r}, pending[c], cancelled[c], replies'[c])
        BY ONLY <1>0, <2>2, <2>3, <3>1, AskedInVain, r \in Ids \ sent[c]
      <3> QED
        BY <1>1, <2>1, <3>2
    <2>5. link' = [link EXCEPT ![c] = link[c]] /\ pending \in [Shims -> SUBSET Ids]
      BY <1>0, <2>1, Unaltered DEF SessionTypes
    <2>6. SessionOK(spc[c], link[c], sent'[c], pending'[c], cancelled'[c], replies'[c])
          /\ cancelled' \in [Shims -> SUBSET Ids] /\ ended' \in [Shims -> BOOLEAN]
          /\ pending' \in [Shims -> SUBSET Ids]
      BY <1>0, <1>2, <2>1, <2>4, <2>5
    <2>7. \A x \in Shims \ {c} : /\ sent'[x] = sent[x] /\ pending'[x] = pending[x]
                                 /\ cancelled'[x] = cancelled[x] /\ replies'[x] = replies[x]
      BY <1>1, <1>2, <2>1, <2>2
    <2> QED
      BY ONLY <1>0, <1>1, <1>3, <2>2, <2>5, <2>6, <2>7, SessionChanges, SessionsOK
  <1> QED
    BY <1>4, <1>5

LEMMA SessionEnds ==
  ASSUME SessionsOK, NEW c \in Shims, spc[c] \in Running, Becomes(c, "exited"),
         link' = [link EXCEPT ![c] = NoLink], attached' = [attached EXCEPT ![c] = FALSE],
         ended' \in [Shims -> BOOLEAN], UNCHANGED <<sent, pending, cancelled, replies>>
  PROVE  SessionsOK'
  <1>1. SessionOK(spc[c], link[c], sent[c], pending[c], cancelled[c], replies[c])
    BY DEF SessionsOK, SessionsInv
  <1>2. SessionOK("exited", NoLink, sent[c], pending[c], cancelled[c], replies[c])
    BY <1>1, Exited
  <1>3. attached' = [attached EXCEPT ![c] = ("exited" = "relays")]
    OBVIOUS
  <1>4. "exited" \in Spcs /\ NoLink \in LinkType
    BY Links DEF Spcs
  <1> QED
    BY <1>2, <1>3, <1>4, LinkChanges DEF Becomes

LEMMA SessionOfClient ==
  ASSUME SessionsOK, NEW c \in Shims, ClientStep(c)
  PROVE  SessionsOK'
  <1>0. /\ SessionOK(spc[c], link[c], sent[c], pending[c], cancelled[c], replies[c])
        /\ SessionTypes /\ link[c] \in LinkType /\ replies[c] \in [Ids -> Nat]
        /\ ended \in [Shims -> BOOLEAN]
    BY DEF SessionsOK, SessionsInv, SessionTypes
  <1>1. CASE ClientInitializes(c)
    BY <1>1, SessionAsked DEF ClientInitializes, Ids
  <1>2. CASE ClientInitialized(c)
    <2>1. spc[c] = "relays"
      BY <1>0, <1>2, Unaltered DEF ClientInitialized
    <2> QED
      BY <1>0, <1>2, <2>1, Staged, SessionTravels DEF ClientInitialized
  <1>3. ASSUME NEW r \in Requests, ClientAsks(c, r) PROVE SessionsOK'
    BY <1>3, SessionAsked DEF ClientAsks, Ids
  <1>4. ASSUME NEW r \in Requests, ClientCancels(c, r) PROVE SessionsOK'
    <2>1. UNCHANGED <<spc, link, attached, sent, replies, ended>>
      BY <1>4 DEF ClientCancels, relayVars
    <2>2. /\ pending' \in [Shims -> SUBSET Ids] /\ pending'[c] = pending[c] \ {r}
          /\ cancelled' \in [Shims -> SUBSET Ids] /\ cancelled'[c] = cancelled[c] \cup {r}
          /\ \A x \in Shims \ {c} : pending'[x] = pending[x] /\ cancelled'[x] = cancelled[x]
      BY <1>0, <1>4 DEF ClientCancels, SessionTypes, Ids
    <2>3. SessionOK(spc[c], link[c], sent[c], pending'[c], cancelled'[c], replies[c])
      <3>1. SessionOK(spc[c], link[c], sent[c], pending[c] \ {r}, cancelled[c] \cup {r}, replies[c])
        BY ONLY <1>0, CancelledOK
      <3> QED
        BY <2>2, <3>1
    <2>4. /\ spc' = [spc EXCEPT ![c] = spc[c]] /\ link' = [link EXCEPT ![c] = link[c]]
          /\ attached' = [attached EXCEPT ![c] = (spc[c] = "relays")] /\ spc[c] \in Spcs
          /\ sent' \in [Shims -> SUBSET Ids] /\ replies' \in [Shims -> [Ids -> Nat]]
      BY <1>0, <2>1, Unaltered DEF SessionTypes
    <2>5. SessionOK(spc[c], link[c], sent'[c], pending'[c], cancelled'[c], replies'[c])
          /\ ended' \in [Shims -> BOOLEAN]
      BY <1>0, <2>1, <2>3
    <2>6. \A x \in Shims \ {c} : /\ sent'[x] = sent[x] /\ pending'[x] = pending[x]
                                 /\ cancelled'[x] = cancelled[x] /\ replies'[x] = replies[x]
      BY <2>1, <2>2
    <2> QED
      BY ONLY <1>0, <2>2, <2>4, <2>5, <2>6, SessionChanges, SessionsOK
  <1>5. CASE StdinEnds(c)
    <2>1. ended' \in [Shims -> BOOLEAN] /\ spc[c] \in Running
          /\ UNCHANGED <<sent, pending, cancelled, replies>>
      BY <1>0, <1>5 DEF StdinEnds
    <2>2. CASE attached[c]
      BY <1>0, <1>5, <2>1, <2>2, Unaltered, LinkChanges DEF StdinEnds, relayVars
    <2>3. CASE ~attached[c]
      <3>1. attached' = [attached EXCEPT ![c] = FALSE]
        BY <1>0, <1>5, <2>3 DEF StdinEnds, SessionTypes
      <3> QED
        BY <1>5, <2>1, <2>3, <3>1, SessionEnds DEF StdinEnds
    <2> QED
      BY <2>2, <2>3
  <1>6. CASE ShimKilled(c)
    BY <1>0, <1>6, SessionEnds DEF ShimKilled, Detaches
  <1> QED
    BY <1>1, <1>2, <1>3, <1>4, <1>5, <1>6 DEF ClientStep

LEMMA SessionsCut ==
  ASSUME SessionsOK, NEW d \in Daemons, Disconnects(d), UNCHANGED <<clientVars, spc, attached>>
  PROVE  SessionsOK'
  <1>1. PICK lost \in SUBSET Peers(d) :
          link' = [c \in Shims |->
            IF c \in Peers(d)
            THEN [link[c] EXCEPT !.open = FALSE, !.asked = {}, !.handling = {},
                                 !.answers = IF c \in lost THEN {} ELSE @]
            ELSE link[c]]
    BY DEF Disconnects
  <1>2. ASSUME NEW c \in Shims
        PROVE  /\ link'[c] \in LinkType
               /\ SessionOK(spc[c], link'[c], sent[c], pending[c], cancelled[c], replies[c])
    <2>0. /\ SessionOK(spc[c], link[c], sent[c], pending[c], cancelled[c], replies[c])
          /\ link[c] \in LinkType /\ replies[c] \in [Ids -> Nat]
      BY DEF SessionsOK, SessionsInv, SessionTypes
    <2>1. CASE c \in Peers(d)
      <3> DEFINE m == [link[c] EXCEPT !.open = FALSE, !.asked = {}, !.handling = {},
                                      !.answers = IF c \in lost THEN {} ELSE @]
      <3>1. link'[c] = m
        BY <1>1, <2>1
      <3>2. /\ m \in LinkType /\ ~m.open /\ m.stage = link[c].stage /\ m.asked = {} /\ m.handling = {}
            /\ m.answers \subseteq link[c].answers
        BY <2>0 DEF LinkType
      <3>3. link[c].open
        BY <2>1 DEF Peers
      <3> HIDE DEF m
      <3> QED
        BY <2>0, <3>1, <3>2, <3>3, CutOff
    <2>2. CASE c \notin Peers(d)
      BY <1>1, <2>0, <2>2
    <2> QED
      BY <2>1, <2>2
  <1>3. link' \in [Shims -> LinkType]
    BY <1>1, <1>2
  <1> QED
    BY <1>2, <1>3 DEF SessionsOK, SessionTypes, SessionsInv, clientVars

LEMMA SessionsStep == SessionsOK /\ [Next]_vars => SessionsOK'
  <1> SUFFICES ASSUME SessionsOK, [Next]_vars PROVE SessionsOK'
    OBVIOUS
  <1>1. ASSUME UNCHANGED <<clientVars, relayVars>> PROVE SessionsOK'
    BY <1>1 DEF clientVars, relayVars, SessionsOK, SessionTypes, SessionsInv
  <1>2. ASSUME NEW d \in Daemons, DaemonStep(d) PROVE SessionsOK'
    BY <1>1, <1>2, DaemonsLeaveShims, SessionsCut DEF relayVars
  <1>3. ASSUME NEW c \in Shims, ShimStep(c) PROVE SessionsOK'
    BY <1>3, SessionWaits, SessionServed, SessionRelayed, SessionOfClient DEF ShimStep
  <1>4. CASE Tick \/ UNCHANGED vars
    BY <1>1, <1>4 DEF Tick, vars
  <1> QED
    BY <1>2, <1>3, <1>4, NextSteps

-----------------------------------------------------------------------------
(* A session that was promised to wait.                                     *)

LEMMA WaitsBegin == Init => WaitsInv
  BY DEF Init, WaitsInv

(* Only a bind makes the main socket accept.                                *)
LEMMA NoNewListener ==
  ASSUME SocketsOK, NEW d \in Daemons, DaemonStep(d), ~BindsMain(d), ~Accepts("main")
  PROVE  ~Accepts("main")'
  <1>0. /\ path \in [Sockets -> Daemons \cup {None, Left}] /\ listens \in [Daemons -> SUBSET Sockets]
        /\ None \notin Daemons /\ "main" \in Sockets
    BY LifecycleAssumption DEF SocketsOK, DaemonTypes, Sockets
  <1>1. /\ path'["main"] \in {path["main"], None}
        /\ \A e \in Daemons : "main" \in listens'[e] => "main" \in listens[e]
    <2>1. CASE UNCHANGED <<path, listens>>
      BY <2>1
    <2>2. ASSUME NEW s \in Sockets, Unlinks(d, s)
          PROVE  path' = [path EXCEPT ![s] = None] /\ UNCHANGED listens
      BY <2>2 DEF Unlinks
    <2>3. CASE \E s \in Sockets : Unlinks(d, s)
      BY <1>0, <2>2, <2>3
    <2>4. CASE BindsControl(d)
      <3>1. /\ path' = [path EXCEPT !["control"] = d]
            /\ listens' = [listens EXCEPT ![d] = @ \cup {"control"}]
        BY <2>4 DEF BindsControl, Binds
      <3> QED
        BY <1>0, <3>1
    <2>5. CASE ClosesServers(d)
      BY <1>0, <2>5 DEF ClosesServers
    <2>6. CASE Crashes(d)
      BY <1>0, <2>6 DEF Crashes
    <2>7. CASE Starts(d) \/ Signalled(d) \/ Refreshes(d)
      BY <2>1, <2>7 DEF Starts, Signalled, Refreshes, daemonVars
    <2>8. CASE StopStep(d)
      BY <2>1, <2>5, <2>8 DEF StopStep, StopsListening, DrainEnds, DrainTimesOut, Finishes
    <2>9. CASE StartStep(d)
      BY <2>1, <2>3, <2>4, <2>5, <2>9
      DEF StartStep, Claims, BindFails, ChmodFails, FailsToStart, ConsumesGenerations, ClaimsLegacy,
          SettlesLegacy
    <2> QED
      BY <2>6, <2>7, <2>8, <2>9 DEF DaemonStep
  <1> QED
    BY <1>0, <1>1 DEF Accepts

LEMMA WaitsByDaemons ==
  ASSUME SocketsOK, MarksOK, WaitsInv, NEW d \in Daemons, DaemonStep(d)
  PROVE  WaitsInv'
  <1>1. UNCHANGED <<now, deadline, spc>>
    BY DaemonsLeaveShims
  <1>2. CASE BindsMain(d)
    BY <1>2 DEF BindsMain, WaitsInv
  <1>3. CASE ~BindsMain(d)
    <2>1. UNCHANGED promise
      <3>1. CASE Starts(d) \/ Signalled(d) \/ Refreshes(d) \/ Crashes(d)
        BY <3>1 DEF Starts, Signalled, Refreshes, Crashes, startVars
      <3>2. CASE StartStep(d)
        BY <1>3, <3>2 DEF StartStep, Claims, Unlinks, BindsControl, BindFails, ChmodFails,
                          FailsToStart, ConsumesGenerations, ClaimsLegacy, SettlesLegacy, startVars
      <3>3. CASE StopStep(d)
        BY <3>3 DEF StopStep, StopsListening, DrainEnds, DrainTimesOut, Finishes, startVars
      <3> QED
        BY <3>1, <3>2, <3>3 DEF DaemonStep
    <2> QED
      BY <1>1, <1>3, <2>1, NoNewListener DEF WaitsInv
  <1> QED
    BY <1>2, <1>3

(* The mark that announces the restart is read as long as it is recent, and*)
(* its grace ends before that.                                              *)
LEMMA ReadInTime ==
  ASSUME MarksOK, NEW c \in Shims, promise[c] # None, ReadsMarkers(c)
  PROVE  promise[c] <= deadline'[c] \/ promise[c] <= now
  <1>0. /\ Grace \in Nat /\ MaxAge \in Nat /\ Grace =< MaxAge /\ now \in Nat /\ MaxTick \in Nat
        /\ deadline[c] \in Nat /\ promise[c] \in Nat
    BY LifecycleAssumption DEF MarksOK, MarkerTypes, StartTypes
  <1>1. PICK m \in files : m.at + Grace = promise[c]
    BY DEF MarksOK, MarksInv
  <1>2. m.at \in Nat
    BY <1>0 DEF MarksOK, MarkerTypes, Marker
  <1>3. SUFFICES ASSUME now < promise[c] PROVE promise[c] <= deadline'[c]
    BY <1>0
  <1>4. m \in Recent
    BY <1>0, <1>1, <1>2, <1>3 DEF Recent
  <1>5. CASE \E x \in Recent : x.at + Grace > deadline[c]
    <2> DEFINE newest == CHOOSE t \in {x.at + Grace : x \in Recent} : \A x \in Recent : x.at + Grace =< t
    <2>1. deadline'[c] = newest
      BY <1>5 DEF ReadsMarkers, MarksOK, StartTypes
    <2>2. \A x \in Recent : x.at + Grace =< newest
      BY <1>4, Newest
    <2> HIDE DEF newest
    <2> QED
      BY <1>1, <1>4, <2>1, <2>2
  <1>6. CASE ~\E x \in Recent : x.at + Grace > deadline[c]
    BY <1>0, <1>1, <1>2, <1>4, <1>6 DEF ReadsMarkers, MarksOK, StartTypes
  <1> QED
    BY <1>5, <1>6

LEMMA WaitsByShims ==
  ASSUME MarksOK, SessionsOK, WaitsInv, NEW c \in Shims, ShimStep(c)
  PROVE  WaitsInv'
  <1>0. UNCHANGED <<path, listens, now>> /\ (Accepts("main")' <=> Accepts("main"))
    BY ShimsLeaveDaemons DEF daemonVars, Accepts
  <1>1. /\ spc \in [Shims -> Spcs] /\ deadline \in [Shims -> Nat]
        /\ promise \in [Shims -> Nat \cup {None}]
    BY DEF SessionsOK, SessionTypes, Spcs, MarksOK, StartTypes
  <1>2. CASE ShimStarts(c)
    <2>1. /\ spc'[c] = "reads"
          /\ promise'[c] # None => ~Accepts("main")
          /\ \A x \in Shims \ {c} : /\ spc'[x] = spc[x] /\ promise'[x] = promise[x]
                                    /\ deadline'[x] = deadline[x]
      BY <1>1, <1>2 DEF ShimStarts, Becomes
    <2> QED
      BY <1>0, <2>1 DEF WaitsInv
  <1>3. CASE ReadsMarkers(c)
    <2>1. /\ spc'[c] = "probes" /\ UNCHANGED promise
          /\ \A x \in Shims \ {c} : spc'[x] = spc[x] /\ deadline'[x] = deadline[x]
      BY <1>1, <1>3 DEF ReadsMarkers, Becomes
    <2> QED
      BY <1>0, <1>3, <2>1, ReadInTime DEF WaitsInv
  <1>4. CASE ProbeAnswered(c)
    <2>1. /\ Accepts("main") /\ UNCHANGED startVars
          /\ \A x \in Shims \ {c} : spc'[x] = spc[x]
      BY <1>1, <1>4 DEF ProbeAnswered, Becomes
    <2> QED
      BY <1>0, <2>1 DEF WaitsInv, startVars
  <1>5. CASE ProbeFails(c)
    <2>1. /\ spc[c] = "probes" /\ spc'[c] = "sleeps" /\ UNCHANGED startVars
          /\ \A x \in Shims \ {c} : spc'[x] = spc[x]
      BY <1>1, <1>5 DEF ProbeFails, Becomes
    <2> QED
      BY <1>0, <2>1 DEF WaitsInv, startVars
  <1>6. CASE Wakes(c) \/ Dials(c) \/ ServeStep(c) \/ RelayStep(c) \/ ReplayFails(c) \/ ClientStep(c)
    <2>1. UNCHANGED startVars /\ (UNCHANGED spc \/ \E z \in {"reads", "inprocess", "relays",
                                                           "recovers", "exited"} : Becomes(c, z))
      <3>1. CASE Wakes(c) \/ Dials(c)
        BY <3>1 DEF Wakes, Dials
      <3>2. CASE ServeStep(c) \/ ReplayFails(c)
        BY <3>2 DEF ServeStep, Takes, Answers, AnswersReplay, SeesEnd, ReplayFails, Travels
      <3>3. CASE RelayStep(c)
        BY <3>3 DEF RelayStep, RelaysAnswer, SeesClose, Redials, Reattaches, Travels
      <3>4. CASE ClientStep(c)
        BY <3>4 DEF ClientStep, ClientInitializes, ClientInitialized, ClientAsks, ClientCancels,
                    StdinEnds, ShimKilled, Relays, Travels, relayVars
      <3> QED
        BY <1>6, <3>1, <3>2, <3>3, <3>4
    <2>2. \A x \in Shims : spc'[x] \in {"dials", "probes", "sleeps"} => spc'[x] = spc[x]
      BY <1>1, <2>1 DEF Becomes
    <2> QED
      BY <1>0, <2>1, <2>2 DEF WaitsInv, startVars
  <1> QED
    BY <1>2, <1>3, <1>4, <1>5, <1>6 DEF ShimStep, WaitStep

LEMMA WaitsByTime ==
  ASSUME MarksOK, WaitsInv, Tick \/ UNCHANGED vars
  PROVE  WaitsInv'
  <1>1. UNCHANGED <<path, listens, spc, startVars>> /\ now \in Nat /\ now' \in {now, now + 1}
    BY LifecycleAssumption DEF Tick, vars, daemonVars, relayVars, MarksOK, MarkerTypes
  <1>2. promise \in [Shims -> Nat \cup {None}]
    BY DEF MarksOK, StartTypes
  <1>3. Accepts("main")' <=> Accepts("main")
    BY <1>1 DEF Accepts
  <1>4. \A c \in Shims : promise[c] # None /\ promise[c] <= now => promise[c] <= now'
    BY <1>1, <1>2
  <1> QED
    BY <1>1, <1>3, <1>4 DEF WaitsInv, startVars

LifecycleInv == SocketsOK /\ SessionsOK /\ MarksOK /\ WaitsInv

LEMMA LifecycleStep == LifecycleInv /\ [Next]_vars => LifecycleInv'
  <1> SUFFICES ASSUME LifecycleInv, [Next]_vars PROVE LifecycleInv'
    BY DEF LifecycleInv
  <1>1. SocketsOK' /\ SessionsOK' /\ MarksOK'
    BY SocketsStep, SessionsStep, MarksStep DEF LifecycleInv
  <1>2. WaitsInv'
    BY NextSteps, WaitsByDaemons, WaitsByShims, WaitsByTime DEF LifecycleInv
  <1> QED
    BY <1>1, <1>2 DEF LifecycleInv

LEMMA LifecycleHolds == Spec => []LifecycleInv
  <1>1. Init => LifecycleInv
    BY SocketsBegin, SessionsBegin, MarksBegin, WaitsBegin DEF LifecycleInv
  <1> QED
    BY <1>1, LifecycleStep, PTL DEF Spec

-----------------------------------------------------------------------------
(* Type correctness of daemons, markers and sessions; the relay has a      *)
(* socket just while it relays.                                             *)
THEOREM LifecycleTypes == Spec => []TypeOK
  <1>1. LifecycleInv => TypeOK
    BY DEF LifecycleInv, SocketsOK, SessionsOK, MarksOK, DaemonTypes, MarkerTypes, StartTypes,
           SessionTypes, TypeOK, Pcs, Snap
  <1> QED
    BY <1>1, LifecycleHolds, PTL

(* Every request of every session is answered once at most, is never lost  *)
(* between two daemons, and reaches a server only after the handshake,     *)
(* however daemons crash, restart and overlap.                              *)
THEOREM EveryRequestAccounted == Spec => []RequestsAccounted
  <1>1. LifecycleInv => RequestsAccounted
    <2> SUFFICES ASSUME LifecycleInv, NEW c \in Shims
                 PROVE  /\ \A r \in Ids : replies[c][r] =< 1
                        /\ spc[c] \in Running => \A r \in sent[c] \ cancelled[c] :
                             replies[c][r] = 0 => r \in pending[c] /\ attached[c]
                        /\ link[c].open /\ (link[c].asked \cup link[c].handling) \ {Hello} # {}
                             => link[c].stage = "ready"
      BY DEF RequestsAccounted
    <2>1. SessionOK(spc[c], link[c], sent[c], pending[c], cancelled[c], replies[c])
      BY DEF LifecycleInv, SessionsOK, SessionsInv
    <2>2. sent[c] \subseteq Ids /\ (attached[c] <=> spc[c] = "relays")
      BY DEF LifecycleInv, SessionsOK, SessionTypes
    <2> QED
      BY <2>1, <2>2 DEF SessionOK
  <1> QED
    BY <1>1, LifecycleHolds, PTL

(* A daemon that failed to start, or shut down, leaves no socket file.      *)
THEOREM NothingHalfStarted == Spec => []NoHalfStart
  <1>1. SocketsOK => NoHalfStart
    BY DEF SocketsOK, SocketsInv, NoHalfStart, Quiet, Gone
  <1> QED
    BY <1>1, SocketsHold, PTL

(* A call in flight is cut off only at the drain's deadline.                *)
LEMMA DrainStep ==
  ASSUME LifecycleInv, [Next]_vars
  PROVE  DrainsFirst
  <1> SUFFICES ASSUME NEW c \in Shims, NEW r \in Requests,
                      r \in link[c].handling, r \notin link'[c].handling, r \notin link'[c].answers
               PROVE  \/ ended'[c]
                      \/ dpc[link[c].to] = "overdue" \/ dpc'[link[c].to] = "crashed"
    BY DEF DrainsFirst
  <1>0. /\ SessionOK(spc[c], link[c], sent[c], pending[c], cancelled[c], replies[c])
        /\ link \in [Shims -> LinkType] /\ link[c] \in LinkType /\ SessionTypes
        /\ r \in Travelling(link[c]) /\ r # Hello
    BY LifecycleAssumption
    DEF LifecycleInv, SessionsOK, SessionsInv, SessionTypes, Travelling, LinkType
  <1>1. link[c].open /\ spc[c] = "relays" /\ link[c] # NoLink /\ link[c].stage # "replaying"
    BY <1>0, Links DEF SessionOK, Running
  <1>2. link'[c] # link[c]
    OBVIOUS
  <1>3. ASSUME NEW d \in Daemons, DaemonStep(d)
        PROVE  dpc[link[c].to] = "overdue" \/ dpc'[link[c].to] = "crashed"
    <2>1. Disconnects(d)
      BY <1>2, <1>3, DaemonsLeaveShims
    <2>2. DrainEnds(d) \/ Crashes(d) \/ (ChmodFails(d) /\ ~UNCHANGED relayVars)
      <3>1. link' # link
        BY <1>2
      <3> QED
        BY <1>3, <3>1 DEF DaemonStep, Starts, StartStep, Claims, Unlinks, BindsMain, BindsControl,
             Binds, BindFails, FailsToStart, ConsumesGenerations, ClaimsLegacy, SettlesLegacy,
             Signalled, StopStep, StopsListening, DrainTimesOut, Finishes, Refreshes, relayVars
    <2>3. c \in Peers(d) /\ link[c].to = d
      BY <1>1, <1>2, <2>1 DEF Disconnects, Peers
    <2>4. CASE DrainEnds(d)
      <3>1. r \in InFlight(d)
        BY <1>0, <2>3 DEF InFlight
      <3> QED
        BY <2>3, <2>4, <3>1 DEF DrainEnds
    <2>5. CASE Crashes(d)
      BY <2>3, <2>5 DEF Crashes, Moves, LifecycleInv, SocketsOK, DaemonTypes
    <2>6. CASE ChmodFails(d) /\ ~UNCHANGED relayVars
      BY <2>3, <2>6 DEF ChmodFails
    <2> QED
      BY <2>2, <2>4, <2>5, <2>6
  <1>4. ASSUME NEW x \in Shims, ShimStep(x), x # c
        PROVE  FALSE
    <2>1. link'[c] = link[c]
      <3>1. CASE ShimStarts(x) \/ WaitStep(x)
        BY <1>0, <1>4, <3>1
        DEF ShimStarts, WaitStep, ReadsMarkers, ProbeAnswered, ProbeFails, Wakes, Dials
      <3>2. CASE ServeStep(x) \/ ReplayFails(x)
        BY <1>0, <1>4, <3>2 DEF ServeStep, Takes, Answers, AnswersReplay, SeesEnd, ReplayFails, Travels
      <3>3. CASE RelayStep(x)
        BY <1>0, <1>4, <3>3 DEF RelayStep, RelaysAnswer, SeesClose, Redials, Reattaches, Travels
      <3>4. CASE ClientStep(x)
        BY <1>0, <1>4, <3>4
        DEF ClientStep, ClientInitializes, ClientInitialized, ClientAsks, ClientCancels,
            StdinEnds, ShimKilled, Relays, FailsUnattached, Travels, relayVars
      <3> QED
        BY <1>4, <3>1, <3>2, <3>3, <3>4 DEF ShimStep
    <2> QED
      BY <1>2, <2>1
  <1>5. CASE ShimStep(c)
    <2>1. ~(ShimStarts(c) \/ WaitStep(c))
      BY <1>1, <1>2
      DEF ShimStarts, WaitStep, ReadsMarkers, ProbeAnswered, ProbeFails, Wakes, Dials
    <2>2. CASE ServeStep(c)
      <3>1. ~AnswersReplay(c)
        BY <1>1 DEF AnswersReplay
      <3>2. ASSUME NEW q \in Ids, Takes(c, q) PROVE FALSE
        <4>1. link'[c].handling = link[c].handling \cup {q}
          BY <1>0, <3>2 DEF Takes, Travels, LinkType
        <4> QED
          BY <4>1
      <3>3. ASSUME NEW q \in Ids, Answers(c, q) PROVE FALSE
        <4>1. /\ link'[c].handling = link[c].handling \ {q}
              /\ link'[c].answers = link[c].answers \cup {q}
          BY <1>0, <3>3 DEF Answers, Travels, LinkType
        <4> QED
          BY <4>1
      <3>4. CASE SeesEnd(c)
        BY <3>4 DEF SeesEnd, Travels, clientVars
      <3> QED
        BY <2>2, <3>1, <3>2, <3>3, <3>4 DEF ServeStep
    <2>3. CASE RelayStep(c) \/ ReplayFails(c)
      <3>1. PICK q \in Ids : RelaysAnswer(c, q)
        BY <1>1, <2>3 DEF RelayStep, SeesClose, Redials, Reattaches, ReplayFails
      <3>2. link'[c].handling = link[c].handling
        BY <1>0, <3>1 DEF RelaysAnswer, Travels, LinkType
      <3> QED
        BY <3>2
    <2>4. CASE ClientStep(c)
      <3>1. CASE StdinEnds(c) \/ ShimKilled(c)
        BY <3>1 DEF StdinEnds, ShimKilled, LifecycleInv, SessionsOK, SessionTypes
      <3>2. CASE ClientInitialized(c)
        <4>1. link'[c].handling = link[c].handling
          BY <1>0, <3>2 DEF ClientInitialized, Travels, LinkType
        <4> QED
          BY <4>1
      <3>3. ASSUME NEW q \in Ids, Relays(c, q) PROVE FALSE
        <4>1. link'[c].handling = link[c].handling
          BY <1>0, <3>3 DEF Relays, FailsUnattached, LinkType
        <4> QED
          BY <4>1
      <3>4. ASSUME NEW q \in Requests, ClientCancels(c, q) PROVE FALSE
        BY <1>2, <3>4 DEF ClientCancels, relayVars
      <3> QED
        BY <2>4, <3>1, <3>2, <3>3, <3>4
        DEF ClientStep, ClientInitializes, ClientAsks, Ids
    <2> QED
      BY <1>5, <2>1, <2>2, <2>3, <2>4 DEF ShimStep
  <1>6. CASE Tick \/ UNCHANGED vars
    BY <1>2, <1>6 DEF Tick, vars, relayVars
  <1> QED
    BY <1>3, <1>4, <1>5, <1>6, NextSteps

(* A session is not served in-process before the promise it was given.      *)
LEMMA WaitStepKeeps ==
  ASSUME LifecycleInv, [Next]_vars
  PROVE  WaitsForRestart
  <1> SUFFICES ASSUME NEW c \in Shims, spc[c] # "inprocess", spc'[c] = "inprocess", promise[c] # None
               PROVE  now >= promise[c]
    BY DEF WaitsForRestart
  <1>0. /\ spc \in [Shims -> Spcs] /\ now \in Nat /\ promise[c] \in Nat /\ deadline[c] \in Nat
        /\ attached[c] = (spc[c] = "relays")
    BY LifecycleAssumption
    DEF LifecycleInv, SessionsOK, SessionTypes, Spcs, MarksOK, MarkerTypes, StartTypes
  <1>1. ~\E d \in Daemons : DaemonStep(d)
    BY DaemonsLeaveShims
  <1>2. ~(Tick \/ UNCHANGED vars)
    BY DEF Tick, vars, relayVars
  <1>3. PICK x \in Shims : ShimStep(x)
    BY <1>1, <1>2, NextSteps
  <1>4. PICK z : Becomes(x, z)
    <2>1. ~UNCHANGED spc
      OBVIOUS
    <2>2. CASE ShimStarts(x) \/ WaitStep(x)
      BY <2>2 DEF ShimStarts, WaitStep, ReadsMarkers, ProbeAnswered, ProbeFails, Wakes, Dials
    <2>3. CASE ServeStep(x) \/ ReplayFails(x)
      BY <2>1, <2>3 DEF ServeStep, Takes, Answers, AnswersReplay, SeesEnd, ReplayFails, Travels
    <2>4. CASE RelayStep(x)
      BY <2>1, <2>4 DEF RelayStep, RelaysAnswer, SeesClose, Redials, Reattaches, Travels
    <2>5. CASE ClientStep(x)
      BY <2>1, <2>5
      DEF ClientStep, ClientInitializes, ClientInitialized, ClientAsks, ClientCancels,
          StdinEnds, ShimKilled, Relays, Travels, relayVars
    <2> QED
      BY <1>3, <2>2, <2>3, <2>4, <2>5 DEF ShimStep
  <1>5. x = c
    BY <1>0, <1>4 DEF Becomes
  <1>6. Wakes(c) \/ Dials(c)
    <2>1. CASE ShimStarts(c) \/ WaitStep(c)
      BY <1>0, <2>1 DEF ShimStarts, WaitStep, ReadsMarkers, ProbeAnswered, ProbeFails, Becomes
    <2>2. CASE ServeStep(c) \/ ReplayFails(c)
      BY <2>2 DEF ServeStep, Takes, Answers, AnswersReplay, SeesEnd, ReplayFails, Travels
    <2>3. CASE RelayStep(c)
      BY <1>0, <2>3 DEF RelayStep, RelaysAnswer, SeesClose, Redials, Reattaches, Travels, Becomes
    <2>4. CASE ClientStep(c)
      BY <1>0, <2>4
      DEF ClientStep, ClientInitializes, ClientInitialized, ClientAsks, ClientCancels,
          StdinEnds, ShimKilled, Relays, Travels, relayVars, Becomes
    <2> QED
      BY <1>3, <1>5, <2>1, <2>2, <2>3, <2>4 DEF ShimStep
  <1>7. ~Dials(c)
    BY DEF Dials, LifecycleInv, WaitsInv
  <1>8. spc[c] = "sleeps" /\ ~(now < deadline[c])
    BY <1>0, <1>6, <1>7 DEF Wakes, Becomes
  <1>9. promise[c] <= deadline[c] \/ promise[c] <= now
    BY <1>8 DEF LifecycleInv, WaitsInv
  <1> QED
    BY <1>0, <1>8, <1>9

(* A planned restart is not noticed: calls in flight are drained, and those*)
(* who come meanwhile wait, whatever the daemons do to each other's markers.*)
THEOREM RestartsSmooth == Spec => RestartsAreSmooth
  <1>1. LifecycleInv /\ [Next]_vars => [WaitsForRestart /\ DrainsFirst]_vars
    BY DrainStep, WaitStepKeeps
  <1> QED
    BY <1>1, LifecycleHolds, PTL DEF Spec, RestartsAreSmooth
=============================================================================
