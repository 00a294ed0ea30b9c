------------------------------ MODULE Lifecycle ------------------------------
(* The life of the resident daemon and of the shims that relay to it:      *)
(* socket ownership (src/daemon.js), restart markers (daemon-restart.js),  *)
(* shutdown (cli/serve.js) and the relay with its recovery                 *)
(* (cli/mcp-shim.js).                                                      *)
(*                                                                         *)
(* Every process step between two awaits, and every file operation that    *)
(* another process can overtake, is an action.  A tick is the shim's       *)
(* start-up deadline; the clock runs only while a shim is starting.        *)
EXTENDS Naturals, FiniteSets

CONSTANTS
  None,
  Left,           \* the maker of the socket files there at first, or None
  Daemons,        \* processes that run kb serve, each once
  Supervised,     \* a service manager starts one daemon at a time
  Shims,
  Requests,       \* the ids a client asks after its handshake
  Hello,          \* the id of the client's initialize request
  Ready, Grace, MaxAge,                 \* the deadlines and a marker's age
  MaxTick, MaxMarks, MaxCrashes         \* bounds

ASSUME LifecycleAssumption ==
  /\ Supervised \in BOOLEAN
  /\ {Ready, Grace, MaxAge, MaxTick, MaxMarks, MaxCrashes} \subseteq Nat
  /\ Ready =< Grace /\ Grace =< MaxAge
  /\ Hello \notin Requests
  /\ None \notin Daemons \cup Nat /\ Left \notin Daemons

Ids == Requests \cup {Hello}

Sockets == {"main", "control"}

VARIABLES
  dpc,        \* what each daemon process is doing
  path,       \* the daemon whose bind made the socket file, Left or None
  listens,    \* the sockets each daemon accepts on
  files,      \* restart markers: the immutable generation files
  legacy,     \* the marker at the fixed path, or None
  snap,       \* what each daemon saw of the markers before it started
  marks,      \* generations written so far
  crashes,
  now,
  spc,        \* what each shim is doing
  deadline,   \* until when a starting shim waits for the daemon
  link,       \* each shim's connection, and what travels on it
  attached,   \* the relay's socket is this connection (socket # null)
  ended,      \* the client closed its end
  sent,       \* requests the client has made
  pending,    \* the relay's pending set
  cancelled,
  replies,    \* answers the client got to each request
  restart,    \* ghost: the last mark of a restart not yet replaced, or None
  promise     \* ghost: until when the shim should wait, or None

daemonVars == <<dpc, path, listens, crashes>>
markerVars == <<files, legacy, snap, marks, restart>>
startVars == <<deadline, promise>>
clientVars == <<sent, pending, cancelled, replies, ended>>
relayVars == <<spc, link, attached>>
vars == <<daemonVars, markerVars, now, startVars, clientVars, relayVars>>

NoLink == [to |-> None, open |-> FALSE, stage |-> "none",
           asked |-> {}, handling |-> {}, answers |-> {}]

(* A fresh connection: bytes written, nothing answered.                    *)
Dialled(d, stage) == [NoLink EXCEPT !.to = d, !.open = TRUE, !.stage = stage]

Marker == [gen : 1..MaxMarks, at : 0..MaxTick]

NoSnap == [files |-> {}, legacy |-> None, taken |-> None]

Init ==
  /\ dpc = [d \in Daemons |-> "off"]
  /\ path = [s \in Sockets |-> Left]
  /\ listens = [d \in Daemons |-> {}]
  /\ files = {} /\ legacy = None /\ marks = 0
  /\ snap = [d \in Daemons |-> NoSnap]
  /\ crashes = 0 /\ now = 0
  /\ spc = [c \in Shims |-> "off"]
  /\ deadline = [c \in Shims |-> 0]
  /\ link = [c \in Shims |-> NoLink]
  /\ attached = [c \in Shims |-> FALSE]
  /\ ended = [c \in Shims |-> FALSE]
  /\ sent = [c \in Shims |-> {}]
  /\ pending = [c \in Shims |-> {}]
  /\ cancelled = [c \in Shims |-> {}]
  /\ replies = [c \in Shims |-> [r \in Ids |-> 0]]
  /\ restart = None
  /\ promise = [c \in Shims |-> None]
-----------------------------------------------------------------------------
(* A daemon starts: kb serve, startReplacementDaemon, startDaemon.         *)

Claiming == [main |-> "claim_main", control |-> "claim_control"]
Unlinking == [main |-> "unlink_main", control |-> "unlink_control"]
Claimed == [main |-> "claim_control", control |-> "bind_main"]

Gone == {"off", "failed", "closed", "crashed"}

Moves(d, to) == dpc' = [dpc EXCEPT ![d] = to]

(* A connect to the socket's path succeeds.                                *)
Accepts(s) == path[s] \in Daemons /\ s \in listens[path[s]]

(* The markers are read before the sockets are claimed.                    *)
Starts(d) ==
  /\ dpc[d] = "off"
  /\ Supervised => \A e \in Daemons : dpc[e] \in Gone
  /\ Moves(d, "claim_main")
  /\ snap' = [snap EXCEPT ![d] = [NoSnap EXCEPT !.files = files, !.legacy = legacy]]
  /\ UNCHANGED <<path, listens, crashes, files, legacy, marks, restart, now,
                 startVars, clientVars, relayVars>>

(* A socket that is live, or that the probe cannot tell about (something   *)
(* else at the path, an error, a timeout), refuses the start; a dead one   *)
(* is to be unlinked, in a step of its own: the probe was awaited.         *)
Claims(d, s) ==
  /\ dpc[d] = Claiming[s]
  /\ \/ Moves(d, "failed")
     \/ ~Accepts(s) /\ Moves(d, IF path[s] = None THEN Claimed[s] ELSE Unlinking[s])
  /\ UNCHANGED <<path, listens, crashes, markerVars, now, startVars,
                 clientVars, relayVars>>

(* unlinkSync removes whatever file is there by now, or throws.            *)
Unlinks(d, s) ==
  /\ dpc[d] = Unlinking[s]
  /\ Moves(d, IF path[s] = None THEN "failed" ELSE Claimed[s])
  /\ path' = [path EXCEPT ![s] = None]
  /\ UNCHANGED <<listens, crashes, markerVars, now, startVars, clientVars,
                 relayVars>>

(* bind fails with EADDRINUSE when a file is there.                        *)
Binds(d, s) ==
  /\ path[s] = None
  /\ path' = [path EXCEPT ![s] = d]
  /\ listens' = [listens EXCEPT ![d] = @ \cup {s}]
  /\ UNCHANGED <<crashes, files, legacy, snap, marks, now, deadline,
                 clientVars, relayVars>>

BindsMain(d) ==
  /\ dpc[d] = "bind_main" /\ Moves(d, "bind_control") /\ Binds(d, "main")
  /\ restart' = None /\ promise' = [c \in Shims |-> None]

BindsControl(d) ==
  /\ dpc[d] = "bind_control" /\ Moves(d, "consume") /\ Binds(d, "control")
  /\ UNCHANGED <<restart, promise>>

(* Closing a server stops its listening and unlinks its path, by name.     *)
ClosesServers(d) ==
  /\ path' = [s \in Sockets |-> IF s \in listens[d] THEN None ELSE path[s]]
  /\ listens' = [listens EXCEPT ![d] = {}]

\* Mutant: the first socket is kept when the second cannot be had.
BindFailsHalfway(d) ==
  /\ dpc[d] = "bind_control" /\ path["control"] # None
  /\ Moves(d, "lingers")
  /\ UNCHANGED <<path, listens, crashes, markerVars, now, startVars, clientVars,
                 relayVars>>

BindFails(d) ==
  /\ \/ /\ dpc[d] = "bind_main" /\ path["main"] # None
        /\ Moves(d, "failed")
        /\ UNCHANGED <<path, listens>>
     \/ /\ dpc[d] = "bind_control" /\ path["control"] # None
        /\ Moves(d, "lingers")
        /\ ClosesServers(d)
  /\ UNCHANGED <<crashes, markerVars, now, startVars, clientVars, relayVars>>

Peers(d) == {c \in Shims : link[c].to = d /\ link[c].open}

(* The daemon's end of its connections goes away.  What was written may    *)
(* still be read, or be lost with the writer's buffer.                     *)
Disconnects(d) ==
  \E lost \in SUBSET Peers(d) :
    link' = [c \in Shims |->
      IF c \in Peers(d)
      THEN [link[c] EXCEPT !.open = FALSE, !.asked = {}, !.handling = {},
                           !.answers = IF c \in lost THEN {} ELSE @]
      ELSE link[c]]

(* chmod, by name, after the bind: another daemon took the new file for a  *)
(* dead one and has unlinked it.  The first socket's failure ends the      *)
(* process, in the turn of the bind: it has taken no request.  After the   *)
(* second's, the first is closed in good order.                            *)
ChmodFails(d) ==
  /\ \/ /\ dpc[d] = "bind_control" /\ path["main"] = None
        /\ \A c \in Peers(d) : link[c].handling = {}
        /\ Moves(d, "failed")
        /\ Disconnects(d) /\ UNCHANGED <<spc, attached>>
     \/ /\ dpc[d] = "consume" /\ path["control"] = None
        /\ Moves(d, "lingers")
        /\ UNCHANGED relayVars
  /\ ClosesServers(d)
  /\ UNCHANGED <<crashes, markerVars, now, startVars, clientVars>>

(* server.close() calls back when the connections it accepted have ended.  *)
FailsToStart(d) ==
  /\ dpc[d] = "lingers" /\ Peers(d) = {}
  /\ Moves(d, "failed")
  /\ UNCHANGED <<path, listens, crashes, markerVars, now, startVars,
                 clientVars, relayVars>>

(* Up: the markers read before the start are removed, and no others.       *)
ConsumesGenerations(d) ==
  /\ dpc[d] = "consume"
  /\ files' = files \ snap[d].files
  /\ Moves(d, IF snap[d].legacy = None THEN "up" ELSE "claim_legacy")
  /\ UNCHANGED <<path, listens, crashes, legacy, snap, marks, restart, now,
                 startVars, clientVars, relayVars>>

(* The marker at the fixed path is renamed away, and compared; another     *)
(* generation is put back unless a newer one has taken the path.           *)
ClaimsLegacy(d) ==
  /\ dpc[d] = "claim_legacy"
  /\ Moves(d, IF legacy = None THEN "up" ELSE "settle_legacy")
  /\ snap' = [snap EXCEPT ![d].taken = legacy]
  /\ legacy' = None
  /\ UNCHANGED <<path, listens, crashes, files, marks, restart, now,
                 startVars, clientVars, relayVars>>

SettlesLegacy(d) ==
  /\ dpc[d] = "settle_legacy"
  /\ Moves(d, "up")
  /\ legacy' = IF legacy = None /\ snap[d].taken # snap[d].legacy
               THEN snap[d].taken ELSE legacy
  /\ UNCHANGED <<path, listens, crashes, files, snap, marks, restart, now,
                 startVars, clientVars, relayVars>>
-----------------------------------------------------------------------------
(* A daemon shuts down: registerServeShutdown, close.                      *)

Served(d) == {c \in Shims : link[c].to = d}

(* The calls the shutdown drain waits for: the handshake is not tracked.   *)
InFlight(d) == UNION {link[c].handling \ {Hello} : c \in Peers(d)}

(* markDaemonRestart: one generation file, then its mirror.  A failed      *)
(* write leaves the restart unmarked.                                      *)
Marks ==
  \/ /\ marks < MaxMarks
     /\ LET m == [gen |-> marks + 1, at |-> now]
        IN files' = files \cup {m} /\ legacy' = m
     /\ marks' = marks + 1
     /\ UNCHANGED snap
  \/ UNCHANGED <<files, legacy, snap, marks>>

(* A mark announces a restart until another daemon listens.                *)
Announces(d) ==
  restart' = IF marks' # marks /\ (path["main"] = d \/ ~Accepts("main"))
             THEN now ELSE restart

Signalled(d) ==
  /\ dpc[d] = "up"
  /\ Moves(d, "signalled")
  /\ Marks /\ Announces(d)
  /\ UNCHANGED <<path, listens, crashes, now, startVars, clientVars, relayVars>>

StopsListening(d) ==
  /\ dpc[d] = "signalled"
  /\ Moves(d, "draining")
  /\ ClosesServers(d)
  /\ UNCHANGED <<crashes, markerVars, now, startVars, clientVars, relayVars>>

(* The timer marks the restart again while the drain lasts.                *)
Refreshes(d) ==
  /\ dpc[d] \in {"draining", "overdue"}
  /\ marks < MaxMarks /\ Marks /\ Announces(d)
  /\ UNCHANGED <<daemonVars, now, startVars, clientVars, relayVars>>

\* Mutant: the shutdown does not ask for the calls in flight.
DrainEndsAtOnce(d) ==
  /\ dpc[d] = "draining"
  /\ Moves(d, "finishing")
  /\ Disconnects(d)
  /\ UNCHANGED <<path, listens, crashes, markerVars, now, startVars,
                 clientVars, spc, attached>>

DrainEnds(d) ==
  /\ \/ dpc[d] = "draining" /\ InFlight(d) = {}
     \/ dpc[d] = "overdue"
  /\ Moves(d, "finishing")
  /\ Disconnects(d)
  /\ UNCHANGED <<path, listens, crashes, markerVars, now, startVars,
                 clientVars, spc, attached>>

(* The drain's deadline: what is still in flight will be cut off.          *)
DrainTimesOut(d) ==
  /\ dpc[d] = "draining" /\ InFlight(d) # {}
  /\ Moves(d, "overdue")
  /\ UNCHANGED <<path, listens, crashes, markerVars, now, startVars,
                 clientVars, relayVars>>

(* The restart is marked once more, and the process ends.                  *)
Finishes(d) ==
  /\ dpc[d] = "finishing"
  /\ Moves(d, "closed")
  /\ Marks /\ Announces(d)
  /\ UNCHANGED <<path, listens, crashes, now, startVars, clientVars, relayVars>>

(* A killed daemon leaves its socket files behind.                         *)
Crashes(d) ==
  /\ dpc[d] \notin Gone /\ crashes < MaxCrashes
  /\ crashes' = crashes + 1
  /\ Moves(d, "crashed")
  /\ listens' = [listens EXCEPT ![d] = {}]
  /\ Disconnects(d)
  /\ UNCHANGED <<path, markerVars, now, startVars, clientVars, spc, attached>>
-----------------------------------------------------------------------------
(* A shim starts: waitForDaemonReady, runMcpShimCli.                       *)

Waiting == {"reads", "probes", "sleeps"}

Becomes(c, to) == spc' = [spc EXCEPT ![c] = to]

ShimStarts(c) ==
  /\ spc[c] = "off"
  /\ Becomes(c, "reads")
  /\ deadline' = [deadline EXCEPT ![c] = now + Ready]
  /\ promise' = [promise EXCEPT ![c] =
                   IF restart = None \/ Accepts("main") THEN None
                   ELSE restart + Grace]
  /\ UNCHANGED <<daemonVars, markerVars, now, clientVars, link, attached>>

Recent == {m \in files \cup ({legacy} \ {None}) : now - m.at =< MaxAge}

(* The newest recent marker moves the deadline out, never in.              *)
ReadsMarkers(c) ==
  /\ spc[c] = "reads"
  /\ Becomes(c, "probes")
  /\ deadline' = [deadline EXCEPT ![c] =
       IF \E m \in Recent : m.at + Grace > @
       THEN CHOOSE t \in {m.at + Grace : m \in Recent} :
              \A m \in Recent : m.at + Grace =< t
       ELSE @]
  /\ UNCHANGED <<daemonVars, markerVars, now, promise, clientVars, link,
                 attached>>

(* Only a daemon that answers is alive.                                    *)
ProbeAnswered(c) ==
  /\ spc[c] = "probes" /\ Accepts("main")
  /\ Becomes(c, "dials")
  /\ UNCHANGED <<daemonVars, markerVars, now, startVars, clientVars, link,
                 attached>>

(* No daemon, or a busy one.                                               *)
ProbeFails(c) ==
  /\ spc[c] = "probes"
  /\ Becomes(c, "sleeps")
  /\ UNCHANGED <<daemonVars, markerVars, now, startVars, clientVars, link,
                 attached>>

(* Again until the deadline, then the session is served in-process.        *)
Wakes(c) ==
  /\ spc[c] = "sleeps"
  /\ Becomes(c, IF now < deadline[c] THEN "reads" ELSE "inprocess")
  /\ UNCHANGED <<daemonVars, markerVars, now, startVars, clientVars, link,
                 attached>>

(* The session's own connection; the daemon may have died since the probe. *)
Dials(c) ==
  /\ spc[c] = "dials"
  /\ IF Accepts("main")
     THEN /\ Becomes(c, "relays")
          /\ link' = [link EXCEPT ![c] = Dialled(path["main"], "fresh")]
          /\ attached' = [attached EXCEPT ![c] = TRUE]
     ELSE Becomes(c, "inprocess") /\ UNCHANGED <<link, attached>>
  /\ UNCHANGED <<daemonVars, markerVars, now, startVars, clientVars>>

Tick ==
  /\ now < MaxTick /\ \E c \in Shims : spc[c] \in Waiting
  /\ now' = now + 1
  /\ UNCHANGED <<daemonVars, markerVars, startVars, clientVars, relayVars>>
-----------------------------------------------------------------------------
(* The daemon serves a connection (serveStdio and the tool handlers).      *)

Travels(c, l) ==
  /\ link' = [link EXCEPT ![c] = l]
  /\ UNCHANGED <<daemonVars, markerVars, now, startVars, spc, attached>>

Takes(c, r) ==
  /\ link[c].open /\ r \in link[c].asked
  /\ Travels(c, [link[c] EXCEPT !.asked = @ \ {r}, !.handling = @ \cup {r}])
  /\ UNCHANGED clientVars

Answers(c, r) ==
  /\ link[c].open /\ r \in link[c].handling
  /\ Travels(c, [link[c] EXCEPT !.handling = @ \ {r}, !.answers = @ \cup {r}])
  /\ UNCHANGED clientVars

(* The answer to the handshake a recovering shim replayed.                 *)
AnswersReplay(c) ==
  /\ link[c].open /\ link[c].stage = "replaying"
  /\ Travels(c, [link[c] EXCEPT !.stage = "replayed"])
  /\ UNCHANGED clientVars

(* The client is gone: the transport closes and the connection ends.       *)
SeesEnd(c) ==
  /\ link[c].open /\ ended[c]
  /\ Travels(c, [link[c] EXCEPT !.open = FALSE, !.asked = {}, !.handling = {}])
  /\ UNCHANGED clientVars
-----------------------------------------------------------------------------
(* The relay: relayThroughDaemon.                                          *)

Running == {"relays", "recovers"}

Replied(c, ids) ==
  replies' = [replies EXCEPT ![c] =
               [r \in Ids |-> IF r \in ids THEN @[r] + 1 ELSE @[r]]]

FailsUnattached(c, r) == Replied(c, {r}) /\ UNCHANGED <<pending, link>>

(* fromClient: a request goes to the daemon and into pending, or fails at  *)
(* once while there is no socket.                                          *)
Relays(c, r) ==
  /\ sent' = [sent EXCEPT ![c] = @ \cup {r}]
  /\ IF attached[c]
     THEN /\ pending' = [pending EXCEPT ![c] = @ \cup {r}]
          /\ link' = [link EXCEPT ![c].asked =
                        IF link[c].open THEN @ \cup {r} ELSE @]
          /\ UNCHANGED replies
     ELSE FailsUnattached(c, r)
  /\ UNCHANGED <<daemonVars, markerVars, now, startVars, spc, attached,
                 cancelled, ended>>

ClientInitializes(c) ==
  spc[c] \in Running /\ ~ended[c] /\ Hello \notin sent[c] /\ Relays(c, Hello)

(* The client's notification completes the handshake the shim keeps.       *)
ClientInitialized(c) ==
  /\ attached[c] /\ ~ended[c]
  /\ replies[c][Hello] > 0 /\ link[c].stage = "fresh"
  /\ Travels(c, [link[c] EXCEPT !.stage = "ready"])
  /\ UNCHANGED clientVars

(* handshake?.initialized: once set it outlives every connection.          *)
Initialized(c) == replies[c][Hello] > 0 /\ link[c].stage # "fresh"

ClientAsks(c, r) ==
  /\ spc[c] \in Running /\ ~ended[c]
  /\ r \in Requests \ sent[c] /\ Initialized(c)
  /\ Relays(c, r)

ClientCancels(c, r) ==
  /\ spc[c] \in Running /\ ~ended[c] /\ r \in pending[c] \ {Hello}
  /\ pending' = [pending EXCEPT ![c] = @ \ {r}]
  /\ cancelled' = [cancelled EXCEPT ![c] = @ \cup {r}]
  /\ UNCHANGED <<daemonVars, markerVars, now, startVars, relayVars, sent,
                 replies, ended>>

(* fromDaemon.                                                             *)
RelaysAnswer(c, r) ==
  /\ attached[c] /\ r \in link[c].answers
  /\ Travels(c, [link[c] EXCEPT !.answers = @ \ {r}])
  /\ pending' = [pending EXCEPT ![c] = @ \ {r}]
  /\ Replied(c, {r})
  /\ UNCHANGED <<sent, cancelled, ended>>

\* Mutant: the failed requests stay pending.
FailsPendingKept(c) == Replied(c, pending[c]) /\ UNCHANGED pending

FailsPending(c) ==
  Replied(c, pending[c]) /\ pending' = [pending EXCEPT ![c] = {}]

Detaches(c) == [attached EXCEPT ![c] = FALSE]

(* The close handler: the client is gone, or the session cannot be carried *)
(* over, or every pending request fails once and recovery begins.          *)
SeesClose(c) ==
  /\ attached[c] /\ ~link[c].open /\ link[c].answers = {}
  /\ link' = [link EXCEPT ![c] = NoLink]
  /\ attached' = Detaches(c)
  /\ IF ended[c] \/ ~Initialized(c)
     THEN Becomes(c, "exited") /\ UNCHANGED <<pending, replies>>
     ELSE Becomes(c, "recovers") /\ FailsPending(c)
  /\ UNCHANGED <<daemonVars, markerVars, now, startVars, sent, cancelled,
                 ended>>

(* recover: connect, replay the handshake, attach.                         *)
Redials(c) ==
  /\ spc[c] = "recovers" /\ link[c] = NoLink /\ Accepts("main")
  /\ Travels(c, Dialled(path["main"], "replaying"))
  /\ UNCHANGED clientVars

\* Mutant: the failed connection is not forgotten.
ReplayFailsStuck(c) ==
  /\ spc[c] = "recovers" /\ link[c].stage = "replaying"
  /\ Travels(c, [link[c] EXCEPT !.stage = "none"])
  /\ UNCHANGED clientVars

ReplayFails(c) ==
  /\ spc[c] = "recovers" /\ link[c].stage = "replaying"
  /\ Travels(c, NoLink)
  /\ UNCHANGED clientVars

Reattaches(c) ==
  /\ spc[c] = "recovers" /\ link[c].stage = "replayed"
  /\ link' = [link EXCEPT ![c].stage = "ready"]
  /\ attached' = [attached EXCEPT ![c] = TRUE]
  /\ Becomes(c, "relays")
  /\ UNCHANGED <<daemonVars, markerVars, now, startVars, clientVars>>

(* stdin ends: the socket is half-closed, or there is nothing to wait for. *)
StdinEnds(c) ==
  /\ spc[c] \in Running /\ ~ended[c]
  /\ ended' = [ended EXCEPT ![c] = TRUE]
  /\ IF attached[c]
     THEN UNCHANGED relayVars
     ELSE /\ Becomes(c, "exited")
          /\ link' = [link EXCEPT ![c] = NoLink]
          /\ UNCHANGED attached
  /\ UNCHANGED <<daemonVars, markerVars, now, startVars, sent, pending,
                 cancelled, replies>>

(* A signal destroys the socket and exits.                                 *)
ShimKilled(c) ==
  /\ spc[c] \in Running /\ ~ended[c]
  /\ ended' = [ended EXCEPT ![c] = TRUE]
  /\ Becomes(c, "exited")
  /\ link' = [link EXCEPT ![c] = NoLink]
  /\ attached' = Detaches(c)
  /\ UNCHANGED <<daemonVars, markerVars, now, startVars, sent, pending,
                 cancelled, replies>>
-----------------------------------------------------------------------------
StartStep(d) ==
  \/ \E s \in Sockets : Claims(d, s) \/ Unlinks(d, s)
  \/ BindsMain(d) \/ BindsControl(d) \/ BindFails(d) \/ ChmodFails(d)
  \/ FailsToStart(d) \/ ConsumesGenerations(d) \/ ClaimsLegacy(d) \/ SettlesLegacy(d)

StopStep(d) ==
  StopsListening(d) \/ DrainEnds(d) \/ DrainTimesOut(d) \/ Finishes(d)

ServeStep(c) ==
  \/ \E r \in Ids : Takes(c, r) \/ Answers(c, r)
  \/ AnswersReplay(c) \/ SeesEnd(c)

WaitStep(c) ==
  ReadsMarkers(c) \/ ProbeAnswered(c) \/ ProbeFails(c) \/ Wakes(c) \/ Dials(c)

RelayStep(c) ==
  \/ \E r \in Ids : RelaysAnswer(c, r)
  \/ SeesClose(c) \/ Redials(c) \/ Reattaches(c)

ClientStep(c) ==
  \/ ClientInitializes(c) \/ ClientInitialized(c)
  \/ \E r \in Requests : ClientAsks(c, r) \/ ClientCancels(c, r)
  \/ StdinEnds(c) \/ ShimKilled(c)

Next ==
  \/ \E d \in Daemons : Starts(d) \/ StartStep(d) \/ Signalled(d)
                        \/ StopStep(d) \/ Refreshes(d) \/ Crashes(d)
  \/ \E c \in Shims : ShimStarts(c) \/ WaitStep(c) \/ ServeStep(c)
                      \/ RelayStep(c) \/ ReplayFails(c) \/ ClientStep(c)
  \/ Tick

Spec == Init /\ [][Next]_vars

(* A process that runs takes its next step; a tool call ends (it has its   *)
(* own timeout); a daemon that stays up answers one of the replays before  *)
(* its timeout.  Signals, crashes, new daemons, clients and replays that   *)
(* fail are under no fairness.                                             *)
FairSpec ==
  /\ Spec
  /\ \A d \in Daemons : WF_vars(StartStep(d)) /\ WF_vars(StopStep(d))
  /\ \A c \in Shims :
       /\ WF_vars(ServeStep(c))
       /\ WF_vars(\E r \in Ids : RelaysAnswer(c, r))
       /\ WF_vars(SeesClose(c)) /\ SF_vars(Redials(c))
       /\ SF_vars(AnswersReplay(c)) /\ SF_vars(Reattaches(c))
-----------------------------------------------------------------------------
LinkType ==
  [to : Daemons \cup {None}, open : BOOLEAN,
   stage : {"none", "fresh", "ready", "replaying", "replayed"},
   asked : SUBSET Ids, handling : SUBSET Ids, answers : SUBSET Ids]

MaybeMarker == Marker \cup {None}

(* The type invariant; the relay has a socket just while it relays.        *)
TypeOK ==
  /\ dpc \in [Daemons -> Gone \cup
       {"claim_main", "unlink_main", "claim_control", "unlink_control",
        "bind_main", "bind_control", "lingers", "consume", "claim_legacy",
        "settle_legacy", "up", "signalled", "draining", "overdue", "finishing"}]
  /\ path \in [Sockets -> Daemons \cup {None, Left}]
  /\ listens \in [Daemons -> SUBSET Sockets]
  /\ files \subseteq Marker /\ legacy \in MaybeMarker
  /\ snap \in [Daemons -> [files : SUBSET Marker, legacy : MaybeMarker,
                           taken : MaybeMarker]]
  /\ marks \in 0..MaxMarks /\ crashes \in 0..MaxCrashes /\ now \in 0..MaxTick
  /\ spc \in [Shims -> {"off", "dials", "inprocess", "exited"}
                       \cup Waiting \cup Running]
  /\ deadline \in [Shims -> Nat]
  /\ link \in [Shims -> LinkType]
  /\ attached = [c \in Shims |-> spc[c] = "relays"] /\ ended \in [Shims -> BOOLEAN]
  /\ sent \in [Shims -> SUBSET Ids] /\ pending \in [Shims -> SUBSET Ids]
  /\ cancelled \in [Shims -> SUBSET Ids]
  /\ replies \in [Shims -> [Ids -> Nat]]
  /\ restart \in Nat \cup {None} /\ promise \in [Shims -> Nat \cup {None}]

(* No request falls between two daemons, and none is answered twice: one   *)
(* that has no answer yet is in pending and waits on the attached socket,  *)
(* so the daemon answers it, or the shim that lost it does.  A server      *)
(* instance is handed it only after the handshake, the client's own or the *)
(* one that a recovery replays.                                            *)
RequestsAccounted ==
  \A c \in Shims :
    /\ \A r \in Ids : replies[c][r] =< 1
    /\ spc[c] \in Running => \A r \in sent[c] \ cancelled[c] :
         replies[c][r] = 0 => r \in pending[c] /\ attached[c]
    /\ link[c].open /\ (link[c].asked \cup link[c].handling) \ {Hello} # {}
         => link[c].stage = "ready"

(* A daemon that gave up or shut down leaves no socket file of its own,    *)
(* and one that did not get its second socket does not keep the first.     *)
NoHalfStart ==
  \A d \in Daemons : \A s \in Sockets :
    dpc[d] \in {"failed", "closed", "lingers"} => path[s] # d

(* A session that starts while a planned restart leaves nothing listening  *)
(* is not served in-process before the restart is over or its grace has    *)
(* run out, whichever daemon wrote, mirrored or removed markers meanwhile. *)
WaitsForRestart ==
  \A c \in Shims :
    spc[c] # "inprocess" /\ spc'[c] = "inprocess" /\ promise[c] # None => now >= promise[c]

(* A shutdown cuts off a call in flight only at the drain's deadline.      *)
DrainsFirst ==
  \A c \in Shims : \A r \in Requests :
    r \in link[c].handling /\ r \notin link'[c].handling /\ r \notin link'[c].answers
      => \/ ended'[c]
         \/ dpc[link[c].to] = "overdue" \/ dpc'[link[c].to] = "crashed"

(* A planned restart is not noticed: by those that are served when it      *)
(* comes, nor by those that come meanwhile.                                *)
RestartsAreSmooth == [][WaitsForRestart /\ DrainsFirst]_vars

(* The requests of a client that stays are settled in the end: answered,   *)
(* failed for a retry, or cancelled.                                       *)
Unsettled(c) ==
  IF spc[c] = "exited" THEN {} ELSE {r \in sent[c] \ cancelled[c] : replies[c][r] = 0}

(* With a daemon that stays up, a session that lost its connection gets it *)
(* back, or its client leaves.                                             *)
Recovers(c) ==
  <>[](Accepts("main") /\ \A d \in Daemons : dpc[d] \in Gone \cup {"up"})
    => []<>(spc[c] # "recovers")

(* Every client is served, whatever crashes, restarts and fails on the way.*)
ClientsAreServed == \A c \in Shims : []<>(Unsettled(c) = {}) /\ Recovers(c)

(* The socket a daemon accepts on is the one at its path.  (daemon.js:162:  *)
(* "so no process owns this file".)                                        *)
PathsAreOwned ==
  \A d \in Daemons : \A s \in listens[d] : path[s] = d
=============================================================================
