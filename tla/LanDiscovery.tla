---------------------------- MODULE LanDiscovery ----------------------------
(***************************************************************************)
(* LAN discovery of the Linux desktop runtime: DiscoveryResources and its  *)
(* handlers in linux/src/runtime/supervisor.rs, the services of            *)
(* linux/src/network/service.rs and the discovery half of                  *)
(* linux/src/app/snapshot.rs.                                              *)
(*                                                                         *)
(* One generation is one attempt to have the listener and the mDNS browser *)
(* up.  A start task brings the services up, workers inside them report    *)
(* through the service queue, a failure schedules a retry task, and the    *)
(* user may restart or stop everything at any time.  Aborted tasks and     *)
(* services that shut down go on for a while next to their successors.     *)
(*                                                                         *)
(* The sessions built on top are in PeerMesh, the media slot in MediaSlot. *)
(***************************************************************************)
EXTENDS Naturals, Sequences

CONSTANTS
  Peers,       \* advertised peers
  RetryLimit,  \* DISCOVERY_RETRY_LIMIT
  QueueCap,    \* EVENT_CAPACITY, of both queues
  MaxGen       \* bound: no user command or service failure from this generation on

ASSUME DiscoveryAssumption ==
  /\ RetryLimit \in Nat /\ QueueCap \in Nat \ {0} /\ MaxGen \in Nat

VARIABLES
  pc,        \* "select", or where stop_lan waits: "offJoin", "offMesh"
  state,     \* AppSnapshot::discovery
  localId,   \* local_peer_id: the generation whose services gave it, 0 if None
  found,     \* the rows whose discovery is Found
  gen,       \* DiscoveryResources::generation
  start, retry,  \* handles: the generation of the task, 0 if None
  attempts,  \* retry_budget
  services,  \* the generation of the current services, 0 if None
  registry,  \* the known peers; {} also stands for None
  retiring,  \* services handed to retiring_services
  tasks,     \* start and retry tasks that run
  aborted,   \* start and retry tasks that run on after abort
  workers,   \* workers of activated services
  open,      \* generations whose listener and browser are open
  origins, cleanup,
  opq, svcq  \* operation and service queue

rowVars    == <<state, localId, found>>
handleVars == <<gen, start, retry, attempts, services, registry>>
taskVars   == <<retiring, tasks, aborted, workers, open>>
vars == <<pc, rowVars, handleVars, taskVars, origins, cleanup, opq, svcq>>

Active == {"Scanning", "Ready", "Empty"}
States == Active \cup {"Idle", "Error"}
Task(k, g) == [kind |-> k, gen |-> g]
Started(g, ok) == [type |-> "ServicesStarted", gen |-> g, ok |-> ok]
Restart(g)     == [type |-> "RestartDiscovery", gen |-> g]
Report(t, g, p) == [type |-> t, gen |-> g, peer |-> p]

TaskSet     == [kind : {"start", "retry"}, gen : Nat]
WorkerSet   == [kind : {"browse", "scan", "listen"}, gen : Nat]
Operations  == [type : {"ServicesStarted"}, gen : Nat, ok : BOOLEAN]
          \cup [type : {"RestartDiscovery"}, gen : Nat]
Reports     == [type : {"Found", "Lost"}, gen : Nat, peer : Peers]
          \cup [type : {"ScanFinished", "DiscoveryStopped", "ListenerStopped"}, gen : Nat,
                peer : {"none"}]

Queued(q)    == {q[i] : i \in 1 .. Len(q)}
Room(q)      == Len(q) < QueueCap

\* The handlers' guard against results of an earlier generation, with the
\* defective variant that the mutation runs put in its place.
AnyGeneration(e) == TRUE
Current(e)       == e.gen = gen

-----------------------------------------------------------------------------
(* Shared parts of the handlers.                                           *)

Held == {Task("start", start), Task("retry", retry)}

\* cancel_current, and the task that the caller spawns next.
CancelCurrent(launched) ==
  /\ gen' = gen + 1
  /\ aborted' = aborted \cup (tasks \cap Held)
  /\ tasks' = (tasks \ Held) \cup launched
  /\ retiring' = retiring \cup ({services} \ {0})
  /\ services' = 0 /\ registry' = {}

\* stop, then launch_services, of a user command.
Relaunch ==
  /\ CancelCurrent({Task("start", gen + 1)})
  /\ start' = gen + 1 /\ retry' = 0
  /\ attempts' = 0
  /\ localId' = 0 /\ origins' = TRUE
  /\ state' = "Scanning"
  /\ UNCHANGED <<pc, workers, open, cleanup, opq, svcq>>

StartDiscovery ==
  /\ pc = "select" /\ gen < MaxGen
  /\ state \notin Active
  /\ Relaunch
  /\ UNCHANGED found

RetryDiscovery ==
  /\ pc = "select" /\ gen < MaxGen
  /\ Relaunch
  /\ found' = {}

\* Steps of recovery.  Defective variant: the admission is not revoked.
BudgetLeft == attempts < RetryLimit
ForgetRows == found' = {}
AdmissionKept   == UNCHANGED localId
RevokeAdmission == localId' = 0

\* recover_discovery, of a failed start or a service that stopped.
Recover ==
  /\ RevokeAdmission /\ ForgetRows /\ start' = 0
  /\ IF BudgetLeft
     THEN /\ CancelCurrent({Task("retry", gen + 1)})
          /\ attempts' = attempts + 1 /\ retry' = gen + 1 /\ state' = "Scanning"
     ELSE /\ CancelCurrent({})
          /\ retry' = 0 /\ state' = "Error" /\ UNCHANGED attempts

-----------------------------------------------------------------------------
(* Operation queue.                                                        *)

TakeOperation(type) ==
  /\ pc = "select" /\ opq # <<>> /\ Head(opq).type = type
  /\ opq' = Tail(opq) /\ UNCHANGED <<pc, svcq>>

\* Defective variant: services that come too late are dropped from sight.
LateLeft(e) == UNCHANGED <<open, cleanup>>
LateShutDown(e) ==
  IF e.ok
  THEN open' = open \ {e.gen} /\ \E fails \in BOOLEAN : cleanup' = (cleanup \/ fails)
  ELSE UNCHANGED <<open, cleanup>>

OnServicesStarted ==
  /\ TakeOperation("ServicesStarted")
  /\ LET e == Head(opq) IN
     CASE ~(Current(e) /\ state \in Active) ->
            /\ LateShutDown(e)
            /\ UNCHANGED <<rowVars, handleVars, retiring, tasks, aborted, workers>>
       [] Current(e) /\ state \in Active /\ e.ok ->
            /\ start' = 0
            /\ localId' = e.gen /\ services' = e.gen /\ registry' = {}
            /\ workers' = workers \cup [kind : {"browse", "scan", "listen"}, gen : {e.gen}]
            /\ UNCHANGED <<state, found, gen, retry, attempts, retiring, tasks, aborted,
                           open, cleanup>>
       [] OTHER -> Recover /\ UNCHANGED <<workers, open, cleanup>>
  /\ UNCHANGED origins

OnRestartDiscovery ==
  /\ TakeOperation("RestartDiscovery")
  /\ IF Current(Head(opq)) /\ state \in Active
     THEN /\ retry' = 0 /\ start' = gen
          /\ tasks' = tasks \cup {Task("start", gen)}
          /\ localId' = 0 /\ origins' = TRUE
     ELSE UNCHANGED <<retry, start, tasks, localId, origins>>
  /\ UNCHANGED <<state, found, gen, attempts, services, registry, retiring, aborted,
                 workers, open, cleanup>>

(* Service queue (handle_service_event).                                   *)

TakeReport(types) ==
  /\ pc = "select" /\ svcq # <<>> /\ Head(svcq).type \in types
  /\ svcq' = Tail(svcq) /\ UNCHANGED <<pc, opq, origins, cleanup, workers, open>>

OnStaleReport ==
  /\ TakeReport({"Found", "Lost", "ScanFinished", "DiscoveryStopped", "ListenerStopped"})
  /\ ~Current(Head(svcq))
  /\ UNCHANGED <<rowVars, handleVars, retiring, tasks, aborted>>

OnFound ==
  /\ TakeReport({"Found"}) /\ Current(Head(svcq))
  /\ IF services # 0   \* the registry exists exactly while services do
     THEN /\ registry' = registry \cup {Head(svcq).peer}
          /\ found' = found \cup {Head(svcq).peer}
          /\ state' = IF state \in Active THEN "Ready" ELSE state
     ELSE UNCHANGED <<registry, found, state>>
  /\ UNCHANGED <<localId, gen, start, retry, attempts, services, retiring, tasks, aborted>>

OnLost ==
  /\ TakeReport({"Lost"}) /\ Current(Head(svcq))
  /\ IF Head(svcq).peer \in registry
     THEN /\ registry' = registry \ {Head(svcq).peer}
          /\ found' = found \ {Head(svcq).peer}
          /\ state' = IF state \in Active /\ found' = {} THEN "Empty" ELSE state
     ELSE UNCHANGED <<registry, found, state>>
  /\ UNCHANGED <<localId, gen, start, retry, attempts, services, retiring, tasks, aborted>>

\* Defective variant: an empty scan goes on scanning.
ScanUntilFound == IF found = {} THEN "Scanning" ELSE "Ready"
AfterScan      == IF found = {} THEN "Empty" ELSE "Ready"

OnScanFinished ==
  /\ TakeReport({"ScanFinished"}) /\ Current(Head(svcq))
  /\ attempts' = 0
  /\ state' = IF state = "Scanning" THEN AfterScan ELSE state
  /\ UNCHANGED <<localId, found, gen, start, retry, services, registry, retiring, tasks,
                 aborted>>

OnServiceStopped ==
  /\ TakeReport({"DiscoveryStopped", "ListenerStopped"}) /\ Current(Head(svcq))
  /\ Recover

HandleOperation == OnServicesStarted \/ OnRestartDiscovery
HandleService   == OnStaleReport \/ OnFound \/ OnLost \/ OnScanFinished \/ OnServiceStopped

-----------------------------------------------------------------------------
(* stop_lan, cut at its awaits.                                            *)

StopLan ==
  /\ pc = "select" /\ gen < MaxGen
  /\ gen' = gen + 1 /\ localId' = 0
  /\ aborted' = aborted \cup (tasks \cap Held) /\ tasks' = tasks \ Held
  /\ start' = 0 /\ retry' = 0
  /\ retiring' = retiring \cup ({services} \ {0}) /\ services' = 0
  /\ pc' = "offJoin"
  /\ UNCHANGED <<state, found, attempts, registry, workers, open, origins, cleanup,
                 opq, svcq>>

AllJoined         == aborted = {} /\ retiring = {}

StopLanJoined ==
  /\ pc = "offJoin" /\ AllJoined
  /\ registry' = {} /\ attempts' = 0
  /\ pc' = "offMesh"
  /\ UNCHANGED <<rowVars, gen, start, retry, services, taskVars, origins, cleanup,
                 opq, svcq>>

\* A failure recorded before this Off is reported by it as well.
AnyFailure(failed) == cleanup \/ failed

\* View, publication, sessions and announcements are joined; both queues are
\* drained and services found in them are shut down.
StopLanDrain(failed) ==
  /\ pc = "offMesh"
  /\ open' = open \ {e.gen : e \in {o \in Queued(opq) : o.type = "ServicesStarted" /\ o.ok}}
  /\ opq' = <<>> /\ svcq' = <<>>
  /\ origins' = FALSE /\ found' = {} /\ localId' = 0
  /\ state' = IF AnyFailure(failed) THEN "Error" ELSE "Idle"
  /\ cleanup' = FALSE
  /\ pc' = "select"
  /\ UNCHANGED <<handleVars, retiring, tasks, aborted, workers>>

-----------------------------------------------------------------------------
(* Tasks.                                                                  *)

\* A task makes its one report when there is room for it; one that is being
\* aborted may still get it out.
Outcomes(t) == IF t.kind = "start" THEN {Started(t.gen, TRUE), Started(t.gen, FALSE)}
               ELSE {Restart(t.gen)}

TaskReports(t) ==
  /\ t \in tasks \cup aborted /\ Room(opq)
  /\ \E e \in Outcomes(t) :
       /\ opq' = Append(opq, e)
       /\ open' = IF e.type = "ServicesStarted" /\ e.ok THEN open \cup {e.gen} ELSE open
  /\ tasks' = tasks \ {t} /\ aborted' = aborted \ {t}
  /\ UNCHANGED <<pc, rowVars, handleVars, retiring, workers, origins, cleanup, svcq>>

AbortTakesEffect(t) ==
  /\ t \in aborted
  /\ aborted' = aborted \ {t}
  /\ UNCHANGED <<pc, rowVars, handleVars, retiring, tasks, workers, open, origins,
                 cleanup, opq, svcq>>

\* Defective variant: shutdown waits for workers that wait for the queue.
ShutDownNeedsRoom(g) ==
  /\ g \in retiring /\ (Room(svcq) \/ pc = "select")
  /\ retiring' = retiring \ {g} /\ open' = open \ {g}
  /\ workers' = {w \in workers : w.gen # g}
  /\ cleanup' = cleanup
  /\ UNCHANGED <<pc, rowVars, handleVars, tasks, aborted, origins, opq, svcq>>

\* Services::shutdown: its workers are joined, a blocked one included.  The
\* result is collected between two handlers or by stop_lan.
ShutDown(g) ==
  /\ g \in retiring
  /\ retiring' = retiring \ {g} /\ open' = open \ {g}
  /\ workers' = {w \in workers : w.gen # g}
  /\ \E fails \in BOOLEAN : cleanup' = (cleanup \/ fails)
  /\ UNCHANGED <<pc, rowVars, handleVars, tasks, aborted, origins, opq, svcq>>

Reported(e) ==
  /\ Room(svcq) /\ svcq' = Append(svcq, e)
  /\ UNCHANGED <<pc, rowVars, handleVars, retiring, tasks, aborted, open, origins,
                 cleanup, opq>>

\* run_discovery: what the browser yields, and its end.
BrowseReports(g) ==
  /\ [kind |-> "browse", gen |-> g] \in workers
  /\ \E p \in Peers, t \in {"Found", "Lost"} : Reported(Report(t, g, p))
  /\ UNCHANGED workers

WorkerStops(w, type) ==
  /\ w \in workers /\ gen < MaxGen
  /\ Reported(Report(type, w.gen, "none"))
  /\ workers' = workers \ {w}

BrowseStops(g) == WorkerStops([kind |-> "browse", gen |-> g], "DiscoveryStopped")
ListenStops(g) == WorkerStops([kind |-> "listen", gen |-> g], "ListenerStopped")

ScanWindowEnds(g) ==
  /\ [kind |-> "scan", gen |-> g] \in workers
  /\ Reported(Report("ScanFinished", g, "none"))
  /\ workers' = workers \ {[kind |-> "scan", gen |-> g]}

-----------------------------------------------------------------------------
\* The startup command is queued before the loop starts; nothing runs yet.
Init ==
  /\ pc = "select" /\ state = "Idle" /\ localId = 0 /\ found = {}
  /\ gen = 0 /\ start = 0 /\ retry = 0 /\ attempts = 0 /\ services = 0 /\ registry = {}
  /\ retiring = {} /\ tasks = {} /\ aborted = {} /\ workers = {} /\ open = {}
  /\ origins = FALSE /\ cleanup = FALSE /\ opq = <<>> /\ svcq = <<>>

Working == {w.gen : w \in workers}

TaskStep ==
  \/ (\E t \in tasks \cup aborted : TaskReports(t))
  \/ (\E t \in aborted : AbortTakesEffect(t))
  \/ (\E g \in retiring : ShutDown(g))

WorkerStep ==
  \E g \in Working : BrowseReports(g) \/ BrowseStops(g) \/ ListenStops(g) \/ ScanWindowEnds(g)

Off == StopLanJoined \/ (\E f \in BOOLEAN : StopLanDrain(f))

Next ==
  \/ StartDiscovery \/ RetryDiscovery \/ StopLan \/ Off
  \/ HandleOperation \/ HandleService \/ TaskStep \/ WorkerStep

\* The loop serves both queues, Off goes on once its joins return, aborts and
\* shutdowns take effect.  tokio grants room in arrival order (SF), so a start,
\* a backoff and the scan window end in their report.  The user and the
\* network owe nothing.
Fairness ==
  /\ WF_vars(HandleOperation) /\ SF_vars(HandleService) /\ WF_vars(Off)
  /\ SF_vars(\E t \in tasks : TaskReports(t))
  /\ WF_vars(\E t \in aborted : AbortTakesEffect(t))
  /\ WF_vars(\E g \in retiring : ShutDown(g))
  /\ SF_vars(ScanWindowEnds(services))

Spec == Init /\ [][Next]_vars /\ Fairness

-----------------------------------------------------------------------------
(* Properties.                                                             *)

\* Every variable keeps its type.
TypeOK ==
  /\ pc \in {"select", "offJoin", "offMesh"}
  /\ state \in States /\ localId \in Nat /\ found \in SUBSET Peers
  /\ gen \in Nat /\ start \in Nat /\ retry \in Nat /\ attempts \in 0 .. RetryLimit
  /\ services \in Nat /\ registry \in SUBSET Peers
  /\ retiring \in SUBSET Nat /\ tasks \in SUBSET TaskSet /\ aborted \in SUBSET TaskSet
  /\ workers \in SUBSET WorkerSet /\ open \in SUBSET Nat
  /\ origins \in BOOLEAN /\ cleanup \in BOOLEAN
  /\ opq \in Seq(Operations) /\ svcq \in Seq(Reports)

\* While discovery shows an active state exactly one thing drives it on: a
\* start or its result, a retry or its wake-up, or live services.  Nothing
\* drives it in Idle and Error.
Drivers ==
  {t \in tasks : t.gen = gen} \cup {e \in Queued(opq) : e.gen = gen}
    \cup (IF services = 0 THEN {} ELSE {Task("services", services)})
ActiveHasOneDriver ==
  pc = "select" =>
    IF state \in Active THEN \E d \in Drivers : Drivers = {d} ELSE Drivers = {}

\* Media is admitted only on the services that are up now: the local id is
\* theirs, of the current generation, and their sockets are open.
ReadyOnLiveServicesOnly ==
  localId # 0 =>
    /\ localId = gen /\ services = gen /\ services \in open
    /\ state \in Active /\ origins

\* Nothing runs on unowned: a task that was not aborted is one that an abort
\* would reach, and an open listener has someone who will close it.
RunningPartsAreOwned ==
  /\ tasks \subseteq Held
  /\ open \subseteq {services} \cup retiring
                 \cup {e.gen : e \in {o \in Queued(opq) : o.type = "ServicesStarted" /\ o.ok}}

\* After Off nothing of the LAN is left that could act or report.
OffIsQuiet ==
  ~origins =>
    /\ tasks = {} /\ aborted = {} /\ workers = {} /\ retiring = {} /\ open = {}
    /\ opq = <<>> /\ svcq = <<>> /\ attempts = 0 /\ start = 0 /\ retry = 0

\* Through starts that were cancelled, retries and Off, well typed, everything
\* that runs or listens has one owner, and what Off joined stays gone.
OwnedAndQuiet == TypeOK /\ RunningPartsAreOwned /\ OffIsQuiet

\* User Off stays off, and exhausted recovery stays stopped: no late result,
\* timer or report reopens the LAN, only a command does.
OnlyTheUserReopens ==
  [][state \notin Active /\ state' \in Active => StartDiscovery \/ RetryDiscovery]_state

\* A scan comes to a result: peers, none, or an error after the last retry.
ScanSettles == state = "Scanning" ~> state # "Scanning"

\* Off comes to its end, whatever the tasks it joins are blocked on.
OffCompletes == pc # "select" ~> pc = "select"
=============================================================================
