--------------------------- MODULE WindowsSessions ---------------------------
(***************************************************************************)
(* Direct sessions of the Windows app (windows/src/session, registry.rs,   *)
(* and the device rows of windows/src/runtime.rs).                         *)
(*                                                                         *)
(* Per peer there are three records that must not drift apart: the device  *)
(* row the user sees, the transport state with its generation, and the     *)
(* outbound connection with the task that observes it.  Observers, inbound *)
(* sessions and the listener report through one bounded queue; the runtime *)
(* loop takes one report or one advertisement at a time.  There is no      *)
(* retry: the next advertisement of a peer dials again.                    *)
(***************************************************************************)
EXTENDS Naturals, Sequences, FiniteSets

CONSTANTS
  Peers,     \* the other devices
  Dials,     \* those that should_dial lets this device dial
  Inbounds,  \* bound: inbound sessions in a run
  QueueCap,  \* EVENT_CAPACITY
  MaxGen     \* bound: transport generations of a peer

SessionsAssumption ==
  /\ Dials \subseteq Peers /\ IsFiniteSet(Inbounds)
  /\ QueueCap \in Nat \ {0} /\ MaxGen \in Nat

VARIABLES
  phase,     \* of the services: running, stopping, closed
  adv,       \* PeerRegistry: the peers that advertise
  row,       \* RuntimeSnapshot::peers
  screens,   \* RuntimeSnapshot::remote_screens, by peer
  state,     \* PeerStates: generation, 0 for no state, and TransportPhase
  out,       \* Outbound: the observer task, its generation, its deadline passed
  inbound,   \* inbound session tasks
  count,     \* inbound_sessions
  listener,  \* the listener task: accepting, stopped on its own, done
  queue

vars == <<phase, adv, row, screens, state, out, inbound, count, listener, queue>>

Phases    == {"Waiting", "Connecting", "Connected", "Failed", "Disconnected"}
Observing == {"none", "dialing", "up", "live", "down", "failed", "done"}
Tasks     == {"idle", "accepting", "up", "live", "down", "refused", "done"}

NoRow   == [present |-> FALSE, gen |-> 0, phase |-> "Waiting", screen |-> "none"]
NoState == [gen |-> 0, phase |-> "Waiting"]
NoOut   == [task |-> "none", gen |-> 0, late |-> FALSE]

Running   == phase = "running"
Room      == Len(queue) < QueueCap
Queued(e) == \E i \in 1..Len(queue) : queue[i] = e
Report(p, gen, to)  == [from |-> "outbound", peer |-> p, gen |-> gen, phase |-> to]
InboundReport(i, to) == [from |-> "inbound", id |-> i, phase |-> to]
ListenerStopped      == [from |-> "listener"]

Told    == {"Connected", "Failed", "Disconnected"}
Reports == [from : {"outbound"}, peer : Peers, gen : Nat, phase : Told]
           \cup [from : {"inbound"}, id : Inbounds, phase : Told] \cup {ListenerStopped}

-----------------------------------------------------------------------------
(* Rows.                                                                   *)

Visible(r) == \/ r.present \/ r.screen = "Available"
              \/ r.phase \in {"Connecting", "Connected"}

\* prune_inactive_peer: the row goes with the screens of the peer.
PutRow(p, r) ==
  /\ row' = [row EXCEPT ![p] = IF Visible(r) THEN r ELSE NoRow]
  /\ screens' = IF Visible(r) THEN screens ELSE [screens EXCEPT ![p] = "none"]

NotOlder(r, gen)   == gen >= r.gen

\* apply_transport
Applied(r, gen, to) ==
  IF r # NoRow /\ NotOlder(r, gen) THEN [r EXCEPT !.gen = gen, !.phase = to] ELSE r

Upserted(p) ==
  IF p \in adv THEN row[p]     \* RegistryChange::Unchanged
  ELSE [row[p] EXCEPT !.present = TRUE, !.screen = screens[p]]

-----------------------------------------------------------------------------
(* Advertisements and dials.                                               *)

MayConnect(p) ==
  p \in Dials /\ Upserted(p).phase \in {"Waiting", "Connecting", "Failed", "Disconnected"}

\* begin_auto_connect
Begun(p) ==
  LET r == Upserted(p) IN
  IF r.phase = "Connecting" THEN r ELSE [r EXCEPT !.gen = r.gen + 1, !.phase = "Connecting"]

\* Connection::connected, of the library: a closed or aborted one is not.
LinkUp(p) == out[p].task \in {"up", "live"}

Kept(p, fresh) ==
  /\ out[p].task # "none"
  /\ \/ LinkUp(p) \/ state[p].phase = "Connected"
     \/ state[p].phase = "Connecting" /\ ~(fresh /\ ~out[p].late)

\* What the observer had to say when it was aborted; it may still get through.
Unsent(p) ==
  CASE out[p].task = "up"     -> {Report(p, out[p].gen, "Connected")}
    [] out[p].task = "down"   -> {Report(p, out[p].gen, "Disconnected")}
    [] out[p].task = "failed" -> {Report(p, out[p].gen, "Failed")}
    [] OTHER -> {}

ObserverAborted(p) ==
  \/ UNCHANGED queue
  \/ \E e \in Unsent(p) : Room /\ queue' = Append(queue, e)

Found(p) == Running /\ adv' = adv \cup {p}
            /\ UNCHANGED <<phase, inbound, count, listener>>

\* Nothing to dial; disconnect finds no state of a peer that is not dialled.
FoundOnly(p) ==
  /\ Found(p) /\ ~MayConnect(p)
  /\ row' = [row EXCEPT ![p] = Upserted(p)]
  /\ UNCHANGED <<screens, state, out, queue>>

FoundKept(p, fresh) ==
  /\ Found(p) /\ MayConnect(p) /\ Kept(p, fresh)
  /\ PutRow(p, Applied(Begun(p), state[p].gen, state[p].phase))
  /\ UNCHANGED <<state, out, queue>>

\* connect_record: the old connection is stopped and joined, a new one dialled,
\* with what is left of the deadline if this only refreshes its addresses.
FoundDialed(p, fresh, ok) ==
  /\ Found(p) /\ MayConnect(p) /\ ~Kept(p, fresh)
  /\ state[p].gen < MaxGen
  /\ ObserverAborted(p)
  /\ LET gen == state[p].gen + 1 IN
       IF ok THEN
         /\ state' = [state EXCEPT ![p] = [gen |-> gen, phase |-> "Connecting"]]
         /\ out' = [out EXCEPT ![p] = [task |-> "dialing", gen |-> gen, late |-> FALSE]]
         /\ PutRow(p, Applied(Begun(p), gen, "Connecting"))
       ELSE
         /\ state' = [state EXCEPT ![p] = [gen |-> gen, phase |-> "Failed"]]
         /\ out' = [out EXCEPT ![p] = NoOut]
         /\ PutRow(p, [Begun(p) EXCEPT !.phase = "Failed"])

Lost(p) ==
  /\ Running /\ p \in adv
  /\ adv' = adv \ {p}
  /\ PutRow(p, [row[p] EXCEPT !.present = FALSE])
  /\ UNCHANGED <<phase, state, out, inbound, count, listener, queue>>

\* update_remote_screen
RemoteScreen(p, to) ==
  /\ Running /\ screens[p] # to
  /\ LET r == [row[p] EXCEPT !.screen = to] IN
     IF row[p] = NoRow /\ to = "Withdrawn"
     THEN screens' = [screens EXCEPT ![p] = to] /\ UNCHANGED row
     ELSE /\ row' = [row EXCEPT ![p] = IF Visible(r) THEN r ELSE NoRow]
          /\ screens' = [screens EXCEPT ![p] = IF Visible(r) THEN to ELSE "none"]
  /\ UNCHANGED <<phase, adv, state, out, inbound, count, listener, queue>>

-----------------------------------------------------------------------------
(* The observer task of an outbound connection.                            *)

Observes(p, from, to) ==
  /\ out[p].task = from /\ out' = [out EXCEPT ![p].task = to]
  /\ UNCHANGED <<phase, adv, row, screens, state, inbound, count, listener>>

Establishes(p) == ~out[p].late /\ Observes(p, "dialing", "up") /\ UNCHANGED queue
SetupFails(p)  == Observes(p, "dialing", "failed") /\ UNCHANGED queue
Closes(p)      == Observes(p, "live", "down") /\ UNCHANGED queue

NoDeadline(p) == FALSE
Deadline(p)   == out[p].task = "dialing"

DeadlinePasses(p) ==
  /\ Deadline(p) /\ out' = [out EXCEPT ![p].late = TRUE, ![p].task = "failed"]
  /\ UNCHANGED <<phase, adv, row, screens, state, inbound, count, listener, queue>>

ObserverReports(p) ==
  /\ Room
  /\ \/ Observes(p, "up", "live") /\ queue' = Append(queue, Report(p, out[p].gen, "Connected"))
     \/ Observes(p, "down", "done") /\ queue' = Append(queue, Report(p, out[p].gen, "Disconnected"))
     \/ Observes(p, "failed", "done") /\ queue' = Append(queue, Report(p, out[p].gen, "Failed"))

-----------------------------------------------------------------------------
(* The listener and its inbound sessions.                                  *)

Serves(i, from, to) ==
  /\ inbound[i] = from /\ inbound' = [inbound EXCEPT ![i] = to]
  /\ UNCHANGED <<phase, adv, row, screens, state, out, count, listener>>

Accepts(i)    == listener = "accepting" /\ Serves(i, "idle", "accepting") /\ UNCHANGED queue
Authorizes(i) == /\ Serves(i, "accepting", "up") \/ Serves(i, "accepting", "refused")
                 /\ UNCHANGED queue
InboundEnds(i) == Serves(i, "live", "down") /\ UNCHANGED queue

InboundReports(i) ==
  /\ Room
  /\ \/ Serves(i, "up", "live") /\ queue' = Append(queue, InboundReport(i, "Connected"))
     \/ Serves(i, "down", "done") /\ queue' = Append(queue, InboundReport(i, "Disconnected"))
     \/ Serves(i, "refused", "done") /\ queue' = Append(queue, InboundReport(i, "Failed"))

AllAborted == [i \in Inbounds |-> "done"]

\* accept returns None: every session is aborted, then the end is reported.
ListenerEnds ==
  /\ listener = "accepting" /\ listener' = "stopped" /\ inbound' = AllAborted
  /\ UNCHANGED <<phase, adv, row, screens, state, out, count, queue>>

ListenerReports ==
  /\ listener = "stopped" /\ Room
  /\ queue' = Append(queue, ListenerStopped) /\ listener' = "done"
  /\ UNCHANGED <<phase, adv, row, screens, state, out, inbound, count>>

ReportOrShutdown == listener # "done"     \* the shutdown ends the send, too

ListenerShutDown ==
  /\ phase = "stopping" /\ ReportOrShutdown
  /\ listener' = "done" /\ inbound' = AllAborted
  /\ UNCHANGED <<phase, adv, row, screens, state, out, count, queue>>

-----------------------------------------------------------------------------
(* The runtime loop takes a report.                                        *)

CountedDown(n)  == IF n = 0 THEN 0 ELSE n - 1

CurrentTransition(e) == state[e.peer].gen = e.gen

OnOutbound(e) ==
  /\ e.from = "outbound"
  /\ IF CurrentTransition(e)
     THEN /\ state' = [state EXCEPT ![e.peer].phase = e.phase]
          /\ PutRow(e.peer, Applied(row[e.peer], e.gen, e.phase))
     ELSE UNCHANGED <<state, row, screens>>
  /\ UNCHANGED <<phase, adv, out, count>>

CountAfter(e) ==
  CASE e.phase = "Connected"    -> count + 1
    [] e.phase = "Disconnected" -> CountedDown(count)
    [] OTHER -> count

OnInbound(e) ==
  /\ e.from = "inbound" /\ count' = CountAfter(e)
  /\ row' = [p \in Peers |-> IF Visible(row[p]) THEN row[p] ELSE NoRow]
  /\ screens' = [p \in Peers |-> IF row[p] = NoRow \/ Visible(row[p]) THEN screens[p] ELSE "none"]
  /\ UNCHANGED <<phase, adv, state, out>>

\* recv ends: the runtime takes the services down (WindowsRuntime, ServiceEnds).
OnListenerStopped(e) ==
  /\ e.from = "listener" /\ phase' = "stopping" /\ count' = 0
  /\ row' = [p \in Peers |-> NoRow] /\ screens' = [p \in Peers |-> "none"]
  /\ UNCHANGED <<adv, state, out>>

Receive ==
  /\ Running /\ queue # <<>> /\ queue' = Tail(queue)
  /\ OnOutbound(Head(queue)) \/ OnInbound(Head(queue)) \/ OnListenerStopped(Head(queue))
  /\ UNCHANGED <<inbound, listener>>

\* StopScan or the end of the program; clear_lan_state follows the shutdown.
Stop ==
  /\ Running /\ phase' = "stopping" /\ count' = 0
  /\ row' = [p \in Peers |-> NoRow] /\ screens' = [p \in Peers |-> "none"]
  /\ UNCHANGED <<adv, state, out, inbound, listener, queue>>

\* SessionFoundation::shutdown
StopOutbound(p) ==
  /\ phase = "stopping" /\ out[p].task # "none"
  /\ out' = [out EXCEPT ![p] = NoOut]
  /\ state' = [state EXCEPT ![p] = [gen |-> @.gen + 1, phase |-> "Disconnected"]]
  /\ ObserverAborted(p)
  /\ UNCHANGED <<phase, adv, row, screens, inbound, count, listener>>

Closed ==
  /\ phase = "stopping" /\ listener = "done" /\ \A p \in Peers : out[p].task = "none"
  /\ phase' = "closed" /\ queue' = <<>>
  /\ UNCHANGED <<adv, row, screens, state, out, inbound, count, listener>>

-----------------------------------------------------------------------------
Init ==
  /\ phase = "running" /\ adv = {} /\ row = [p \in Peers |-> NoRow]
  /\ screens = [p \in Peers |-> "none"] /\ state = [p \in Peers |-> NoState]
  /\ out = [p \in Peers |-> NoOut] /\ inbound = [i \in Inbounds |-> "idle"]
  /\ count = 0 /\ listener = "accepting" /\ queue = <<>>

Network(p) ==
  \/ Lost(p) \/ FoundOnly(p)
  \/ \E fresh, ok \in BOOLEAN : FoundKept(p, fresh) \/ FoundDialed(p, fresh, ok)
  \/ \E to \in {"Available", "Withdrawn"} : RemoteScreen(p, to)

Observer(p) == \/ Establishes(p) \/ SetupFails(p) \/ Closes(p) \/ DeadlinePasses(p)
               \/ ObserverReports(p)

Listener == \/ ListenerEnds \/ ListenerReports \/ ListenerShutDown
            \/ \E i \in Inbounds : \/ Accepts(i) \/ Authorizes(i) \/ InboundEnds(i)
                                   \/ InboundReports(i)

Next == \/ \E p \in Peers : Network(p) \/ Observer(p) \/ StopOutbound(p)
        \/ Listener \/ Receive \/ Stop \/ Closed

\* Deadlines pass, tasks that may send do, the loop takes what is queued, and
\* a shutdown goes on with its next join.
Fairness ==
  /\ \A p \in Peers : /\ WF_vars(DeadlinePasses(p)) /\ WF_vars(ObserverReports(p))
                      /\ WF_vars(StopOutbound(p))
  /\ WF_vars(Receive) /\ WF_vars(ListenerShutDown) /\ WF_vars(Closed)

Spec == Init /\ [][Next]_vars /\ Fairness

-----------------------------------------------------------------------------
(* Properties.                                                             *)

Rows == [present : BOOLEAN, gen : Nat, phase : Phases, screen : {"none", "Available", "Withdrawn"}]

TypeOK ==
  /\ phase \in {"running", "stopping", "closed"} /\ adv \subseteq Peers
  /\ row \in [Peers -> Rows]
  /\ screens \in [Peers -> {"none", "Available", "Withdrawn"}]
  /\ state \in [Peers -> [gen : Nat, phase : Phases]]
  /\ out \in [Peers -> [task : Observing, gen : Nat, late : BOOLEAN]]
  /\ inbound \in [Inbounds -> Tasks] /\ count \in Nat
  /\ listener \in {"accepting", "stopped", "done"}
  /\ queue \in Seq(Reports) /\ Len(queue) <= QueueCap

\* A report that will correct the row is queued or still to be sent.
Driven(p) ==
  \/ out[p].gen = row[p].gen /\ out[p].task \in {"dialing", "up", "live", "down", "failed"}
  \/ \E to \in Phases : Queued(Report(p, row[p].gen, to))

\* The row of a peer never claims more than its transport: its generation is
\* at most the transport's, at the same generation they agree, and a row that
\* says Connecting or Connected has an observer of that generation, or its
\* report, on the way.  A late report of a replaced dial, a row that was pruned
\* and came back, or a failed redial would break it.
RowsAreDriven ==
  /\ TypeOK
  /\ Running => \A p \in Peers : row[p].phase # "Waiting" =>
       /\ row[p].gen <= state[p].gen
       /\ row[p].gen = state[p].gen => row[p].phase = state[p].phase
       /\ row[p].phase \in {"Connecting", "Connected"} =>
            row[p].gen = state[p].gen /\ Driven(p)

Live == {i \in Inbounds : inbound[i] \in {"live", "down"}}

\* What the user sees is so: rows are exactly the peers worth showing, every
\* watchable screen has its row, every advertiser has one, and the number of
\* inbound sessions is right once the queue has been read.
SnapshotIsTrue ==
  Running =>
    /\ \A p \in Peers :
         /\ row[p] # NoRow => Visible(row[p])
         /\ row[p].present <=> p \in adv
         /\ screens[p] = "Available" <=> row[p].screen = "Available"
    /\ listener = "accepting" /\ queue = <<>> => count = Cardinality(Live)

(***************************************************************************)
(* Why the snapshot is true: the inductive invariant                       *)
(***************************************************************************)
\* The report at a place of the queue is of the dial that is current, or ends it.
Current(i, p) ==
  queue[i].from = "outbound" /\ queue[i].peer = p /\ queue[i].gen = state[p].gen
Ends(i, p) == Current(i, p) /\ queue[i].phase # "Connected"

\* No report is of a dial that is still to come.
ReportsArePast ==
  \A i \in 1 .. Len(queue) :
    queue[i].from = "outbound" => queue[i].gen <= state[queue[i].peer].gen

\* An observer is of the current dial, which has said what its state says: it
\* is connecting until it reports, and a finished observer has reported the end,
\* which is read after all else it reported.
ObserverAgrees(p) ==
  LET task == out[p].task
      open == state[p].phase \in {"Connecting", "Connected"} IN
  /\ task # "none" => out[p].gen = state[p].gen /\ state[p].gen > 0
  /\ task = "none" => ~open
  /\ task \in {"none", "dialing", "up", "failed"} => \A i \in 1 .. Len(queue) : ~Current(i, p)
  /\ task \in {"dialing", "up", "failed"} => state[p].phase = "Connecting"
  /\ task \in {"live", "down"} => open /\ \A i \in 1 .. Len(queue) : ~Ends(i, p)
  /\ task = "done" =>
       /\ open => \E i \in 1 .. Len(queue) : Ends(i, p)
       /\ \A i \in 1 .. Len(queue) : Current(i, p) => \E j \in i .. Len(queue) : Ends(j, p)

\* A row is of no later dial than the state, and of the current one it says the
\* same; only of the current one it says that it is under way or up.
Follows(r, s) ==
  /\ r.phase = "Waiting" => r.gen = 0
  /\ r.gen <= s.gen
  /\ r.phase # "Waiting" /\ r.gen = s.gen => r.phase = s.phase
  /\ r.phase \in {"Connecting", "Connected"} => r.gen = s.gen

\* It shows what is known, and is there because it is worth showing.
Shows(r, p) == (r.present <=> p \in adv) /\ (screens[p] = "Available" <=> r.screen = "Available")
RowHolds(p) ==
  Follows(row[p], state[p]) /\ Shows(row[p], p) /\ (row[p] # NoRow => Visible(row[p]))

Says(i, id, what) == queue[i] = InboundReport(id, what)
Heard(id, what)   == Queued(InboundReport(id, what))

\* An inbound session reports at most twice, its beginning before its end, and
\* only what it has come to.
InboundAgrees(id) ==
  /\ \A i, j \in 1 .. Len(queue) : \A a, b \in Told :
       i < j /\ Says(i, id, a) /\ Says(j, id, b) => a = "Connected" /\ b = "Disconnected"
  /\ inbound[id] \in {"idle", "accepting", "up", "refused"} => \A a \in Told : ~Heard(id, a)
  /\ inbound[id] \in {"live", "down"} => ~Heard(id, "Failed") /\ ~Heard(id, "Disconnected")
  /\ inbound[id] = "done" /\ Heard(id, "Connected") => Heard(id, "Disconnected")

\* The sessions whose beginning was read and whose end was not.
Counted ==
  {id \in Inbounds : /\ ~Heard(id, "Connected")
                     /\ inbound[id] \in {"live", "down"} \/ Heard(id, "Disconnected")}

InboundHolds ==
  listener = "accepting" =>
    /\ \A id \in Inbounds : InboundAgrees(id)
    /\ Running => count = Cardinality(Counted)

SessionsInvariant ==
  /\ TypeOK /\ ReportsArePast /\ \A p \in Peers : ObserverAgrees(p)
  /\ Running => \A p \in Peers : RowHolds(p)
  /\ InboundHolds
=============================================================================
