----------------------------- MODULE MacSessions -----------------------------
(***************************************************************************)
(* Direct sessions of the macOS app (mac/src/network and its session       *)
(* directory, with the rows of mac/src/runtime.rs).                        *)
(*                                                                         *)
(* Services::recv takes one input at a time: an advertisement, a report, a *)
(* screen.  An advertisement worth a dial is kept in `connecting` until it *)
(* has been carried out, over any cancellation of recv, and so is the      *)
(* replacement of an old connection under way (`joining`).  A generation   *)
(* is only ever compared with the current one of its peer, so it is told   *)
(* here as `current`; nothing bounds the number of dials.                  *)
(***************************************************************************)
EXTENDS Naturals, Sequences, FiniteSets

CONSTANTS
  Peers,       \* the other devices
  Dials,       \* those that should_dial lets this device dial
  Identities,  \* fingerprint and credential of an advertisement
  Inbounds,    \* bound: inbound sessions in a run
  QueueCap     \* EVENT_CAPACITY

MacSessionsAssumption ==
  /\ Dials \subseteq Peers /\ IsFiniteSet(Inbounds) /\ "none" \notin Identities
  /\ QueueCap \in Nat \ {0}

VARIABLES
  phase,      \* of the services: running, stopping, closed
  reg,        \* PeerRegistry: the identity that a peer advertises
  row,        \* Services::peers
  shown,      \* AppSnapshot::peers
  screens,    \* AppSnapshot::remote_screens, by peer
  state,      \* PeerStates: TransportPhase of the current generation
  out,        \* Outbound: the observer task and the identity that it dials
  elapsed,    \* of RECONNECT_BUDGET for the current dial
  connecting, \* PendingConnection
  joining,    \* Replacement
  known,      \* Services::inbound
  inbound, listener, queue

netVars  == <<phase, reg, screens>>
rowVars  == <<row, shown>>
dialVars == <<state, out, elapsed>>
keptVars == <<connecting, joining>>
inVars   == <<known, inbound, listener>>
vars == <<netVars, rowVars, dialVars, keptVars, inVars, queue>>

Phases    == {"none", "Waiting", "Connecting", "Connected", "Failed", "Disconnected"}
Observing == {"none", "dialing", "up", "live", "down", "failed", "done"}
Tasks     == {"idle", "accepting", "up", "live", "down", "refused", "done"}

Budget  == 2    \* RECONNECT_BUDGET: a dial can be restarted within it
Late(p) == elapsed[p] = Budget

NoRow   == [discovered |-> FALSE, session |-> "none", current |-> FALSE]
NoShown == [discovered |-> FALSE, session |-> "none"]
NoOut   == [task |-> "none", ident |-> "none"]
Nobody  == [peer |-> "none", ident |-> "none"]

Running == phase = "running"
Idle    == Running /\ connecting = Nobody
Room    == Len(queue) < QueueCap
Active(session) == session \in {"Connecting", "Connected"}
Report(p, to)   == [from |-> "outbound", peer |-> p, current |-> TRUE, phase |-> to]
InboundReport(i, to) == [from |-> "inbound", id |-> i, phase |-> to]
ListenerStopped == [from |-> "listener"]

\* What the tasks tell the loop.
Told    == {"Connected", "Disconnected", "Failed"}
Reports == [from : {"outbound"}, peer : Peers, current : BOOLEAN, phase : Told]
           \cup [from : {"inbound"}, id : Inbounds, phase : Told] \cup {ListenerStopped}
Rows    == [discovered : BOOLEAN, session : Phases, current : BOOLEAN]

-----------------------------------------------------------------------------
(* Rows, and what apply_network_event makes of them.                       *)

Visible(r) == r.discovered \/ Active(r.session)

\* Event::Peer
Put(p, r) ==
  /\ row' = [row EXCEPT ![p] = r]
  /\ shown' = [shown EXCEPT ![p] = [discovered |-> r.discovered, session |-> r.session]]

\* Event::PeerRemoved, after an Event::Peer that showed the session.
ScreenKept(p, session) ==
  IF screens[p] = "Available" THEN [discovered |-> FALSE, session |-> session] ELSE NoShown

Remove(p, session) ==
  /\ row' = [row EXCEPT ![p] = NoRow]
  /\ shown' = [shown EXCEPT ![p] = ScreenKept(p, session)]

Screen(p, to) ==
  /\ Idle /\ screens' = [screens EXCEPT ![p] = to]
  /\ shown' = [shown EXCEPT ![p] =
       IF to = "Available" THEN IF @ = NoShown THEN [@ EXCEPT !.session = "Waiting"] ELSE @
       ELSE IF Visible(@) THEN @ ELSE NoShown]
  /\ UNCHANGED <<phase, reg, row, dialVars, keptVars, inVars, queue>>

-----------------------------------------------------------------------------
(* Advertisements.                                                         *)

ShouldConnect(p, id, merged) ==
  \/ reg[p] \notin {"none", id}                              \* IdentityReplaced
  \/ reg[p] = id /\ merged /\ row[p].session = "Connecting"  \* CandidatesMerged
  \/ ~Active(row[p].session)

Found(p, id, merged) ==
  /\ Idle /\ reg' = [reg EXCEPT ![p] = id]
  /\ IF p \notin Dials
     THEN Put(p, [discovered |-> TRUE, session |-> "Waiting", current |-> FALSE])
          /\ UNCHANGED connecting
     ELSE IF ShouldConnect(p, id, merged)
     THEN connecting' = [peer |-> p, ident |-> id] /\ UNCHANGED rowVars
     ELSE Put(p, [row[p] EXCEPT !.discovered = TRUE]) /\ UNCHANGED connecting
  /\ UNCHANGED <<phase, screens, dialVars, joining, inVars, queue>>

Lost(p) ==
  /\ Idle /\ reg[p] # "none" /\ reg' = [reg EXCEPT ![p] = "none"]
  /\ IF Active(row[p].session) THEN Put(p, [row[p] EXCEPT !.discovered = FALSE])
     ELSE Remove(p, row[p].session)
  /\ UNCHANGED <<phase, screens, dialVars, keptVars, inVars, queue>>

-----------------------------------------------------------------------------
(* PendingConnection::complete and SessionFoundation::connect.             *)

Dialed     == connecting.peer
SameDial   == out[Dialed].task # "none" /\ out[Dialed].ident = connecting.ident
LinkUp     == out[Dialed].task \in {"up", "live"}   \* Connection::connected
Refreshing == SameDial /\ state[Dialed] = "Connecting"

\* `fresh`: the advertisement has an address that the dial does not.
Kept(fresh) ==
  /\ SameDial
  /\ \/ LinkUp \/ state[Dialed] = "Connected"
     \/ state[Dialed] = "Connecting" /\ ~(fresh /\ ~Late(Dialed))

Completes(session) ==
  /\ connecting' = Nobody /\ joining' = FALSE
  /\ Put(Dialed, [discovered |-> TRUE, session |-> session, current |-> session = "Connecting"])
  /\ UNCHANGED <<netVars, inVars>>

ConnectKept(fresh) ==
  /\ Running /\ connecting # Nobody /\ ~joining /\ Kept(fresh)
  /\ Completes("Connecting") /\ UNCHANGED <<dialVars, queue>>

SameDeadline(p)  == IF Refreshing THEN elapsed[p] ELSE 0

\* What the observer had to say when it was aborted; it may still get through.
Unsent(p) ==
  CASE out[p].task = "up"     -> {Report(p, "Connected")}
    [] out[p].task = "down"   -> {Report(p, "Disconnected")}
    [] out[p].task = "failed" -> {Report(p, "Failed")}
    [] OTHER -> {}

ObserverAborted(p) ==
  \/ UNCHANGED queue
  \/ \E e \in Unsent(p) : Room /\ queue' = Append(queue, e)

ConnectReplaces(fresh) ==
  /\ Running /\ connecting # Nobody /\ ~joining /\ ~Kept(fresh)
  /\ joining' = TRUE
  /\ elapsed' = [elapsed EXCEPT ![Dialed] = SameDeadline(Dialed)]
  /\ out' = [out EXCEPT ![Dialed] = NoOut] /\ ObserverAborted(Dialed)
  /\ UNCHANGED <<netVars, rowVars, state, connecting, inVars>>

\* PeerStates::begin: every report so far is of an earlier generation.
AllCurrent(p) == queue
Outdated(p)   == [i \in 1..Len(queue) |->
  IF queue[i].from = "outbound" /\ queue[i].peer = p
  THEN [queue[i] EXCEPT !.current = FALSE] ELSE queue[i]]

\* The old connection is gone.  With no time left, or a record that cannot be
\* dialled, the attempt fails at once.
ConnectDials(ok) ==
  /\ Running /\ joining /\ queue' = Outdated(Dialed)
  /\ IF ok /\ ~Late(Dialed)
     THEN /\ state' = [state EXCEPT ![Dialed] = "Connecting"]
          /\ out' = [out EXCEPT ![Dialed] = [task |-> "dialing", ident |-> connecting.ident]]
          /\ Completes("Connecting")
     ELSE /\ state' = [state EXCEPT ![Dialed] = "Failed"] /\ UNCHANGED out
          /\ Completes("Failed")
  /\ UNCHANGED elapsed

-----------------------------------------------------------------------------
(* The observer task of an outbound connection.                            *)

Observes(p, from, to) ==
  /\ out[p].task = from /\ out' = [out EXCEPT ![p].task = to]
  /\ UNCHANGED <<netVars, rowVars, state, elapsed, keptVars, inVars>>

Establishes(p) == ~Late(p) /\ Observes(p, "dialing", "up") /\ UNCHANGED queue
SetupFails(p)  == Observes(p, "dialing", "failed") /\ UNCHANGED queue
Closes(p)      == Observes(p, "live", "down") /\ UNCHANGED queue
TimesOut(p)    == Late(p) /\ Observes(p, "dialing", "failed") /\ UNCHANGED queue

TimePasses(p) ==
  /\ ~Late(p)
  /\ (out[p].task # "none" /\ state[p] = "Connecting") \/ (joining /\ Dialed = p)
  /\ elapsed' = [elapsed EXCEPT ![p] = @ + 1]
  /\ UNCHANGED <<netVars, rowVars, state, out, keptVars, inVars, queue>>

ObserverReports(p) ==
  /\ Room
  /\ \/ Observes(p, "up", "live") /\ queue' = Append(queue, Report(p, "Connected"))
     \/ Observes(p, "down", "done") /\ queue' = Append(queue, Report(p, "Disconnected"))
     \/ Observes(p, "failed", "done") /\ queue' = Append(queue, Report(p, "Failed"))

-----------------------------------------------------------------------------
(* The listener and its inbound sessions.                                  *)

Serves(i, from, to) ==
  /\ inbound[i] = from /\ inbound' = [inbound EXCEPT ![i] = to]
  /\ UNCHANGED <<netVars, rowVars, dialVars, keptVars, known, listener>>

Accepts(i)     == listener = "accepting" /\ Serves(i, "idle", "accepting") /\ UNCHANGED queue
Authorizes(i)  == /\ Serves(i, "accepting", "up") \/ Serves(i, "accepting", "refused")
                  /\ UNCHANGED queue
InboundEnds(i) == Serves(i, "live", "down") /\ UNCHANGED queue

InboundReports(i) ==
  /\ Room
  /\ \/ Serves(i, "up", "live") /\ queue' = Append(queue, InboundReport(i, "Connected"))
     \/ Serves(i, "down", "done") /\ queue' = Append(queue, InboundReport(i, "Disconnected"))
     \/ Serves(i, "refused", "done") /\ queue' = Append(queue, InboundReport(i, "Failed"))

Listens(from, to) ==
  /\ listener = from /\ listener' = to
  /\ UNCHANGED <<netVars, rowVars, dialVars, keptVars, known>>

AllAborted == inbound' = [i \in Inbounds |-> "done"]

ListenerEnds    == Listens("accepting", "stopped") /\ AllAborted /\ UNCHANGED queue
ListenerReports == /\ Room /\ Listens("stopped", "done")
                   /\ queue' = Append(queue, ListenerStopped) /\ UNCHANGED inbound

\* biased: the shutdown ends accepting, and the send of ListenerStopped.
ListenerShutDown ==
  /\ phase = "stopping" /\ ~joining /\ \A p \in Peers : out[p].task = "none"
  /\ Listens("accepting", "done") \/ Listens("stopped", "done")
  /\ AllAborted /\ UNCHANGED queue

-----------------------------------------------------------------------------
(* Services::recv takes a report.                                          *)

OnOutbound(e) ==
  /\ e.from = "outbound"
  /\ IF ~e.current THEN UNCHANGED <<state, rowVars>>
     ELSE /\ state' = [state EXCEPT ![e.peer] = e.phase]
          /\ IF ~row[e.peer].current THEN UNCHANGED rowVars
             ELSE IF row[e.peer].discovered \/ Active(e.phase)
             THEN Put(e.peer, [row[e.peer] EXCEPT !.session = e.phase])
             ELSE Remove(e.peer, e.phase)
  /\ UNCHANGED known

OnInbound(e) ==
  /\ e.from = "inbound" /\ UNCHANGED <<state, rowVars>>
  /\ known' = IF e.phase = "Connected" THEN known \cup {e.id} ELSE known \ {e.id}

OnListenerStopped(e) == e.from = "listener" /\ UNCHANGED <<state, rowVars, known>>

Receive ==
  /\ Idle /\ queue # <<>> /\ queue' = Tail(queue)
  /\ OnOutbound(Head(queue)) \/ OnInbound(Head(queue)) \/ OnListenerStopped(Head(queue))
  /\ UNCHANGED <<netVars, out, elapsed, keptVars, inbound, listener>>

\* The runtime leaves its services, wherever recv was (MacRuntime, Leave).
Stop ==
  /\ Running /\ phase' = "stopping"
  /\ UNCHANGED <<reg, screens, rowVars, dialVars, keptVars, inVars, queue>>

\* SessionFoundation::shutdown: no replacement is opened.
DropConnecting ==
  /\ phase = "stopping" /\ connecting # Nobody
  /\ connecting' = Nobody /\ joining' = FALSE
  /\ UNCHANGED <<netVars, rowVars, dialVars, inVars, queue>>

StopOutbound(p) ==
  /\ phase = "stopping" /\ ~joining /\ out[p].task # "none"
  /\ out' = [out EXCEPT ![p] = NoOut] /\ state' = [state EXCEPT ![p] = "none"]
  /\ ObserverAborted(p)
  /\ UNCHANGED <<netVars, rowVars, elapsed, keptVars, inVars>>

Closed ==
  /\ phase = "stopping" /\ listener = "done" /\ connecting = Nobody
  /\ \A p \in Peers : out[p].task = "none"
  /\ phase' = "closed" /\ queue' = <<>> /\ known' = {}
  /\ shown' = [p \in Peers |-> NoShown] /\ screens' = [p \in Peers |-> "none"]
  /\ UNCHANGED <<reg, row, dialVars, keptVars, inbound, listener>>

-----------------------------------------------------------------------------
Init ==
  /\ phase = "running" /\ reg = [p \in Peers |-> "none"]
  /\ row = [p \in Peers |-> NoRow] /\ shown = [p \in Peers |-> NoShown]
  /\ screens = [p \in Peers |-> "none"] /\ state = [p \in Peers |-> "none"]
  /\ out = [p \in Peers |-> NoOut] /\ elapsed = [p \in Peers |-> 0]
  /\ connecting = Nobody /\ joining = FALSE
  /\ known = {} /\ inbound = [i \in Inbounds |-> "idle"]
  /\ listener = "accepting" /\ queue = <<>>

Network(p) ==
  \/ Lost(p) \/ \E to \in {"Available", "Withdrawn"} : Screen(p, to)
  \/ \E id \in Identities, merged \in BOOLEAN : Found(p, id, merged)

Connect == \E x \in BOOLEAN : ConnectKept(x) \/ ConnectReplaces(x) \/ ConnectDials(x)

Observer(p) == \/ Establishes(p) \/ SetupFails(p) \/ Closes(p) \/ TimePasses(p)
               \/ TimesOut(p) \/ ObserverReports(p)

Listener == \/ ListenerEnds \/ ListenerReports \/ ListenerShutDown
            \/ \E i \in Inbounds : \/ Accepts(i) \/ Authorizes(i) \/ InboundEnds(i)
                                   \/ InboundReports(i)

Next == \/ \E p \in Peers : Network(p) \/ Observer(p) \/ StopOutbound(p)
        \/ Connect \/ Listener \/ Receive \/ Stop \/ DropConnecting \/ Closed

\* Time passes, tasks that may send do, a connect or a shutdown goes on,
\* and select, which chooses at random, does not pass over a report for ever.
Fairness ==
  /\ \A p \in Peers : /\ WF_vars(TimePasses(p)) /\ WF_vars(TimesOut(p))
                      /\ SF_vars(ObserverReports(p)) /\ WF_vars(StopOutbound(p))
  /\ WF_vars(Connect) /\ SF_vars(Receive)
  /\ WF_vars(ListenerShutDown) /\ WF_vars(DropConnecting) /\ WF_vars(Closed)

Spec == Init /\ [][Next]_vars /\ Fairness

-----------------------------------------------------------------------------
(* Properties.                                                             *)

\* Every variable has its type.
TypeOK ==
  /\ phase \in {"running", "stopping", "closed"}
  /\ reg \in [Peers -> Identities \cup {"none"}]
  /\ row \in [Peers -> Rows]
  /\ shown \in [Peers -> [discovered : BOOLEAN, session : Phases]]
  /\ state \in [Peers -> Phases] /\ elapsed \in [Peers -> 0..Budget]
  /\ out \in [Peers -> [task : Observing, ident : Identities \cup {"none"}]]
  /\ screens \in [Peers -> {"none", "Available", "Withdrawn"}]
  /\ connecting \in [peer : Dials, ident : Identities] \cup {Nobody}
  /\ joining \in BOOLEAN /\ (joining => connecting # Nobody)
  /\ inbound \in [Inbounds -> Tasks] /\ known \subseteq Inbounds
  /\ listener \in {"accepting", "stopped", "done"} 
  /\ queue \in Seq(Reports) /\ Len(queue) <= QueueCap

\* A report that will correct the row is queued or still to be sent.
Driven(p) ==
  \/ out[p].task \in {"dialing", "up", "live", "down", "failed"}
  \/ joining /\ Dialed = p
  \/ \E i \in 1..Len(queue), to \in Phases : queue[i] = Report(p, to)

Serving(i) == inbound[i] \in {"live", "down"}

\* The three records of a device agree, whatever reports of replaced dials are
\* still on their way: the row has the phase of its transport, save the one that
\* ConnectingIsPending is about; an active row has something behind it that will
\* report its end; the snapshot shows the rows, and besides them only devices
\* with a screen to watch; and the set of inbound sessions is right once the
\* queue has been read.
RowsFollowTransport ==
  /\ TypeOK
  /\ Running => \A p \in Peers :
       /\ row[p].current => \/ row[p].session = state[p]
                            \/ row[p].session = "Connecting" /\ state[p] = "Connected"
       /\ Active(row[p].session) => row[p].current /\ Driven(p)
       /\ IF row[p] # NoRow
          THEN shown[p] = [discovered |-> row[p].discovered, session |-> row[p].session]
          ELSE shown[p] # NoShown => screens[p] = "Available" /\ ~shown[p].discovered
       /\ reg[p] # "none" /\ connecting.peer # p => row[p].discovered
  /\ Running /\ queue = <<>> /\ listener = "accepting" => known = {i \in Inbounds : Serving(i)}

\* What lan-state says of a connection (lib.rs:12-15): Connecting is an attempt
\* that is pending, Connected a session that is established.  So it is as long as
\* the device keeps its identity.  A connect that finds the session of the
\* identity it should dial sets Connecting all the same (network/mod.rs:94), and
\* nothing corrects it before that session ends.
ConnectingIsPending ==
  Running => \A p \in Peers :
    row[p].current /\ row[p].session = "Connecting" => state[p] # "Connected"

-----------------------------------------------------------------------------
(* Why the records agree: the inductive invariant.                         *)

\* `says` is what the reports of one task look like, by what they tell.
Says(q, says, what) == \E i \in 1 .. Len(q) : q[i] = says[what]

\* A task reports at most twice, its beginning before its end, and only what it
\* has come to; the end of what began is queued before the task is done.
Orderly(q, says, task) ==
  /\ \A i \in 1 .. Len(q) : \A a \in Told : q[i] = says[a] =>
       task = "done" \/ (a = "Connected" /\ task \in {"live", "down"})
  /\ \A i, j \in 1 .. Len(q) : \A a, b \in Told :
       i < j /\ q[i] = says[a] /\ q[j] = says[b] => a = "Connected" /\ b # "Connected"
  /\ task = "done" /\ Says(q, says, "Connected") => Says(q, says, "Disconnected")

Outgoing(p) == [a \in Told |-> Report(p, a)]
Incoming(i) == [a \in Told |-> InboundReport(i, a)]

\* The state of a peer lags behind its observer by the reports in the queue.
StateLags(p, q, task, at) ==
  /\ Orderly(q, Outgoing(p), task)
  /\ task = "none" => at \in {"none", "Failed"}
  /\ task \in {"dialing", "up", "failed"} => at = "Connecting"
  /\ task \in {"live", "down"} =>
       at = "Connected" \/ (at = "Connecting" /\ Says(q, Outgoing(p), "Connected"))
  /\ task = "done" =>
       \/ at \in {"Disconnected", "Failed"}
       \/ at = "Connected" /\ Says(q, Outgoing(p), "Disconnected")
       \/ at = "Connecting" /\ \E a \in {"Connected", "Failed"} : Says(q, Outgoing(p), a)

\* The inbound sessions that are known lag behind in the same way.
KnownLags(i, q, task, ids) ==
  /\ Orderly(q, Incoming(i), task)
  /\ task \in {"live", "down"} => i \in ids \/ Says(q, Incoming(i), "Connected")
  /\ i \in ids => task \in {"live", "down"} \/ (task = "done" /\ Says(q, Incoming(i), "Disconnected"))

Replaced(p) == joining /\ Dialed = p
Taking(p)   == connecting # Nobody /\ Dialed = p

\* The row follows the state, and only a session or an advertisement keeps it.
RowAgrees(p) ==
  /\ row[p].current => \/ row[p].session = state[p]
                       \/ row[p].session = "Connecting" /\ state[p] = "Connected"
  /\ Active(row[p].session) => row[p].current
  /\ row[p] # NoRow => Visible(row[p])
  /\ reg[p] # "none" /\ ~Taking(p) => row[p].discovered

\* The snapshot shows the row; without one, at most a screen that can be watched.
ShownAgrees(p) ==
  IF row[p] # NoRow
  THEN shown[p] = [discovered |-> row[p].discovered, session |-> row[p].session]
  ELSE shown[p] # NoShown => screens[p] = "Available" /\ ~Visible(shown[p])

ObserverAgrees(p) ==
  IF Replaced(p) THEN out[p].task = "none" ELSE StateLags(p, queue, out[p].task, state[p])
InboundAgrees(i) == KnownLags(i, queue, inbound[i], known)

MacInvariant ==
  /\ TypeOK
  /\ Running => \A p \in Peers : ObserverAgrees(p) /\ RowAgrees(p) /\ ShownAgrees(p)
  /\ Running /\ listener = "accepting" => \A i \in Inbounds : InboundAgrees(i)
=============================================================================
