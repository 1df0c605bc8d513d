--------------------------- MODULE InboundSessions ---------------------------
(***************************************************************************)
(* Inbound sessions of the Linux desktop runtime: the inbound half of      *)
(* MeshResources in linux/src/runtime/supervisor.rs.                       *)
(*                                                                         *)
(* A request that passed authorization gets a numbered entry, an accept    *)
(* task and later a watcher.  Inbound sessions are anonymous, so they are  *)
(* closed together whenever the listener they came through goes: by a      *)
(* user restart, by recovery and by Off.                                   *)
(***************************************************************************)
EXTENDS Naturals, Sequences, FiniteSets

CONSTANTS
  MaxInbound,  \* bound: requests accepted between two Offs
  QueueCap     \* EVENT_CAPACITY

InboundAssumption == MaxInbound \in Nat /\ QueueCap \in Nat \ {0}

VARIABLES
  pc,         \* "select", or where stop_lan waits: "offMedia", "offMesh"
  listening,  \* current services exist
  origins,
  nextId,     \* next_inbound_id
  accepting,  \* entries whose accept task is pending
  connected,  \* entries with a session
  count,      \* AppSnapshot::inbound_session_count
  tasks, aborted,  \* accept tasks and watchers; accept tasks that run on after abort
  conns,      \* sessions neither closed nor aborted
  opq         \* operation queue

vars == <<pc, listening, origins, nextId, accepting, connected, count, tasks, aborted,
          conns, opq>>

Ids        == 1 .. MaxInbound
Task(k, i) == [kind |-> k, id |-> i]
Ready(i, b) == [type |-> "SessionReady", id |-> i, ok |-> b]
Closed(i)  == [type |-> "SessionClosed", id |-> i, ok |-> FALSE]
Events     == [type : {"SessionReady", "SessionClosed"}, id : Ids, ok : BOOLEAN]
Queued     == {opq[k] : k \in 1 .. Len(opq)}
Room       == Len(opq) < QueueCap
Entries    == accepting \cup connected

-----------------------------------------------------------------------------
\* accept_inbound; a request without services or without the credential is
\* rejected and leaves no trace.
AcceptInbound ==
  /\ pc = "select" /\ listening /\ nextId < MaxInbound
  /\ nextId' = nextId + 1
  /\ accepting' = accepting \cup {nextId + 1}
  /\ tasks' = tasks \cup {Task("accept", nextId + 1)}
  /\ UNCHANGED <<pc, listening, origins, connected, count, aborted, conns, opq>>

AbortAccepting ==
  /\ accepting' = {}
  /\ aborted' = aborted \cup {t \in tasks : t.kind = "accept" /\ t.id \in accepting}
  /\ tasks' = {t \in tasks : ~(t.kind = "accept" /\ t.id \in accepting)}

\* close_inbound
CloseInbound ==
  /\ AbortAccepting
  /\ conns' = conns \ connected /\ connected' = {} /\ count' = 0

\* start_discovery, restart_discovery and recover_discovery.
LanRestarts ==
  /\ pc = "select"
  /\ CloseInbound
  /\ listening' = FALSE /\ origins' = TRUE
  /\ UNCHANGED <<pc, nextId, opq>>

ServicesStarted ==
  /\ pc = "select" /\ origins /\ listening' = TRUE
  /\ UNCHANGED <<pc, origins, nextId, accepting, connected, count, tasks, aborted, conns, opq>>

-----------------------------------------------------------------------------
Receive(type) ==
  /\ pc = "select" /\ opq # <<>> /\ Head(opq).type = type
  /\ opq' = Tail(opq)
  /\ UNCHANGED <<pc, listening, origins, nextId, aborted>>

\* Parts of the two handlers, after their defective variants: a late session is
\* left open, the count is not redone.
LateLeftOpen(i) == UNCHANGED conns
LateClosed(i)   == conns' = conns \ {i}
CountConnected  == count' = Cardinality(connected')
IsEntry(i)      == i \in Entries

\* session_ready for an inbound key.
OnReady ==
  /\ Receive("SessionReady")
  /\ LET i == Head(opq).id IN
     IF ~IsEntry(i)
     THEN LateClosed(i) /\ UNCHANGED <<accepting, connected, count, tasks>>
     ELSE /\ accepting' = accepting \ {i}
          /\ connected' = IF Head(opq).ok THEN connected \cup {i} ELSE connected
          /\ tasks' = IF Head(opq).ok THEN tasks \cup {Task("watch", i)} ELSE tasks
          /\ CountConnected
          /\ UNCHANGED conns

\* session_closed for an inbound key.
OnClosed ==
  /\ Receive("SessionClosed")
  /\ LET i == Head(opq).id IN
     IF ~IsEntry(i)
     THEN UNCHANGED <<connected, count>>
     ELSE connected' = connected \ {i} /\ CountConnected
  /\ UNCHANGED <<accepting, tasks, conns>>

HandleOperation == OnReady \/ OnClosed

-----------------------------------------------------------------------------
(* stop_lan, cut at its awaits.                                            *)

StopLan ==
  /\ pc = "select"
  /\ listening' = FALSE /\ pc' = "offMedia"
  /\ UNCHANGED <<origins, nextId, accepting, connected, count, tasks, aborted, conns, opq>>

\* Entries are cleared; the shown count only falls at the end.
StopLanMesh ==
  /\ pc = "offMedia"
  /\ AbortAccepting
  /\ conns' = conns \ connected /\ connected' = {}
  /\ pc' = "offMesh"
  /\ UNCHANGED <<listening, origins, nextId, count, opq>>

ProducersJoined  == aborted = {}

StopLanDrain ==
  /\ pc = "offMesh" /\ ProducersJoined
  /\ tasks' = {t \in tasks : t.kind # "watch"}
  /\ conns' = conns \ {e.id : e \in {o \in Queued : o.type = "SessionReady"}}
  /\ opq' = <<>> /\ count' = 0 /\ origins' = FALSE
  /\ pc' = "select"
  /\ UNCHANGED <<listening, nextId, accepting, connected, aborted>>

-----------------------------------------------------------------------------
Finish(t, e) ==
  /\ t \in tasks \cup aborted /\ Room
  /\ opq' = Append(opq, e)
  /\ tasks' = tasks \ {t} /\ aborted' = aborted \ {t}
  /\ UNCHANGED <<pc, listening, origins, nextId, accepting, connected, count>>

\* server::accept returned; an aborted accept may still get its result out.
AcceptFinishes(t, ok) ==
  /\ t.kind = "accept"
  /\ Finish(t, Ready(t.id, ok))
  /\ conns' = IF ok THEN conns \cup {t.id} ELSE conns

WatcherReports(t) ==
  /\ t.kind = "watch" /\ t.id \notin conns
  /\ Finish(t, Closed(t.id)) /\ UNCHANGED conns

AbortTakesEffect(t) ==
  /\ t \in aborted
  /\ aborted' = aborted \ {t}
  /\ UNCHANGED <<pc, listening, origins, nextId, accepting, connected, count, tasks,
                 conns, opq>>

RemoteCloses(i) ==
  /\ i \in conns
  /\ conns' = conns \ {i}
  /\ UNCHANGED <<pc, listening, origins, nextId, accepting, connected, count, tasks,
                 aborted, opq>>

-----------------------------------------------------------------------------
Init ==
  /\ pc = "select" /\ listening = FALSE /\ origins = FALSE
  /\ nextId = 0 /\ accepting = {} /\ connected = {} /\ count = 0
  /\ tasks = {} /\ aborted = {} /\ conns = {} /\ opq = <<>>

Off == StopLanMesh \/ StopLanDrain

Next ==
  \/ AcceptInbound \/ LanRestarts \/ ServicesStarted \/ HandleOperation \/ StopLan \/ Off
  \/ (\E t \in tasks \cup aborted :
        (\E ok \in BOOLEAN : AcceptFinishes(t, ok)) \/ WatcherReports(t))
  \/ (\E t \in aborted : AbortTakesEffect(t))
  \/ (\E i \in conns : RemoteCloses(i))

\* As in PeerMesh.  Nobody owes a request or a close.
Fairness ==
  /\ WF_vars(HandleOperation) /\ WF_vars(Off)
  /\ WF_vars(\E t \in aborted : AbortTakesEffect(t))
  /\ \A i \in Ids : SF_vars(\E t \in tasks : t.id = i /\ WatcherReports(t))

Spec == Init /\ [][Next]_vars /\ Fairness

-----------------------------------------------------------------------------
(* Properties.                                                             *)

\* Every variable keeps its type.
TypeOK ==
  /\ pc \in {"select", "offMedia", "offMesh"}
  /\ listening \in BOOLEAN /\ origins \in BOOLEAN /\ nextId \in 0 .. MaxInbound
  /\ accepting \in SUBSET Ids /\ connected \in SUBSET Ids /\ count \in 0 .. MaxInbound
  /\ tasks \in SUBSET [kind : {"accept", "watch"}, id : Ids]
  /\ aborted \in SUBSET [kind : {"accept"}, id : Ids]
  /\ conns \in SUBSET Ids
  /\ opq \in Seq(Events)

\* The number of viewers shown is the number of sessions that are held.
CountIsTrue == pc = "select" => count = Cardinality(connected)

\* No session outlives the listener it came through: without services nothing
\* is accepted or connected.
InboundNeedsListener == pc = "select" /\ ~listening => Entries = {}

\* No session is open without an owner that will close it.
SessionsAreOwned ==
  conns \subseteq connected
          \cup {e.id : e \in {o \in Queued : o.type = "SessionReady" /\ o.ok}}

\* After Off nothing inbound is left that could act or report.
OffIsQuiet == ~origins => tasks = {} /\ aborted = {} /\ conns = {} /\ opq = <<>>

\* Well typed, every session is owned by someone who will close it, goes with
\* its listener, and none survives Off.
OwnedAndQuiet == TypeOK /\ InboundNeedsListener /\ SessionsAreOwned /\ OffIsQuiet

-----------------------------------------------------------------------------
(* Why every session has an owner: the inductive invariant.                *)

AllTasks == tasks \cup aborted

\* A number is given out once, and its accept task comes before all else that
\* carries it.
AcceptComesFirst ==
  /\ \A t \in AllTasks : t.id <= nextId
  /\ \A o \in Queued : o.id <= nextId /\ Task("accept", o.id) \notin AllTasks
  /\ \A t \in tasks : t.kind = "watch" => Task("accept", t.id) \notin AllTasks
  /\ \A t \in tasks : t.kind = "accept" => t.id \in accepting

\* A close in the queue is of a session that is closed.
ClosedIsClosed == \A o \in Queued : o.type = "SessionClosed" => o.id \notin conns

\* What a suspended stop_lan may rely on.
LoopHolds ==
  /\ pc # "select" => ~listening
  /\ pc = "offMesh" => Entries = {}
  /\ listening => origins

InboundInvariant ==
  OwnedAndQuiet /\ CountIsTrue /\ AcceptComesFirst /\ ClosedIsClosed /\ LoopHolds
=============================================================================
