------------------------------ MODULE PeerMesh ------------------------------
(***************************************************************************)
(* Outbound sessions of the Linux desktop runtime: PeerResources and the   *)
(* handlers that dial, accept, refresh, retry and close them in            *)
(* linux/src/runtime/supervisor.rs, the peer registry of                   *)
(* linux/src/network/discovery.rs and the device rows of                   *)
(* linux/src/app/snapshot.rs.                                              *)
(*                                                                         *)
(* A dial, a backoff and the watcher of a session are tasks of their own   *)
(* that report through the operation queue.  Advertisements come and go,   *)
(* change identity or role, and the whole discovery may restart, while     *)
(* such a task runs or its report waits in the queue.                      *)
(*                                                                         *)
(* A connection is named by its peer and the entry generation of its dial. *)
(* LanDiscovery discards reports of stale services before they get here.   *)
(***************************************************************************)
EXTENDS Naturals, Sequences

CONSTANTS
  Peers,
  Keys,        \* identities an advertisement can have: credential, fingerprint
  NodeKeys,    \* the ones that are reached through a node URL (has_node)
  Addrs,       \* candidate addresses
  NoRecord, NoRow, NoEntry, NoAttempt,
  RetryLimit,  \* PEER_RETRY_LIMIT
  QueueCap,    \* EVENT_CAPACITY
  MaxGen       \* bound: no advertisement or remote close beyond this generation

ASSUME MeshAssumption ==
  /\ NodeKeys \subseteq Keys
  /\ RetryLimit \in Nat /\ QueueCap \in Nat \ {0} /\ MaxGen \in Nat

VARIABLES
  pc,        \* "select", or where stop_lan waits: "offMedia", "offMesh"
  lan,       \* services are active
  origins,   \* the LAN origins exist
  dials,     \* should_dial of each peer under the current local id
  registry,  \* PeerRegistry; all NoRecord also stands for None
  rows,      \* AppSnapshot::peers
  out,       \* MeshResources::outbound
  tasks,     \* dials, backoffs and watchers that run
  aborted,   \* dials and backoffs that run on after abort
  conns,     \* connections neither closed nor aborted
  up,        \* the established ones of them
  opq        \* operation queue

vars == <<pc, lan, origins, dials, registry, rows, out, tasks, aborted, conns, up, opq>>

Records    == [key : Keys, addrs : SUBSET Addrs \ {{}}]
Attempts   == [rec : Records, born : Nat, expired : BOOLEAN]
Rows       == [found : BOOLEAN, role : {"Outbound", "Inbound"}, available : BOOLEAN,
               transport : {"Waiting", "Connecting", "Connected", "Failed"}]
\* session and connecting hold the generation of their dial, 0 if None.
Entries    == [gen : Nat, session : Nat, connecting : Nat, budget : 0 .. RetryLimit,
               pending : {"none", "dial", "backoff"}, attempt : Attempts \cup {NoAttempt}]
IdleEntry(g, b) == [gen |-> g, session |-> 0, connecting |-> 0, budget |-> b,
                    pending |-> "none", attempt |-> NoAttempt]
FreshEntry == IdleEntry(0, 0)
TaskSet    == [kind : {"dial", "backoff", "watch"}, peer : Peers, gen : Nat]
Events     == [type : {"SessionReady"}, peer : Peers, gen : Nat, ok : BOOLEAN]
         \cup [type : {"SessionClosed", "RetryOutbound"}, peer : Peers, gen : Nat]

\* None is not a value.
ASSUME NoneAssumption ==
  /\ NoRecord \notin Records /\ NoRow \notin Rows
  /\ NoEntry \notin Entries /\ NoAttempt \notin Attempts

Task(k, p, g)  == [kind |-> k, peer |-> p, gen |-> g]
Ready(p, g, b) == [type |-> "SessionReady", peer |-> p, gen |-> g, ok |-> b]
Closed(p, g)   == [type |-> "SessionClosed", peer |-> p, gen |-> g]
Wake(p, g)     == [type |-> "RetryOutbound", peer |-> p, gen |-> g]
Queued         == {opq[i] : i \in 1 .. Len(opq)}
Room           == Len(opq) < QueueCap
Known(p)       == registry[p] # NoRecord
HasEntry(p)    == out[p] # NoEntry
HasRow(p)      == rows[p] # NoRow
SessionOf(p)   == IF HasEntry(p) THEN out[p].session ELSE 0

-----------------------------------------------------------------------------
(* Rows.                                                                   *)

\* Defective variant: transport does not keep a row.
VisibleIfListed(r) == r.found \/ r.available
\* PeerSnapshot::facts().visible(): transport counts for the dialing side only.
Visible(r) ==
  \/ r.found \/ r.available
  \/ r.role = "Outbound" /\ r.transport \in {"Connecting", "Connected"}

Pruned(r) == IF r # NoRow /\ Visible(r) THEN r ELSE NoRow

\* set_transport
WithTransport(r, t) == Pruned(IF r = NoRow THEN r ELSE [r EXCEPT !.transport = t])

\* upsert_peer
FoundRow(r, dial) ==
  LET role == IF dial THEN "Outbound" ELSE "Inbound" IN
  IF r = NoRow
  THEN [found |-> TRUE, role |-> role, available |-> FALSE, transport |-> "Waiting"]
  ELSE [r EXCEPT !.found = TRUE, !.role = role]

LostRow(r) == Pruned(IF r = NoRow THEN r ELSE [r EXCEPT !.found = FALSE])

-----------------------------------------------------------------------------
(* PeerResources.                                                          *)

\* close: the entry it leaves ...
Shut(e) == IdleEntry(e.gen + 1, e.budget)
\* ... and what it aborts.
HeldTasks(p) == IF HasEntry(p) THEN {t \in tasks : t.peer = p /\ t.gen = out[p].gen
                                                  /\ t.kind = out[p].pending} ELSE {}
\* (Defective variant: the dial still setting up its connection is overlooked.)
HeldSession(p) == IF HasEntry(p) THEN {<<p, out[p].session>>} ELSE {}
HeldConns(p) == IF HasEntry(p) THEN {<<p, out[p].session>>, <<p, out[p].connecting>>} ELSE {}

Abandon(ts, cs, started) ==
  /\ tasks' = (tasks \ ts) \cup started
  /\ aborted' = aborted \cup ts
  /\ up' = up \ cs

EntryOf(p) == IF HasEntry(p) THEN out[p] ELSE FreshEntry

\* start_outbound past its early returns, for the record r.  A dial can fail
\* at once; an expired deadline dials nothing.
Dial(p, r, entry, born, expired, row) ==
  LET g == entry.gen IN
  \E dialed \in IF expired THEN {FALSE} ELSE BOOLEAN :
    /\ out' = [out EXCEPT ![p] =
         [entry EXCEPT !.connecting = IF dialed THEN g ELSE 0, !.pending = "dial",
                       !.attempt = [rec |-> r, born |-> born, expired |-> expired]]]
    /\ rows' = [rows EXCEPT ![p] = WithTransport(row, "Connecting")]
    /\ Abandon(HeldTasks(p), HeldConns(p), {Task("dial", p, g)})
    /\ conns' = (conns \ HeldConns(p)) \cup (IF dialed THEN {<<p, g>>} ELSE {})

\* ensure_outbound for the record r: a fresh deadline.
Ensure(p, r, reset, row) ==
  IF ~reset /\ SessionOf(p) # 0
  THEN rows' = [rows EXCEPT ![p] = row] /\ UNCHANGED <<out, tasks, aborted, conns, up>>
  ELSE LET closed == Shut(EntryOf(p))
           entry  == IF reset THEN [closed EXCEPT !.budget = 0] ELSE closed
       IN  Dial(p, r, entry, entry.gen, FALSE, row)

\* Defective variant: a refreshed dial starts its budget over.
FreshDeadline(a, g) == [rec |-> a.rec, born |-> g, expired |-> FALSE]
SameDeadline(a, g)  == a

\* refresh_outbound: new addresses for a dial still within its budget.  The old
\* dial is joined here; a report it made before is stale by then.
CanRefresh(p, r) ==
  /\ HasEntry(p) /\ out[p].attempt # NoAttempt
  /\ out[p].session = 0 /\ out[p].connecting # 0 /\ <<p, out[p].connecting>> \notin up
  /\ r.key \notin NodeKeys /\ out[p].attempt.rec.key = r.key
  /\ ~(r.addrs \subseteq out[p].attempt.rec.addrs)
  /\ ~out[p].attempt.expired

Refresh(p, r, row) ==
  IF CanRefresh(p, r)
  THEN LET entry == Shut(Shut(out[p]))
           a     == SameDeadline(out[p].attempt, entry.gen)
       IN  Dial(p, r, entry, a.born, a.expired, row)
  ELSE rows' = [rows EXCEPT ![p] = row] /\ UNCHANGED <<out, tasks, aborted, conns, up>>

\* accept_inbound_role: the peer dials us from now on.
AcceptInboundRole(p, row) ==
  IF HasEntry(p)
  THEN /\ out' = [out EXCEPT ![p] = Shut(@)]
       /\ rows' = [rows EXCEPT ![p] = WithTransport(row, "Waiting")]
       /\ Abandon(HeldTasks(p), HeldConns(p), {})
       /\ conns' = conns \ HeldConns(p)
  ELSE rows' = [rows EXCEPT ![p] = row] /\ UNCHANGED <<out, tasks, aborted, conns, up>>

\* Defective variant: no retry is scheduled.
NoRetry(e)  == FALSE
MayRetry(e) == e.budget < RetryLimit

\* schedule_outbound_retry after the entry became e and lost the connections cs.
ScheduleRetry(p, e, cs) ==
  IF ~Known(p)
  THEN /\ out' = [out EXCEPT ![p] = Shut(e)]
       /\ Abandon({}, cs, {}) /\ conns' = conns \ cs
  ELSE IF MayRetry(e)
  THEN /\ out' = [out EXCEPT ![p] = [e EXCEPT !.gen = @ + 1, !.budget = @ + 1,
                                              !.pending = "backoff"]]
       /\ Abandon({}, cs, {Task("backoff", p, e.gen + 1)}) /\ conns' = conns \ cs
  ELSE /\ out' = [out EXCEPT ![p] = e]
       /\ Abandon({}, cs, {}) /\ conns' = conns \ cs

-----------------------------------------------------------------------------
(* Service events, and the discovery restarts that go around them.         *)

\* Services start under a local id that decides who dials whom.
ServicesStarted ==
  /\ pc = "select" /\ ~lan /\ origins
  /\ lan' = TRUE
  /\ dials' \in [Peers -> BOOLEAN]
  /\ UNCHANGED <<pc, origins, registry, rows, out, tasks, aborted, conns, up, opq>>

\* StartDiscovery, RetryDiscovery and recover_discovery: the registry goes,
\* rows are marked lost, sessions stay.
LanRestarts ==
  /\ pc = "select" /\ (lan \/ ~origins)
  /\ lan' = FALSE /\ origins' = TRUE
  /\ registry' = [p \in Peers |-> NoRecord]
  /\ rows' = [p \in Peers |-> LostRow(rows[p])]
  /\ UNCHANGED <<pc, dials, out, tasks, aborted, conns, up, opq>>

\* PeerRegistry::found
Merge(old, r) == IF old # NoRecord /\ old.key = r.key
                 THEN [old EXCEPT !.addrs = @ \cup r.addrs] ELSE r
Update(old, r) ==
  IF old = NoRecord THEN "Added"
  ELSE IF old.key # r.key THEN "IdentityReplaced"
  ELSE IF r.addrs \subseteq old.addrs THEN "Unchanged" ELSE "CandidatesMerged"

\* reset_outbound_for
ResetOutbound(update, active) == update = "IdentityReplaced" \/ ~active

OnFound(p, r) ==
  /\ pc = "select" /\ lan
  /\ HasEntry(p) => out[p].gen < MaxGen
  /\ LET update == Update(registry[p], r)
         merged == Merge(registry[p], r)
         row    == FoundRow(rows[p], dials[p])
         active == HasEntry(p) /\ (out[p].session # 0 \/ out[p].pending # "none")
         reset  == ResetOutbound(update, active)
     IN  /\ registry' = [registry EXCEPT ![p] = merged]
         /\ CASE ~dials[p] -> AcceptInboundRole(p, row)
              [] dials[p] /\ ~reset /\ update = "CandidatesMerged" -> Refresh(p, merged, row)
              [] dials[p] /\ (reset \/ update = "Added") -> Ensure(p, merged, reset, row)
              [] OTHER -> rows' = [rows EXCEPT ![p] = row]
                          /\ UNCHANGED <<out, tasks, aborted, conns, up>>
  /\ UNCHANGED <<pc, lan, origins, dials, opq>>

\* Defective variant: an advertisement that goes takes its session along.
LostCloses(p) ==
  /\ out' = [out EXCEPT ![p] = IF HasEntry(p) THEN Shut(@) ELSE @]
  /\ Abandon(HeldTasks(p), HeldConns(p), {}) /\ conns' = conns \ HeldConns(p)
LostKeeps(p) == UNCHANGED <<out, tasks, aborted, conns, up>>

OnLost(p) ==
  /\ pc = "select" /\ lan /\ Known(p)
  /\ registry' = [registry EXCEPT ![p] = NoRecord]
  /\ rows' = [rows EXCEPT ![p] = LostRow(@)]
  /\ LostKeeps(p)
  /\ UNCHANGED <<pc, lan, origins, dials, opq>>

\* A screen route of the peer starts or ends (update_remote_screen).
OnScreenAnnouncement(p, active) ==
  /\ pc = "select" /\ origins
  /\ rows' = [rows EXCEPT ![p] =
       IF @ = NoRow
       THEN IF active THEN [found |-> FALSE, role |-> "Inbound", available |-> TRUE,
                            transport |-> "Waiting"] ELSE NoRow
       ELSE Pruned([@ EXCEPT !.available = active])]
  /\ UNCHANGED <<pc, lan, origins, dials, registry, out, tasks, aborted, conns, up, opq>>

-----------------------------------------------------------------------------
(* Operation queue.                                                        *)

\* The guard of all three handlers.
Current(e) == HasEntry(e.peer) /\ out[e.peer].gen = e.gen

Receive(type) ==
  /\ pc = "select" /\ opq # <<>> /\ Head(opq).type = type
  /\ opq' = Tail(opq)
  /\ UNCHANGED <<pc, lan, origins, dials, registry>>

\* The connection of a late session was already closed with its dial; the
\* handler closes it again.
LateClosed(e)   == IF e.ok THEN conns' = conns \ {<<e.peer, e.gen>>}
                              /\ up' = up \ {<<e.peer, e.gen>>}
                   ELSE UNCHANGED <<conns, up>>

OnStaleReady ==
  /\ Receive("SessionReady") /\ ~Current(Head(opq))
  /\ LateClosed(Head(opq))
  /\ UNCHANGED <<rows, out, tasks, aborted>>

Watched(p, g) == {Task("watch", p, g)}

OnReady ==
  /\ Receive("SessionReady") /\ Current(Head(opq)) /\ Head(opq).ok
  /\ LET p == Head(opq).peer
         g == Head(opq).gen
     IN  /\ out' = [out EXCEPT ![p] = [@ EXCEPT !.attempt = NoAttempt, !.pending = "none",
                      !.connecting = 0, !.session = g, !.budget = 0]]
         /\ rows' = [rows EXCEPT ![p] = WithTransport(@, "Connected")]
         /\ tasks' = tasks \cup Watched(p, g)
  /\ UNCHANGED <<aborted, conns, up>>

OnDialFailed ==
  /\ Receive("SessionReady") /\ Current(Head(opq)) /\ ~Head(opq).ok
  /\ LET p == Head(opq).peer IN
       /\ rows' = [rows EXCEPT ![p] = WithTransport(@, "Failed")]
       /\ ScheduleRetry(p, [out[p] EXCEPT !.attempt = NoAttempt, !.pending = "none",
                                          !.connecting = 0],
                        {<<p, out[p].connecting>>})

OnSessionClosed ==
  /\ Receive("SessionClosed")
  /\ LET p == Head(opq).peer IN
     IF Current(Head(opq))
     THEN /\ rows' = [rows EXCEPT ![p] = WithTransport(@, "Failed")]
          /\ ScheduleRetry(p, [out[p] EXCEPT !.session = 0], {<<p, out[p].session>>})
     ELSE UNCHANGED <<rows, out, tasks, aborted, conns, up>>

OnRetryOutbound ==
  /\ Receive("RetryOutbound")
  /\ LET p == Head(opq).peer IN
     IF Current(Head(opq)) /\ Known(p)
     THEN Ensure(p, registry[p], FALSE, rows[p])
     ELSE UNCHANGED <<rows, out, tasks, aborted, conns, up>>

HandleOperation ==
  OnStaleReady \/ OnReady \/ OnDialFailed \/ OnSessionClosed \/ OnRetryOutbound

-----------------------------------------------------------------------------
(* stop_lan, cut at its awaits.                                            *)

\* Discovery is stopped; view and publication are being joined.
StopLan ==
  /\ pc = "select"
  /\ lan' = FALSE /\ registry' = [p \in Peers |-> NoRecord]
  /\ pc' = "offMedia"
  /\ UNCHANGED <<origins, dials, rows, out, tasks, aborted, conns, up, opq>>

\* Every connection owner is closed and its tasks are aborted.
StopLanMesh ==
  /\ pc = "offMedia"
  /\ out' = [p \in Peers |-> IF HasEntry(p) THEN Shut(Shut(out[p])) ELSE NoEntry]
  /\ LET held  == UNION {HeldTasks(p) : p \in Peers}
         links == UNION {HeldConns(p) : p \in Peers}
     IN  Abandon(held, links, {}) /\ conns' = conns \ links
  /\ pc' = "offMesh"
  /\ UNCHANGED <<lan, origins, dials, registry, rows, opq>>

ProducersJoined  == aborted = {}

\* Tasks are joined and watchers stopped, then the queue is drained and the
\* sessions in it are closed.
StopLanDrain ==
  /\ pc = "offMesh" /\ ProducersJoined
  /\ LET late == {<<e.peer, e.gen>> : e \in {o \in Queued : o.type = "SessionReady"}}
     IN  conns' = conns \ late /\ up' = up \ late
  /\ tasks' = {t \in tasks : t.kind # "watch"} /\ opq' = <<>>
  /\ out' = [p \in Peers |-> NoEntry] /\ rows' = [p \in Peers |-> NoRow]
  /\ origins' = FALSE
  /\ pc' = "select"
  /\ UNCHANGED <<lan, dials, registry, aborted>>

-----------------------------------------------------------------------------
(* Tasks and the network.                                                  *)

Quiet == UNCHANGED <<pc, lan, origins, dials, registry, rows, out>>

Establish(c) ==
  /\ c \in conns /\ c \notin up
  /\ up' = up \cup {c}
  /\ Quiet /\ UNCHANGED <<tasks, aborted, conns, opq>>

\* The remote side or the network ends a connection.
ConnectionEnds(c) ==
  /\ c \in up /\ HasEntry(c[1]) /\ out[c[1]].gen < MaxGen
  /\ conns' = conns \ {c} /\ up' = up \ {c}
  /\ Quiet /\ UNCHANGED <<tasks, aborted, opq>>

DeadlinePasses(p) ==
  /\ HasEntry(p) /\ out[p].attempt # NoAttempt /\ ~out[p].attempt.expired
  /\ out' = [out EXCEPT ![p].attempt.expired = TRUE]
  /\ UNCHANGED <<pc, lan, origins, dials, registry, rows, tasks, aborted, conns, up, opq>>

Finish(t, e) ==
  /\ t \in tasks \cup aborted /\ Room
  /\ opq' = Append(opq, e)
  /\ tasks' = tasks \ {t} /\ aborted' = aborted \ {t}
  /\ Quiet

DialConnects(t) ==
  /\ t.kind = "dial" /\ <<t.peer, t.gen>> \in up
  /\ Finish(t, Ready(t.peer, t.gen, TRUE)) /\ UNCHANGED <<conns, up>>

\* Setup failed, or the deadline passed and the dial aborted its connection.
DialFails(t) ==
  /\ t.kind = "dial"
  /\ Finish(t, Ready(t.peer, t.gen, FALSE))
  /\ \E cs \in {{}, {<<t.peer, t.gen>>}} : conns' = conns \ cs /\ up' = up \ cs

BackoffEnds(t) ==
  /\ t.kind = "backoff"
  /\ Finish(t, Wake(t.peer, t.gen)) /\ UNCHANGED <<conns, up>>

WatcherReports(t) ==
  /\ t.kind = "watch" /\ <<t.peer, t.gen>> \notin conns
  /\ Finish(t, Closed(t.peer, t.gen)) /\ UNCHANGED <<conns, up>>

\* Defective variant: a blocked send does not notice the abort.
AbortAfterSend(t) ==
  /\ t \in aborted /\ Room
  /\ aborted' = aborted \ {t}
  /\ Quiet /\ UNCHANGED <<tasks, conns, up, opq>>
\* An aborted dial drops its result; its connection was aborted with it.
AbortTakesEffect(t) ==
  /\ t \in aborted
  /\ aborted' = aborted \ {t}
  /\ Quiet /\ UNCHANGED <<tasks, conns, up, opq>>

TaskFinishes(t) == DialConnects(t) \/ DialFails(t) \/ BackoffEnds(t) \/ WatcherReports(t)

-----------------------------------------------------------------------------
Init ==
  /\ pc = "select" /\ lan = FALSE /\ origins = FALSE
  /\ dials = [p \in Peers |-> FALSE]
  /\ registry = [p \in Peers |-> NoRecord] /\ rows = [p \in Peers |-> NoRow]
  /\ out = [p \in Peers |-> NoEntry]
  /\ tasks = {} /\ aborted = {} /\ conns = {} /\ up = {} /\ opq = <<>>

Discovery ==
  \/ ServicesStarted \/ LanRestarts
  \/ \E p \in Peers :
       \/ (\E r \in Records : OnFound(p, r))
       \/ OnLost(p)
       \/ (\E b \in BOOLEAN : OnScreenAnnouncement(p, b))

Off == StopLanMesh \/ StopLanDrain

Tasks ==
  \/ (\E t \in tasks \cup aborted : TaskFinishes(t))
  \/ (\E t \in aborted : AbortTakesEffect(t))

Network ==
  \/ (\E c \in conns : Establish(c) \/ ConnectionEnds(c))
  \/ (\E p \in Peers : DeadlinePasses(p))

Next == Discovery \/ HandleOperation \/ StopLan \/ Off \/ Tasks \/ Network

\* The loop serves the queue, a stop goes on, and room in the queue is granted
\* in arrival order (SF).  A dial ends by its deadline, a backoff by its timer;
\* the network and the user owe nothing.
Fairness ==
  /\ WF_vars(HandleOperation) /\ WF_vars(Off)
  /\ WF_vars(\E t \in aborted : AbortTakesEffect(t))
  /\ \A p \in Peers, k \in {"dial", "backoff", "watch"} :
       SF_vars(\E t \in tasks : t.peer = p /\ t.kind = k /\ TaskFinishes(t))

Spec == Init /\ [][Next]_vars /\ Fairness

-----------------------------------------------------------------------------
(* Properties.                                                             *)

\* Every variable keeps its type.
TypeOK ==
  /\ pc \in {"select", "offMedia", "offMesh"}
  /\ lan \in BOOLEAN /\ origins \in BOOLEAN /\ dials \in [Peers -> BOOLEAN]
  /\ registry \in [Peers -> Records \cup {NoRecord}]
  /\ rows \in [Peers -> Rows \cup {NoRow}]
  /\ out \in [Peers -> Entries \cup {NoEntry}]
  /\ tasks \in SUBSET TaskSet /\ aborted \in SUBSET TaskSet
  /\ conns \in SUBSET (Peers \X Nat) /\ up \in SUBSET conns
  /\ opq \in Seq(Events)

\* The row tells the truth: it shows Connected exactly while the entry has a
\* session, and a peer with a session never disappears from the list.
RowShowsTheSession ==
  pc = "select" =>
    \A p \in Peers :
      SessionOf(p) # 0 <=> HasRow(p) /\ rows[p].transport = "Connected"
                                     /\ rows[p].role = "Outbound"

\* No connection is open without an owner that will close it: a live one is
\* the session or the running dial of its peer, never that of a dial replaced.
ConnectionsAreOwned ==
  \A c \in conns :
    HasEntry(c[1]) /\ c[2] \in {out[c[1]].session, out[c[1]].connecting}

\* After Off nothing of the mesh is left that could act or report.
OffIsQuiet ==
  ~origins => tasks = {} /\ aborted = {} /\ conns = {} /\ opq = <<>>

\* Through dials that are replaced, refreshed and late, well typed, every open
\* connection has one owner, and none survives Off.
OwnedAndQuiet == TypeOK /\ ConnectionsAreOwned /\ OffIsQuiet

\* A healthy session ends only with Off, a replaced identity or a changed role:
\* not with a lost advertisement, a restart of discovery, or a late report.
HealthySessionIsKept ==
  [][\A p \in Peers :
       (SessionOf(p) # 0 /\ <<p, SessionOf(p)>> \in up /\ SessionOf(p)' # SessionOf(p)) =>
         \/ pc # "select"
         \/ lan /\ ~dials[p]
         \/ Known(p) /\ registry'[p] # NoRecord /\ registry'[p].key # registry[p].key
    ]_vars

\* While a peer stays known under one identity, its running attempt keeps the
\* deadline it began with, however often its addresses are announced again.
DeadlineIsNotExtended ==
  [][\A p \in Peers :
       (/\ Known(p) /\ registry'[p] # NoRecord /\ registry'[p].key = registry[p].key
        /\ HasEntry(p) /\ out'[p] # NoEntry
        /\ out[p].attempt # NoAttempt /\ out'[p].attempt # NoAttempt) =>
          out'[p].attempt.born = out[p].attempt.born]_vars

\* A peer that stays known and is ours to dial ends up on a live session or
\* given up: it is neither left Connecting nor kept on a session that died.
KnownPeerIsSettled ==
  \A p \in Peers :
    (Known(p) /\ dials[p]) ~>
      (~Known(p) \/ <<p, SessionOf(p)>> \in up \/ (HasEntry(p) /\ out[p].budget = RetryLimit))

\* Off comes to its end, whatever the tasks it joins are blocked on.
OffCompletes == pc # "select" ~> pc = "select"
=============================================================================
