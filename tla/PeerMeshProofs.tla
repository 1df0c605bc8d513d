--------------------------- MODULE PeerMeshProofs ---------------------------
(***************************************************************************)
(* Proofs about PeerMesh: types first, then the inductive invariant behind *)
(* its safety and action properties, and last the properties.              *)
(***************************************************************************)
EXTENDS PeerMesh, QueueLemmas

-----------------------------------------------------------------------------
(* Types.                                                                  *)

\* The variables that dialing and closing change.
MeshTyped ==
  /\ rows \in [Peers -> Rows \cup {NoRow}]
  /\ out \in [Peers -> Entries \cup {NoEntry}]
  /\ tasks \in SUBSET TaskSet /\ aborted \in SUBSET TaskSet
  /\ conns \in SUBSET (Peers \X Nat) /\ up \in SUBSET conns

\* What the row helpers return is a row or none.
LEMMA RowsAreTyped ==
  ASSUME NEW r \in Rows \cup {NoRow}
  PROVE  /\ Pruned(r) \in Rows \cup {NoRow} /\ LostRow(r) \in Rows \cup {NoRow}
         /\ \A t \in {"Waiting", "Connecting", "Connected", "Failed"} :
              WithTransport(r, t) \in Rows \cup {NoRow}
         /\ \A dial \in BOOLEAN : FoundRow(r, dial) \in Rows
<1>1. \A x \in Rows \cup {NoRow} : Pruned(x) \in Rows \cup {NoRow}
  BY DEF Pruned
<1>2. r # NoRow => [r EXCEPT !.found = FALSE] \in Rows
  BY DEF Rows
<1>3. \A t \in {"Waiting", "Connecting", "Connected", "Failed"} :
        r # NoRow => [r EXCEPT !.transport = t] \in Rows
  BY DEF Rows
<1>4. LostRow(r) \in Rows \cup {NoRow}
  BY <1>1, <1>2 DEF LostRow
<1>5. \A t \in {"Waiting", "Connecting", "Connected", "Failed"} :
        WithTransport(r, t) \in Rows \cup {NoRow}
  BY <1>1, <1>3 DEF WithTransport
<1>6. \A dial \in BOOLEAN : FoundRow(r, dial) \in Rows
  BY DEF FoundRow, Rows
<1> QED BY <1>1, <1>4, <1>5, <1>6

\* A closed entry and the entry of a peer are entries.
LEMMA EntriesAreTyped ==
  /\ FreshEntry \in Entries
  /\ \A e \in Entries : Shut(e) \in Entries
  /\ \A e \in Entries : [e EXCEPT !.budget = 0] \in Entries
  /\ \A e \in Entries, g \in Nat :
       [e EXCEPT !.attempt = NoAttempt, !.pending = "none", !.connecting = 0, !.session = g,
                 !.budget = 0] \in Entries
<1> USE MeshAssumption
<1>1. FreshEntry \in Entries
  BY DEF FreshEntry, IdleEntry, Entries
<1>2. ASSUME NEW e \in Entries PROVE Shut(e) \in Entries
  BY DEF Shut, IdleEntry, Entries
<1>3. ASSUME NEW e \in Entries PROVE [e EXCEPT !.budget = 0] \in Entries
  BY DEF Entries
<1>4. ASSUME NEW e \in Entries, NEW g \in Nat
      PROVE  [e EXCEPT !.attempt = NoAttempt, !.pending = "none", !.connecting = 0, !.session = g,
                       !.budget = 0] \in Entries
  <2>1. 0 \in 0 .. RetryLimit
    OBVIOUS
  <2> QED BY <2>1 DEF Entries
<1> QED BY <1>1, <1>2, <1>3, <1>4

\* An entry is there or it is none.
LEMMA EntryIsThere ==
  ASSUME TypeOK, NEW p \in Peers
  PROVE  /\ HasEntry(p) => out[p] \in Entries
         /\ EntryOf(p) \in Entries
         /\ HeldTasks(p) \subseteq tasks
  BY EntriesAreTyped DEF TypeOK, HasEntry, EntryOf, HeldTasks

\* Leaving tasks and connections behind keeps types.
LEMMA AbandonIsTyped ==
  ASSUME TypeOK, NEW ts \in SUBSET tasks, NEW cs, NEW started \in SUBSET TaskSet,
         NEW new \in SUBSET (Peers \X Nat),
         Abandon(ts, cs, started), conns' = (conns \ cs) \cup new
  PROVE  /\ tasks' \in SUBSET TaskSet /\ aborted' \in SUBSET TaskSet
         /\ conns' \in SUBSET (Peers \X Nat) /\ up' \in SUBSET conns'
  BY DEF TypeOK, Abandon

\* A dial keeps types.
LEMMA DialIsTyped ==
  ASSUME TypeOK, NEW p \in Peers, NEW r \in Records, NEW e \in Entries, NEW born \in Nat,
         NEW expired \in BOOLEAN, NEW row \in Rows \cup {NoRow},
         Dial(p, r, e, born, expired, row)
  PROVE  MeshTyped'
<1>1. PICK dialed \in BOOLEAN :
        /\ out' = [out EXCEPT ![p] =
             [e EXCEPT !.connecting = IF dialed THEN e.gen ELSE 0, !.pending = "dial",
                       !.attempt = [rec |-> r, born |-> born, expired |-> expired]]]
        /\ rows' = [rows EXCEPT ![p] = WithTransport(row, "Connecting")]
        /\ Abandon(HeldTasks(p), HeldConns(p), {Task("dial", p, e.gen)})
        /\ conns' = (conns \ HeldConns(p)) \cup (IF dialed THEN {<<p, e.gen>>} ELSE {})
  BY DEF Dial
<1>2. [rec |-> r, born |-> born, expired |-> expired] \in Attempts
  BY DEF Attempts
<1>3. e.gen \in Nat
  BY DEF Entries
<1>4. [e EXCEPT !.connecting = IF dialed THEN e.gen ELSE 0, !.pending = "dial",
                !.attempt = [rec |-> r, born |-> born, expired |-> expired]] \in Entries
  BY <1>2, <1>3 DEF Entries
<1>5. out' \in [Peers -> Entries \cup {NoEntry}]
  BY <1>1, <1>4 DEF TypeOK
<1>6. rows' \in [Peers -> Rows \cup {NoRow}]
  BY <1>1, RowsAreTyped DEF TypeOK
<1>7. {Task("dial", p, e.gen)} \in SUBSET TaskSet
  BY <1>3 DEF Task, TaskSet
<1>8. (IF dialed THEN {<<p, e.gen>>} ELSE {}) \in SUBSET (Peers \X Nat)
  BY <1>3
<1>9. /\ tasks' \in SUBSET TaskSet /\ aborted' \in SUBSET TaskSet
      /\ conns' \in SUBSET (Peers \X Nat) /\ up' \in SUBSET conns'
  <2>1. HeldTasks(p) \in SUBSET tasks
    BY EntryIsThere
  <2> QED BY <1>1, <1>7, <1>8, <2>1, AbandonIsTyped
<1> QED BY <1>5, <1>6, <1>9 DEF MeshTyped

\* So do the handlers' parts that dial or close.
LEMMA EnsureIsTyped ==
  ASSUME TypeOK, NEW p \in Peers, NEW r \in Records, NEW reset \in BOOLEAN,
         NEW row \in Rows \cup {NoRow}, Ensure(p, r, reset, row)
  PROVE  MeshTyped'
<1>1. CASE ~reset /\ SessionOf(p) # 0
  BY <1>1 DEF Ensure, TypeOK, MeshTyped
<1>2. CASE ~(~reset /\ SessionOf(p) # 0)
  <2> DEFINE closed == Shut(EntryOf(p))
             entry  == IF reset THEN [closed EXCEPT !.budget = 0] ELSE closed
  <2>1. entry \in Entries
    BY EntryIsThere, EntriesAreTyped
  <2>2. entry.gen \in Nat
    BY <2>1 DEF Entries
  <2>3. Dial(p, r, entry, entry.gen, FALSE, row)
    BY <1>2 DEF Ensure
  <2> QED BY <2>1, <2>2, <2>3, DialIsTyped
<1> QED BY <1>1, <1>2

\* New addresses for a dial under way: the attempt that goes on is still one.
LEMMA RefreshIsTyped ==
  ASSUME TypeOK, NEW p \in Peers, NEW r \in Records,
         NEW row \in Rows \cup {NoRow}, Refresh(p, r, row)
  PROVE  MeshTyped'
<1>1. CASE ~CanRefresh(p, r)
  BY <1>1 DEF Refresh, TypeOK, MeshTyped
<1>2. CASE CanRefresh(p, r)
  <2> DEFINE entry == Shut(Shut(out[p]))
             a == SameDeadline(out[p].attempt, entry.gen)
  <2>1. out[p] \in Entries /\ entry \in Entries
    BY <1>2, EntryIsThere, EntriesAreTyped DEF CanRefresh
  <2>2. a \in Attempts
    <3>1. out[p].attempt \in Attempts \cup {NoAttempt}
      BY <2>1 DEF Entries
    <3>2. a = out[p].attempt /\ out[p].attempt # NoAttempt
      BY <1>2 DEF CanRefresh, SameDeadline
    <3> QED BY <3>1, <3>2
  <2>3. a.born \in Nat /\ a.expired \in BOOLEAN
    BY <2>2 DEF Attempts
  <2>4. Dial(p, r, entry, a.born, a.expired, row)
    BY <1>2 DEF Refresh
  <2> QED BY <2>1, <2>3, <2>4, DialIsTyped
<1> QED BY <1>1, <1>2

\* A peer that is to dial us loses what we held to it and keeps its entry.
LEMMA AcceptIsTyped ==
  ASSUME TypeOK, NEW p \in Peers, NEW row \in Rows \cup {NoRow}, AcceptInboundRole(p, row)
  PROVE  MeshTyped'
<1>1. CASE ~HasEntry(p)
  BY <1>1 DEF AcceptInboundRole, TypeOK, MeshTyped
<1>2. CASE HasEntry(p)
  <2>1. /\ out' = [out EXCEPT ![p] = Shut(@)]
        /\ rows' = [rows EXCEPT ![p] = WithTransport(row, "Waiting")]
        /\ Abandon(HeldTasks(p), HeldConns(p), {})
        /\ conns' = (conns \ HeldConns(p)) \cup {}
    BY <1>2 DEF AcceptInboundRole
  <2>2. out' \in [Peers -> Entries \cup {NoEntry}]
    <3>1. Shut(out[p]) \in Entries
      BY <1>2, EntryIsThere, EntriesAreTyped
    <3> QED BY <2>1, <3>1 DEF TypeOK
  <2>3. rows' \in [Peers -> Rows \cup {NoRow}]
    BY <2>1, RowsAreTyped DEF TypeOK
  <2>4. HeldTasks(p) \in SUBSET tasks
    BY EntryIsThere
  <2>5. /\ tasks' \in SUBSET TaskSet /\ aborted' \in SUBSET TaskSet
        /\ conns' \in SUBSET (Peers \X Nat) /\ up' \in SUBSET conns'
    BY <2>1, <2>4 DEF Abandon, TypeOK
  <2> QED BY <2>2, <2>3, <2>5 DEF MeshTyped
<1> QED BY <1>1, <1>2

\* A failed dial waits for its backoff or is given up.
LEMMA ScheduleIsTyped ==
  ASSUME TypeOK, NEW p \in Peers, NEW e \in Entries, NEW cs, ScheduleRetry(p, e, cs),
         rows' \in [Peers -> Rows \cup {NoRow}]
  PROVE  MeshTyped'
<1>1. PICK f \in Entries, started \in SUBSET TaskSet :
        /\ out' = [out EXCEPT ![p] = f]
        /\ Abandon({}, cs, started) /\ conns' = conns \ cs
  <2>1. CASE ~Known(p)
    <3>1. Shut(e) \in Entries
      BY EntriesAreTyped
    <3> QED BY <2>1, <3>1 DEF ScheduleRetry
  <2>2. CASE Known(p) /\ MayRetry(e)
    <3>1. [e EXCEPT !.gen = @ + 1, !.budget = @ + 1, !.pending = "backoff"] \in Entries
      <4>1. e.gen + 1 \in Nat /\ e.budget + 1 \in 0 .. RetryLimit
        BY <2>2, MeshAssumption DEF MayRetry, Entries
      <4> QED BY <4>1 DEF Entries
    <3>2. {Task("backoff", p, e.gen + 1)} \in SUBSET TaskSet
      BY DEF Task, TaskSet, Entries
    <3> QED BY <2>2, <3>1, <3>2 DEF ScheduleRetry
  <2>3. CASE Known(p) /\ ~MayRetry(e)
    BY <2>3 DEF ScheduleRetry
  <2> QED BY <2>1, <2>2, <2>3
<1>2. out' \in [Peers -> Entries \cup {NoEntry}]
  BY <1>1 DEF TypeOK
<1>3. /\ tasks' \in SUBSET TaskSet /\ aborted' \in SUBSET TaskSet
      /\ conns' \in SUBSET (Peers \X Nat) /\ up' \in SUBSET conns'
  BY <1>1 DEF TypeOK, Abandon
<1> QED BY <1>2, <1>3 DEF MeshTyped

\* What an advertisement leaves in the registry is a record.
LEMMA MergeIsTyped ==
  ASSUME NEW old \in Records \cup {NoRecord}, NEW r \in Records
  PROVE  Merge(old, r) \in Records
<1>1. CASE old # NoRecord /\ old.key = r.key
  <2>1. old \in Records /\ old.addrs \cup r.addrs \in SUBSET Addrs \ {{}}
    BY <1>1 DEF Records
  <2>2. Merge(old, r) = [old EXCEPT !.addrs = old.addrs \cup r.addrs]
    BY <1>1 DEF Merge
  <2> QED BY <2>1, <2>2 DEF Records
<1>2. CASE ~(old # NoRecord /\ old.key = r.key)
  BY <1>2 DEF Merge
<1> QED BY <1>1, <1>2

\* A task that finishes sends an event.
LEMMA EventsAreTyped ==
  ASSUME TypeOK, NEW t \in tasks \cup aborted
  PROVE  /\ t.peer \in Peers /\ t.gen \in Nat
         /\ \A b \in BOOLEAN : Ready(t.peer, t.gen, b) \in Events
         /\ Closed(t.peer, t.gen) \in Events /\ Wake(t.peer, t.gen) \in Events
<1>1. t.peer \in Peers /\ t.gen \in Nat
  BY DEF TypeOK, TaskSet
<1> QED BY <1>1 DEF Ready, Closed, Wake, Events

\* An event that is received is typed, and the rest of the queue is kept.
LEMMA ReceivedIsTyped ==
  ASSUME TypeOK, NEW type, Receive(type)
  PROVE  /\ Head(opq) \in Events /\ Head(opq).peer \in Peers /\ Head(opq).gen \in Nat
         /\ opq' \in Seq(Events)
         /\ UNCHANGED <<pc, lan, origins, dials, registry>>
<1>1. Head(opq) \in Events /\ opq' \in Seq(Events)
  BY TailShifts DEF Receive, TypeOK
<1>2. \A e \in Events : e.peer \in Peers /\ e.gen \in Nat
  BY DEF Events
<1> QED BY <1>1, <1>2 DEF Receive

\* Every variable keeps its type, for all peers, identities, addresses, retry
\* limits and queue capacities.
THEOREM MeshTypeCorrect == Spec => []TypeOK
<1>1. Init => TypeOK
  <2> SUFFICES ASSUME Init PROVE TypeOK
    OBVIOUS
  <2>1. opq \in Seq(Events) /\ dials \in [Peers -> BOOLEAN]
    BY DEF Init
  <2>2. registry \in [Peers -> Records \cup {NoRecord}]
    BY DEF Init
  <2>3. rows \in [Peers -> Rows \cup {NoRow}] /\ out \in [Peers -> Entries \cup {NoEntry}]
    BY DEF Init
  <2>4. /\ pc = "select" /\ lan = FALSE /\ origins = FALSE
        /\ tasks = {} /\ aborted = {} /\ conns = {} /\ up = {}
    BY DEF Init
  <2> QED BY <2>1, <2>2, <2>3, <2>4 DEF TypeOK
<1>2. TypeOK /\ [Next]_vars => TypeOK'
  <2> SUFFICES ASSUME TypeOK, [Next]_vars PROVE TypeOK'
    OBVIOUS
  <2>1. CASE ServicesStarted
    BY <2>1 DEF ServicesStarted, TypeOK
  <2>2. CASE LanRestarts
    <3>1. \A p \in Peers : LostRow(rows[p]) \in Rows \cup {NoRow}
      BY RowsAreTyped DEF TypeOK
    <3> QED BY <2>2, <3>1 DEF LanRestarts, TypeOK
  <2>3. ASSUME NEW p \in Peers, NEW r \in Records, OnFound(p, r) PROVE TypeOK'
    <3> DEFINE update == Update(registry[p], r)
               merged == Merge(registry[p], r)
               row    == FoundRow(rows[p], dials[p])
               active == HasEntry(p) /\ (out[p].session # 0 \/ out[p].pending # "none")
               reset  == ResetOutbound(update, active)
    <3>1. /\ registry' = [registry EXCEPT ![p] = merged]
          /\ UNCHANGED <<pc, lan, origins, dials, opq>>
          /\ \/ AcceptInboundRole(p, row)
             \/ Refresh(p, merged, row)
             \/ Ensure(p, merged, reset, row)
             \/ rows' = [rows EXCEPT ![p] = row] /\ UNCHANGED <<out, tasks, aborted, conns, up>>
      BY <2>3 DEF OnFound
    <3>2. merged \in Records
      BY MergeIsTyped DEF TypeOK
    <3>3. row \in Rows
      BY RowsAreTyped DEF TypeOK
    <3>4. reset \in BOOLEAN
      BY DEF ResetOutbound
    <3>5. MeshTyped'
      <4>1. CASE AcceptInboundRole(p, row)
        BY <3>3, <4>1, AcceptIsTyped
      <4>2. CASE Refresh(p, merged, row)
        BY <3>2, <3>3, <4>2, RefreshIsTyped
      <4>3. CASE Ensure(p, merged, reset, row)
        BY <3>2, <3>3, <3>4, <4>3, EnsureIsTyped
      <4>4. CASE rows' = [rows EXCEPT ![p] = row] /\ UNCHANGED <<out, tasks, aborted, conns, up>>
        BY <3>3, <4>4 DEF TypeOK, MeshTyped
      <4> QED BY <3>1, <4>1, <4>2, <4>3, <4>4
    <3>6. registry' \in [Peers -> Records \cup {NoRecord}]
      BY <3>1, <3>2 DEF TypeOK
    <3> QED BY <3>1, <3>5, <3>6 DEF TypeOK, MeshTyped
  <2>4. ASSUME NEW p \in Peers, OnLost(p) PROVE TypeOK'
    <3>1. LostRow(rows[p]) \in Rows \cup {NoRow}
      BY RowsAreTyped DEF TypeOK
    <3> QED BY <2>4, <3>1 DEF OnLost, LostKeeps, TypeOK
  <2>5. ASSUME NEW p \in Peers, NEW b \in BOOLEAN, OnScreenAnnouncement(p, b) PROVE TypeOK'
    <3>1. [found |-> FALSE, role |-> "Inbound", available |-> TRUE, transport |-> "Waiting"] \in Rows
      BY DEF Rows
    <3>2. rows[p] # NoRow => Pruned([rows[p] EXCEPT !.available = b]) \in Rows \cup {NoRow}
      BY DEF Pruned, TypeOK, Rows
    <3>3. rows' \in [Peers -> Rows \cup {NoRow}]
      BY <2>5, <3>1, <3>2 DEF OnScreenAnnouncement, TypeOK
    <3> QED BY <2>5, <3>3 DEF OnScreenAnnouncement, TypeOK
  <2>6. CASE OnStaleReady
    <3>1. opq' \in Seq(Events) /\ UNCHANGED <<pc, lan, origins, dials, registry>>
      BY <2>6, ReceivedIsTyped DEF OnStaleReady
    <3>2. conns' \in SUBSET (Peers \X Nat) /\ up' \in SUBSET conns'
      BY <2>6 DEF OnStaleReady, LateClosed, TypeOK
    <3> QED BY <2>6, <3>1, <3>2 DEF OnStaleReady, TypeOK
  <2>7. CASE OnReady
    <3> DEFINE p == Head(opq).peer
               g == Head(opq).gen
               e == [out[p] EXCEPT !.attempt = NoAttempt, !.pending = "none",
                      !.connecting = 0, !.session = g, !.budget = 0]
    <3>1. /\ p \in Peers /\ g \in Nat /\ opq' \in Seq(Events)
          /\ UNCHANGED <<pc, lan, origins, dials, registry>>
      BY <2>7, ReceivedIsTyped DEF OnReady
    <3>2. /\ out' = [out EXCEPT ![p] = e]
          /\ rows' = [rows EXCEPT ![p] = WithTransport(@, "Connected")]
          /\ tasks' = tasks \cup {Task("watch", p, g)}
          /\ UNCHANGED <<aborted, conns, up>>
      BY <2>7 DEF OnReady, Watched
    <3>3. e \in Entries
      <4>1. out[p] \in Entries
        BY <2>7, <3>1, EntryIsThere DEF OnReady, Current
      <4> QED BY <3>1, <4>1, EntriesAreTyped
    <3>4. out' \in [Peers -> Entries \cup {NoEntry}]
      BY <3>2, <3>3 DEF TypeOK
    <3>5. rows' \in [Peers -> Rows \cup {NoRow}]
      BY <3>1, <3>2, RowsAreTyped DEF TypeOK
    <3>6. tasks' \in SUBSET TaskSet
      BY <3>1, <3>2 DEF TypeOK, Task, TaskSet
    <3> QED BY <3>1, <3>2, <3>4, <3>5, <3>6 DEF TypeOK
  <2>8. CASE OnDialFailed
    <3> DEFINE p == Head(opq).peer
               e == [out[p] EXCEPT !.attempt = NoAttempt, !.pending = "none", !.connecting = 0]
    <3>1. p \in Peers /\ opq' \in Seq(Events) /\ UNCHANGED <<pc, lan, origins, dials, registry>>
      BY <2>8, ReceivedIsTyped DEF OnDialFailed
    <3>2. e \in Entries
      <4>1. out[p] \in Entries
        BY <2>8, <3>1, EntryIsThere DEF OnDialFailed, Current
      <4> QED BY <4>1 DEF Entries
    <3>3. rows' \in [Peers -> Rows \cup {NoRow}]
      BY <2>8, <3>1, RowsAreTyped DEF OnDialFailed, TypeOK
    <3>4. ScheduleRetry(p, e, {<<p, out[p].connecting>>})
      BY <2>8 DEF OnDialFailed
    <3>5. MeshTyped'
      BY <3>1, <3>2, <3>3, <3>4, ScheduleIsTyped
    <3> QED BY <3>1, <3>5 DEF TypeOK, MeshTyped
  <2>9. CASE OnSessionClosed
    <3> DEFINE p == Head(opq).peer
               e == [out[p] EXCEPT !.session = 0]
    <3>1. p \in Peers /\ opq' \in Seq(Events) /\ UNCHANGED <<pc, lan, origins, dials, registry>>
      BY <2>9, ReceivedIsTyped DEF OnSessionClosed
    <3>2. CASE Current(Head(opq))
      <4>1. e \in Entries
        <5>1. out[p] \in Entries
          BY <3>1, <3>2, EntryIsThere DEF Current
        <5> QED BY <5>1 DEF Entries
      <4>2. rows' \in [Peers -> Rows \cup {NoRow}]
        BY <2>9, <3>1, <3>2, RowsAreTyped DEF OnSessionClosed, TypeOK
      <4>3. ScheduleRetry(p, e, {<<p, out[p].session>>})
        BY <2>9, <3>2 DEF OnSessionClosed
      <4>4. MeshTyped'
        BY <3>1, <4>1, <4>2, <4>3, ScheduleIsTyped
      <4> QED BY <3>1, <4>4 DEF TypeOK, MeshTyped
    <3>3. CASE ~Current(Head(opq))
      BY <2>9, <3>1, <3>3 DEF OnSessionClosed, TypeOK
    <3> QED BY <3>2, <3>3
  <2>10. CASE OnRetryOutbound
    <3> DEFINE p == Head(opq).peer
    <3>1. p \in Peers /\ opq' \in Seq(Events) /\ UNCHANGED <<pc, lan, origins, dials, registry>>
      BY <2>10, ReceivedIsTyped DEF OnRetryOutbound
    <3>2. CASE Current(Head(opq)) /\ Known(p)
      <4>1. Ensure(p, registry[p], FALSE, rows[p])
        BY <2>10, <3>2 DEF OnRetryOutbound
      <4>2. registry[p] \in Records /\ rows[p] \in Rows \cup {NoRow}
        BY <3>1, <3>2 DEF TypeOK, Known
      <4>3. MeshTyped'
        BY <3>1, <4>1, <4>2, EnsureIsTyped
      <4> QED BY <3>1, <4>3 DEF TypeOK, MeshTyped
    <3>3. CASE ~(Current(Head(opq)) /\ Known(p))
      BY <2>10, <3>1, <3>3 DEF OnRetryOutbound, TypeOK
    <3> QED BY <3>2, <3>3
  <2>11. CASE StopLan
    BY <2>11 DEF StopLan, TypeOK
  <2>12. CASE StopLanMesh
    <3>1. out' \in [Peers -> Entries \cup {NoEntry}]
      <4>1. \A p \in Peers : HasEntry(p) => Shut(Shut(out[p])) \in Entries
        BY EntryIsThere, EntriesAreTyped
      <4> QED BY <2>12, <4>1 DEF StopLanMesh
    <3>2. UNION {HeldTasks(p) : p \in Peers} \in SUBSET tasks
      BY EntryIsThere
    <3>3. PICK links :
            Abandon(UNION {HeldTasks(p) : p \in Peers}, links, {}) /\ conns' = conns \ links
      BY <2>12 DEF StopLanMesh
    <3>4. /\ tasks' \in SUBSET TaskSet /\ aborted' \in SUBSET TaskSet
          /\ conns' \in SUBSET (Peers \X Nat) /\ up' \in SUBSET conns'
      BY <3>2, <3>3 DEF Abandon, TypeOK
    <3> QED BY <2>12, <3>1, <3>4 DEF StopLanMesh, TypeOK
  <2>13. CASE StopLanDrain
    <3>1. opq' \in Seq(Events)
      BY <2>13 DEF StopLanDrain
    <3>2. conns' \in SUBSET (Peers \X Nat) /\ up' \in SUBSET conns'
      BY <2>13 DEF StopLanDrain, TypeOK
    <3> QED BY <2>13, <3>1, <3>2 DEF StopLanDrain, TypeOK
  <2>14. ASSUME NEW t \in tasks \cup aborted, TaskFinishes(t) PROVE TypeOK'
    <3>1. \E e \in Events : Finish(t, e)
      BY <2>14, EventsAreTyped DEF TaskFinishes, DialConnects, DialFails, BackoffEnds,
         WatcherReports
    <3>2. opq' \in Seq(Events)
      BY <3>1, AppendAdds DEF Finish, TypeOK
    <3>3. conns' \in SUBSET (Peers \X Nat) /\ up' \in SUBSET conns'
      BY <2>14 DEF TaskFinishes, DialConnects, DialFails, BackoffEnds, WatcherReports, TypeOK
    <3> QED BY <3>1, <3>2, <3>3 DEF Finish, Quiet, TypeOK
  <2>15. ASSUME NEW t \in aborted, AbortTakesEffect(t) PROVE TypeOK'
    BY <2>15 DEF AbortTakesEffect, Quiet, TypeOK
  <2>16. ASSUME NEW c \in conns, Establish(c) \/ ConnectionEnds(c) PROVE TypeOK'
    BY <2>16 DEF Establish, ConnectionEnds, Quiet, TypeOK
  <2>17. ASSUME NEW p \in Peers, DeadlinePasses(p) PROVE TypeOK'
    <3>1. out[p] \in Entries /\ out[p].attempt \in Attempts
      <4>1. out[p] \in Entries
        BY <2>17, EntryIsThere DEF DeadlinePasses
      <4> QED BY <2>17, <4>1 DEF DeadlinePasses, Entries
    <3>2. [out[p].attempt EXCEPT !.expired = TRUE] \in Attempts
      BY <3>1 DEF Attempts
    <3>3. [out[p] EXCEPT !.attempt = [out[p].attempt EXCEPT !.expired = TRUE]] \in Entries
      BY <3>1, <3>2 DEF Entries
    <3>4. out' = [out EXCEPT ![p] = [out[p] EXCEPT !.attempt = [out[p].attempt EXCEPT !.expired = TRUE]]]
      BY <2>17 DEF DeadlinePasses
    <3>5. out' \in [Peers -> Entries \cup {NoEntry}]
      BY <3>3, <3>4 DEF TypeOK
    <3> QED BY <2>17, <3>5 DEF DeadlinePasses, TypeOK
  <2>18. CASE UNCHANGED vars
    BY <2>18 DEF vars, TypeOK
  <2> QED BY <2>1, <2>2, <2>3, <2>4, <2>5, <2>6, <2>7, <2>8, <2>9, <2>10, <2>11, <2>12, <2>13,
             <2>14, <2>15, <2>16, <2>17, <2>18
          DEF Next, Discovery, HandleOperation, Off, Tasks, Network
<1> QED BY <1>1, <1>2, PTL DEF Spec

-----------------------------------------------------------------------------
(* The inductive invariant.                                                *)

\* What an entry holds is of its own generation, and it is dialing, backing
\* off, connected or idle, never two of these.
Whole(e) ==
  /\ e.gen # 0
  /\ e.connecting \in {0, e.gen} /\ e.session \in {0, e.gen}
  /\ e.pending = "dial" <=> e.attempt # NoAttempt
  /\ e.connecting # 0 => e.pending = "dial"
  /\ e.session # 0 => e.pending = "none"
EntriesAreWhole == \A p \in Peers : HasEntry(p) => Whole(out[p])

\* A task that an abort would reach is the pending one of its entry, a watcher
\* is that of the session or of an earlier one, and what was aborted is older.
TasksMeetTheirEntry ==
  /\ \A t \in tasks :
       /\ HasEntry(t.peer) /\ t.gen <= out[t.peer].gen
       /\ t.kind # "watch" => t.gen = out[t.peer].gen /\ t.kind = out[t.peer].pending
       /\ t.kind = "watch" /\ t.gen = out[t.peer].gen => out[t.peer].session = t.gen
  /\ \A t \in aborted :
       t.kind # "watch" /\ HasEntry(t.peer) /\ t.gen < out[t.peer].gen

\* A report of the current generation finds the entry as its task left it: the
\* dial and the backoff pending, the session there and its connection gone.
Expected(x, e, links) ==
  /\ x.type = "SessionReady" => e.pending = "dial"
  /\ x.type = "RetryOutbound" => e.pending = "backoff"
  /\ x.type = "SessionClosed" => e.session = x.gen /\ <<x.peer, x.gen>> \notin links

\* It is the only report, and no task is left to make another.
ReportsMeetTheirEntry ==
  \A i \in 1 .. Len(opq) :
    /\ HasEntry(opq[i].peer) /\ opq[i].gen <= out[opq[i].peer].gen
    /\ opq[i].gen = out[opq[i].peer].gen =>
         /\ Expected(opq[i], out[opq[i].peer], conns)
         /\ \A t \in tasks : t.peer = opq[i].peer => t.gen # opq[i].gen
         /\ \A j \in 1 .. Len(opq) :
              opq[j].peer = opq[i].peer /\ opq[j].gen = opq[i].gen => j = i

\* A connection is that of the session or the dial of its entry.
ConnectionsMeetTheirEntry ==
  \A c \in conns : /\ HasEntry(c[1]) /\ c[2] # 0
                   /\ c[2] \in {out[c[1]].session, out[c[1]].connecting}

EntriesAgree ==
  EntriesAreWhole /\ TasksMeetTheirEntry /\ ReportsMeetTheirEntry /\ ConnectionsMeetTheirEntry

\* A row shows the session or the dial of its entry, and no session but that.
RowFits(r, e) ==
  /\ e # NoEntry /\ e.session # 0 =>
       r # NoRow /\ r.transport = "Connected" /\ r.role = "Outbound"
  /\ e # NoEntry /\ e.pending = "dial" =>
       r # NoRow /\ r.transport = "Connecting" /\ r.role = "Outbound"
  /\ r # NoRow /\ r.transport = "Connected" => e # NoEntry /\ e.session # 0

\* A peer that is advertised has a row in the role that its local id gives it,
\* and one that dials us has nothing of ours to dial it.
KnownFits(p) ==
  Known(p) =>
    /\ lan /\ HasRow(p) /\ rows[p].found
    /\ rows[p].role = (IF dials[p] THEN "Outbound" ELSE "Inbound")
    /\ ~dials[p] /\ HasEntry(p) => out[p].pending = "none" /\ out[p].session = 0

\* Off closes the entries before it takes the rows away.
RowsFollow ==
  \A p \in Peers : (pc # "offMesh" => RowFits(rows[p], out[p])) /\ KnownFits(p)

\* What Off has done by the place where it waits.
OffIsPrepared ==
  /\ lan => origins /\ pc = "select"
  /\ pc = "offMesh" => conns = {} /\ \A t \in tasks : t.kind = "watch"
  /\ ~origins => \A p \in Peers : ~HasEntry(p) /\ ~HasRow(p)
  /\ OffIsQuiet

MeshInvariant == EntriesAgree /\ RowsFollow /\ OffIsPrepared

-----------------------------------------------------------------------------
(* Facts that the steps share.                                             *)

\* Generations are numbers, and what has a peer has one of ours.
LEMMA MeshNumbers ==
  ASSUME TypeOK
  PROVE  /\ \A p \in Peers : HasEntry(p) => out[p] \in Entries /\ out[p].gen \in Nat
         /\ \A t \in tasks \cup aborted : t \in TaskSet /\ t.peer \in Peers /\ t.gen \in Nat
         /\ \A i \in 1 .. Len(opq) :
              opq[i] \in Events /\ opq[i].peer \in Peers /\ opq[i].gen \in Nat
         /\ \A c \in conns : c[1] \in Peers /\ c[2] \in Nat /\ c = <<c[1], c[2]>>
<1>1. ASSUME NEW p \in Peers, HasEntry(p) PROVE out[p] \in Entries /\ out[p].gen \in Nat
  <2>1. out[p] \in Entries
    BY <1>1, EntryIsThere
  <2> QED BY <2>1 DEF Entries
<1>2. \A t \in tasks \cup aborted : t \in TaskSet /\ t.peer \in Peers /\ t.gen \in Nat
  BY DEF TypeOK, TaskSet
<1>3. ASSUME NEW i \in 1 .. Len(opq)
      PROVE  opq[i] \in Events /\ opq[i].peer \in Peers /\ opq[i].gen \in Nat
  <2>1. opq[i] \in Events
    BY PlacesAreTyped DEF TypeOK
  <2> QED BY <2>1 DEF Events
<1>4. \A c \in conns : c[1] \in Peers /\ c[2] \in Nat /\ c = <<c[1], c[2]>>
  BY DEF TypeOK
<1> QED BY <1>1, <1>2, <1>3, <1>4

\* One entry changes and the others stay.
LEMMA OneEntryChanges ==
  ASSUME TypeOK, NEW p \in Peers, NEW e \in Entries, out' = [out EXCEPT ![p] = e]
  PROVE  /\ out'[p] = e /\ HasEntry(p)'
         /\ \A q \in Peers \ {p} : out'[q] = out[q] /\ (HasEntry(q)' <=> HasEntry(q))
  BY NoneAssumption DEF TypeOK, HasEntry

\* What a peer holds are all the connections there are of it.
LEMMA HeldAreAll ==
  ASSUME TypeOK, ConnectionsMeetTheirEntry, NEW p \in Peers
  PROVE  /\ conns \ HeldConns(p) = {c \in conns : c[1] # p}
         /\ HasEntry(p) /\ out[p].session = 0 =>
              conns \ {<<p, out[p].connecting>>} = {c \in conns : c[1] # p}
         /\ HasEntry(p) /\ out[p].connecting = 0 =>
              conns \ {<<p, out[p].session>>} = {c \in conns : c[1] # p}
<1>1. \A c \in conns : c[1] = p =>
        /\ HasEntry(p) /\ c[2] # 0 /\ c = <<p, c[2]>>
        /\ c[2] = out[p].session \/ c[2] = out[p].connecting
  BY MeshNumbers DEF ConnectionsMeetTheirEntry
<1>2. conns \ HeldConns(p) = {c \in conns : c[1] # p}
  BY <1>1 DEF HeldConns
<1>3. HasEntry(p) /\ out[p].session = 0 =>
        conns \ {<<p, out[p].connecting>>} = {c \in conns : c[1] # p}
  BY <1>1
<1>4. HasEntry(p) /\ out[p].connecting = 0 =>
        conns \ {<<p, out[p].session>>} = {c \in conns : c[1] # p}
  BY <1>1
<1> QED BY <1>2, <1>3, <1>4

\* How the entries, their tasks, reports and connections may change.

\* An entry gets a new generation: everything of the old one is aborted or
\* stale by that.
LEMMA ReplacedAgrees ==
  ASSUME TypeOK, EntriesAgree,
         NEW p \in Peers, NEW e \in Entries, NEW started, NEW new,
         Whole(e), HasEntry(p) => e.gen > out[p].gen,
         out' = [out EXCEPT ![p] = e],
         tasks' = (tasks \ HeldTasks(p)) \cup started,
         aborted' = aborted \cup HeldTasks(p),
         conns' = {c \in conns : c[1] # p} \cup new,
         started = {} \/ (e.pending # "none" /\ started = {Task(e.pending, p, e.gen)}),
         new = {} \/ (e.connecting # 0 /\ new = {<<p, e.connecting>>}),
         opq' = opq \/ (opq # <<>> /\ opq' = Tail(opq))
  PROVE  EntriesAgree'
<1> USE DEF EntriesAgree
<1>1. /\ out'[p] = e /\ HasEntry(p)'
      /\ \A q \in Peers \ {p} : out'[q] = out[q] /\ (HasEntry(q)' <=> HasEntry(q))
  BY OneEntryChanges
<1>2. e.gen \in Nat /\ e.pending \in {"none", "dial", "backoff"}
  BY DEF Entries
<1>3. \A q \in Peers : HasEntry(q) => out[q].gen \in Nat
  BY MeshNumbers
<1>4. EntriesAreWhole'
  BY <1>1 DEF EntriesAreWhole, Whole
<1>5. \A t \in tasks : t.peer = p => t.gen < e.gen /\ (t \in HeldTasks(p) \/ t.kind = "watch")
  <2> SUFFICES ASSUME NEW t \in tasks, t.peer = p
               PROVE  t.gen < e.gen /\ (t \in HeldTasks(p) \/ t.kind = "watch")
    OBVIOUS
  <2>1. HasEntry(p) /\ t.gen <= out[p].gen /\ t.gen \in Nat /\ out[p].gen \in Nat
    BY <1>3, MeshNumbers DEF TasksMeetTheirEntry
  <2>2. t.gen < e.gen
    BY <1>2, <2>1
  <2>3. t.kind # "watch" => t \in HeldTasks(p)
    BY <2>1 DEF TasksMeetTheirEntry, HeldTasks
  <2> QED BY <2>2, <2>3
<1>6. TasksMeetTheirEntry'
  <2>1. ASSUME NEW t \in tasks'
        PROVE  /\ HasEntry(t.peer)' /\ t.gen <= out'[t.peer].gen
               /\ t.kind # "watch" => t.gen = out'[t.peer].gen /\ t.kind = out'[t.peer].pending
               /\ t.kind = "watch" /\ t.gen = out'[t.peer].gen => out'[t.peer].session = t.gen
    <3>1. CASE t \in started
      <4>1. t.kind = e.pending /\ t.peer = p /\ t.gen = e.gen /\ t.kind # "watch"
        BY <1>2, <3>1 DEF Task
      <4> QED BY <1>1, <1>2, <4>1
    <3>2. CASE t \notin started
      <4>1. t \in tasks /\ t \notin HeldTasks(p) /\ t.peer \in Peers /\ t.gen \in Nat
        BY <3>2, MeshNumbers
      <4>2. CASE t.peer = p
        <5>1. t.kind = "watch" /\ t.gen < e.gen
          BY <1>5, <4>1, <4>2
        <5> QED BY <1>1, <1>2, <4>1, <4>2, <5>1
      <4>3. CASE t.peer # p
        BY <1>1, <4>1, <4>3 DEF TasksMeetTheirEntry
      <4> QED BY <4>2, <4>3
    <3> QED BY <3>1, <3>2
  <2>2. ASSUME NEW t \in aborted'
        PROVE  t.kind # "watch" /\ HasEntry(t.peer)' /\ t.gen < out'[t.peer].gen
    <3>1. CASE t \in HeldTasks(p)
      <4>1. t \in tasks /\ t.peer = p /\ t.kind = out[p].pending /\ HasEntry(p)
        BY <3>1 DEF HeldTasks
      <4>2. t.kind # "watch"
        BY <4>1, EntryIsThere DEF Entries
      <4> QED BY <1>1, <1>5, <4>1, <4>2
    <3>2. CASE t \notin HeldTasks(p)
      <4>1. t \in aborted /\ t.peer \in Peers /\ t.gen \in Nat
        BY <3>2, MeshNumbers
      <4>2. t.kind # "watch" /\ HasEntry(t.peer) /\ t.gen < out[t.peer].gen
        BY <4>1 DEF TasksMeetTheirEntry
      <4>3. CASE t.peer = p
        BY <1>1, <1>2, <1>3, <4>1, <4>2, <4>3
      <4>4. CASE t.peer # p
        BY <1>1, <4>1, <4>2, <4>4
      <4> QED BY <4>3, <4>4
    <3> QED BY <3>1, <3>2
  <2> QED BY <2>1, <2>2 DEF TasksMeetTheirEntry
<1>7. ReportsMeetTheirEntry'
  <2>1. PICK d \in {0, 1} :
          \A i \in 1 .. Len(opq') : i + d \in 1 .. Len(opq) /\ opq'[i] = opq[i + d]
    BY QueueKeptOrTaken DEF TypeOK
  <2> SUFFICES ASSUME NEW i \in 1 .. Len(opq')
               PROVE  /\ out'[opq'[i].peer] # NoEntry /\ opq'[i].gen <= out'[opq'[i].peer].gen
                      /\ opq'[i].gen = out'[opq'[i].peer].gen =>
                           /\ Expected(opq'[i], out'[opq'[i].peer], conns')
                           /\ \A t \in tasks' : t.peer = opq'[i].peer => t.gen # opq'[i].gen
                           /\ \A j \in 1 .. Len(opq') :
                                opq'[j].peer = opq'[i].peer /\ opq'[j].gen = opq'[i].gen => j = i
    BY DEF ReportsMeetTheirEntry, HasEntry
  <2> DEFINE k == i + d
             x == opq[k]
  <2>2. k \in 1 .. Len(opq) /\ opq'[i] = x
    BY <2>1
  <2> HIDE DEF k
  <2>3. x.peer \in Peers /\ x.gen \in Nat /\ HasEntry(x.peer) /\ x.gen <= out[x.peer].gen
    BY <2>2, MeshNumbers DEF ReportsMeetTheirEntry
  <2>4. CASE x.peer = p
    <3>1. x.gen < e.gen
      BY <1>2, <1>3, <2>3, <2>4
    <3>2. out'[x.peer] = e /\ e # NoEntry
      BY <1>1, <2>4 DEF HasEntry
    <3> QED BY <1>2, <2>2, <2>3, <3>1, <3>2
  <2>5. CASE x.peer # p
    <3>1. out'[x.peer] # NoEntry /\ out'[x.peer] = out[x.peer]
      BY <1>1, <2>3, <2>5 DEF HasEntry
    <3>2. ASSUME x.gen = out[x.peer].gen
          PROVE  /\ Expected(x, out'[x.peer], conns')
                 /\ \A t \in tasks' : t.peer = x.peer => t.gen # x.gen
                 /\ \A j \in 1 .. Len(opq') :
                      opq'[j].peer = x.peer /\ opq'[j].gen = x.gen => j = i
      <4>1. /\ Expected(x, out[x.peer], conns)
            /\ \A t \in tasks : t.peer = x.peer => t.gen # x.gen
            /\ \A j \in 1 .. Len(opq) : opq[j].peer = x.peer /\ opq[j].gen = x.gen => j = k
        BY <2>2, <3>2 DEF ReportsMeetTheirEntry
      <4>2. Expected(x, out'[x.peer], conns')
        <5>1. <<x.peer, x.gen>> \notin conns => <<x.peer, x.gen>> \notin conns'
          BY <2>5
        <5> QED BY <3>1, <4>1, <5>1 DEF Expected
      <4>3. \A t \in tasks' : t.peer = x.peer => t.gen # x.gen
        <5>1. \A t \in started : t.peer = p
          BY DEF Task
        <5> QED BY <2>5, <4>1, <5>1
      <4>4. ASSUME NEW j \in 1 .. Len(opq'), opq'[j].peer = x.peer, opq'[j].gen = x.gen
            PROVE  j = i
        <5>1. j + d = k
          BY <2>1, <4>1, <4>4
        <5> QED BY <5>1 DEF k
      <4> QED BY <4>2, <4>3, <4>4
    <3> QED BY <2>2, <2>3, <3>1, <3>2
  <2> QED BY <2>4, <2>5
<1>8. ConnectionsMeetTheirEntry'
  <2> SUFFICES ASSUME NEW c \in conns'
               PROVE  /\ HasEntry(c[1])' /\ c[2] # 0
                      /\ c[2] \in {out'[c[1]].session, out'[c[1]].connecting}
    BY DEF ConnectionsMeetTheirEntry
  <2>1. CASE c \in new
    BY <1>1, <2>1
  <2>2. CASE c \notin new
    <3>1. c \in conns /\ c[1] \in Peers \ {p}
      BY <2>2, MeshNumbers
    <3> QED BY <1>1, <3>1 DEF ConnectionsMeetTheirEntry
  <2> QED BY <2>1, <2>2
<1> QED BY <1>4, <1>6, <1>7, <1>8

\* Nothing happens to the entries; a report may be taken, an aborted task or a
\* connection may go.
LEMMA KeptAgrees ==
  ASSUME TypeOK, EntriesAgree, out' = out, tasks' = tasks, aborted' \subseteq aborted,
         conns' \subseteq conns, opq' = opq \/ (opq # <<>> /\ opq' = Tail(opq))
  PROVE  EntriesAgree'
<1> USE DEF EntriesAgree
<1>1. EntriesAreWhole' /\ TasksMeetTheirEntry' /\ ConnectionsMeetTheirEntry'
  BY DEF EntriesAreWhole, TasksMeetTheirEntry, ConnectionsMeetTheirEntry, HasEntry
<1>2. PICK d \in {0, 1} :
        \A i \in 1 .. Len(opq') : i + d \in 1 .. Len(opq) /\ opq'[i] = opq[i + d]
  BY QueueKeptOrTaken DEF TypeOK
<1>3. ASSUME NEW i \in 1 .. Len(opq')
      PROVE  /\ HasEntry(opq'[i].peer) /\ opq'[i].gen <= out[opq'[i].peer].gen
             /\ opq'[i].gen = out[opq'[i].peer].gen =>
                  /\ Expected(opq'[i], out[opq'[i].peer], conns')
                  /\ \A t \in tasks : t.peer = opq'[i].peer => t.gen # opq'[i].gen
                  /\ \A j \in 1 .. Len(opq') :
                       opq'[j].peer = opq'[i].peer /\ opq'[j].gen = opq'[i].gen => j = i
  <2>1. i + d \in 1 .. Len(opq) /\ opq'[i] = opq[i + d]
    BY <1>2
  <2>2. HasEntry(opq'[i].peer) /\ opq'[i].gen <= out[opq'[i].peer].gen
    BY <2>1 DEF ReportsMeetTheirEntry
  <2>3. ASSUME opq'[i].gen = out[opq'[i].peer].gen
        PROVE  /\ Expected(opq'[i], out[opq'[i].peer], conns')
               /\ \A t \in tasks : t.peer = opq'[i].peer => t.gen # opq'[i].gen
               /\ \A j \in 1 .. Len(opq') :
                    opq'[j].peer = opq'[i].peer /\ opq'[j].gen = opq'[i].gen => j = i
    <3>1. /\ Expected(opq'[i], out[opq'[i].peer], conns)
          /\ \A t \in tasks : t.peer = opq'[i].peer => t.gen # opq'[i].gen
          /\ \A j \in 1 .. Len(opq) :
               opq[j].peer = opq'[i].peer /\ opq[j].gen = opq'[i].gen => j = i + d
      BY <2>1, <2>3 DEF ReportsMeetTheirEntry
    <3>2. Expected(opq'[i], out[opq'[i].peer], conns')
      BY <3>1 DEF Expected
    <3>3. ASSUME NEW j \in 1 .. Len(opq'), opq'[j].peer = opq'[i].peer, opq'[j].gen = opq'[i].gen
          PROVE  j = i
      <4>1. j + d = i + d
        BY <1>2, <3>1, <3>3
      <4> QED BY <4>1
    <3> QED BY <3>1, <3>2, <3>3
  <2> QED BY <2>2, <2>3
<1>4. ReportsMeetTheirEntry'
  BY <1>3 DEF ReportsMeetTheirEntry, HasEntry
<1> QED BY <1>1, <1>4

\* The report of a dial or a session is taken and its entry keeps the
\* generation: nothing of it runs on but, perhaps, the watcher of the session.
LEMMA SettledAgrees ==
  ASSUME TypeOK, EntriesAgree, opq # <<>>, opq' = Tail(opq), aborted' = aborted,
         NEW p \in Peers, NEW e \in Entries, NEW started,
         opq[1].peer = p, opq[1].gen = out[p].gen, HasEntry(p),
         Whole(e), e.gen = out[p].gen,
         out' = [out EXCEPT ![p] = e],
         tasks' = tasks \cup started,
         started = {} \/ (e.session # 0 /\ started = {Task("watch", p, e.gen)}),
         conns' \subseteq conns, \A c \in conns' : c[1] = p => c[2] = e.session
  PROVE  EntriesAgree'
<1> USE DEF EntriesAgree
<1>1. /\ out'[p] = e /\ HasEntry(p)'
      /\ \A q \in Peers \ {p} : out'[q] = out[q] /\ (HasEntry(q)' <=> HasEntry(q))
  BY OneEntryChanges
<1>2. 1 \in 1 .. Len(opq)
  BY TailShifts DEF TypeOK
<1>3. \A t \in tasks : t.peer = p => t.gen # e.gen
  BY <1>2 DEF ReportsMeetTheirEntry
<1>4. EntriesAreWhole'
  BY <1>1 DEF EntriesAreWhole, Whole
<1>5. TasksMeetTheirEntry'
  <2>1. ASSUME NEW t \in tasks'
        PROVE  /\ HasEntry(t.peer)' /\ t.gen <= out'[t.peer].gen
               /\ t.kind # "watch" => t.gen = out'[t.peer].gen /\ t.kind = out'[t.peer].pending
               /\ t.kind = "watch" /\ t.gen = out'[t.peer].gen => out'[t.peer].session = t.gen
    <3>1. CASE t \notin tasks
      <4>1. t.kind = "watch" /\ t.peer = p /\ t.gen = e.gen /\ e.session # 0
        BY <2>1, <3>1 DEF Task
      <4>2. e.session = e.gen /\ e.gen \in Nat
        BY <4>1 DEF Whole, Entries
      <4> QED BY <1>1, <4>1, <4>2
    <3>2. CASE t \in tasks
      <4>1. t.peer \in Peers /\ HasEntry(t.peer) /\ t.gen <= out[t.peer].gen
        BY <3>2, MeshNumbers DEF TasksMeetTheirEntry
      <4>2. CASE t.peer = p
        <5>1. t.gen # out[p].gen
          BY <1>3, <3>2, <4>2
        <5>2. t.kind = "watch"
          BY <3>2, <4>2, <5>1 DEF TasksMeetTheirEntry
        <5> QED BY <1>1, <4>1, <4>2, <5>1, <5>2
      <4>3. CASE t.peer # p
        BY <1>1, <3>2, <4>1, <4>3 DEF TasksMeetTheirEntry
      <4> QED BY <4>2, <4>3
    <3> QED BY <3>1, <3>2
  <2>2. ASSUME NEW t \in aborted
        PROVE  t.kind # "watch" /\ HasEntry(t.peer)' /\ t.gen < out'[t.peer].gen
    <3>1. t.peer \in Peers /\ t.kind # "watch" /\ HasEntry(t.peer) /\ t.gen < out[t.peer].gen
      BY MeshNumbers DEF TasksMeetTheirEntry
    <3> QED BY <1>1, <3>1
  <2> QED BY <2>1, <2>2 DEF TasksMeetTheirEntry
<1>6. ReportsMeetTheirEntry'
  <2>1. \A i \in 1 .. Len(opq') : i + 1 \in 1 .. Len(opq) /\ opq'[i] = opq[i + 1]
    BY TailShifts DEF TypeOK
  <2> SUFFICES ASSUME NEW i \in 1 .. Len(opq')
               PROVE  /\ out'[opq'[i].peer] # NoEntry /\ opq'[i].gen <= out'[opq'[i].peer].gen
                      /\ opq'[i].gen = out'[opq'[i].peer].gen =>
                           /\ Expected(opq'[i], out'[opq'[i].peer], conns')
                           /\ \A t \in tasks' : t.peer = opq'[i].peer => t.gen # opq'[i].gen
                           /\ \A j \in 1 .. Len(opq') :
                                opq'[j].peer = opq'[i].peer /\ opq'[j].gen = opq'[i].gen => j = i
    BY DEF ReportsMeetTheirEntry, HasEntry
  <2> DEFINE k == i + 1
             x == opq[k]
  <2>2. k \in 1 .. Len(opq) /\ opq'[i] = x /\ k # 1
    BY <2>1
  <2> HIDE DEF k
  <2>3. x.peer \in Peers /\ x.gen \in Nat /\ HasEntry(x.peer) /\ x.gen <= out[x.peer].gen
    BY <2>2, MeshNumbers DEF ReportsMeetTheirEntry
  <2>4. CASE x.peer = p
    <3>1. x.gen # e.gen
      BY <1>2, <2>2, <2>4 DEF ReportsMeetTheirEntry
    <3>2. out'[x.peer] = e /\ e # NoEntry
      BY <1>1, <2>4 DEF HasEntry
    <3> QED BY <2>2, <2>3, <2>4, <3>1, <3>2
  <2>5. CASE x.peer # p
    <3>1. out'[x.peer] # NoEntry /\ out'[x.peer] = out[x.peer]
      BY <1>1, <2>3, <2>5 DEF HasEntry
    <3>2. ASSUME x.gen = out[x.peer].gen
          PROVE  /\ Expected(x, out'[x.peer], conns')
                 /\ \A t \in tasks' : t.peer = x.peer => t.gen # x.gen
                 /\ \A j \in 1 .. Len(opq') :
                      opq'[j].peer = x.peer /\ opq'[j].gen = x.gen => j = i
      <4>1. /\ Expected(x, out[x.peer], conns)
            /\ \A t \in tasks : t.peer = x.peer => t.gen # x.gen
            /\ \A j \in 1 .. Len(opq) : opq[j].peer = x.peer /\ opq[j].gen = x.gen => j = k
        BY <2>2, <3>2 DEF ReportsMeetTheirEntry
      <4>2. Expected(x, out'[x.peer], conns')
        BY <3>1, <4>1 DEF Expected
      <4>3. \A t \in tasks' : t.peer = x.peer => t.gen # x.gen
        <5>1. \A t \in started : t.peer = p
          BY DEF Task
        <5> QED BY <2>5, <4>1, <5>1
      <4>4. ASSUME NEW j \in 1 .. Len(opq'), opq'[j].peer = x.peer, opq'[j].gen = x.gen
            PROVE  j = i
        <5>1. j + 1 = k
          BY <2>1, <4>1, <4>4
        <5> QED BY <5>1 DEF k
      <4> QED BY <4>2, <4>3, <4>4
    <3> QED BY <2>2, <2>3, <3>1, <3>2
  <2> QED BY <2>4, <2>5
<1>7. ConnectionsMeetTheirEntry'
  <2> SUFFICES ASSUME NEW c \in conns'
               PROVE  /\ HasEntry(c[1])' /\ c[2] # 0
                      /\ c[2] \in {out'[c[1]].session, out'[c[1]].connecting}
    BY DEF ConnectionsMeetTheirEntry
  <2>1. c \in conns /\ c[1] \in Peers /\ c[2] # 0
    BY MeshNumbers DEF ConnectionsMeetTheirEntry
  <2>2. CASE c[1] = p
    BY <1>1, <2>1, <2>2
  <2>3. CASE c[1] # p
    BY <1>1, <2>1, <2>3 DEF ConnectionsMeetTheirEntry
  <2> QED BY <2>2, <2>3
<1> QED BY <1>4, <1>5, <1>6, <1>7

\* A running task is the only one of its entry's generation.
LEMMA TaskIsTheOnlyOne ==
  ASSUME TypeOK, EntriesAgree, NEW s \in tasks, NEW t \in tasks,
         s.peer = t.peer, s.gen = t.gen, t.gen = out[t.peer].gen
  PROVE  s = t
<1> USE DEF EntriesAgree
<1>1. /\ HasEntry(t.peer) /\ t.peer \in Peers /\ t \in TaskSet /\ s \in TaskSet
      /\ Whole(out[t.peer])
  BY MeshNumbers DEF TasksMeetTheirEntry, EntriesAreWhole
<1>2. /\ t.kind # "watch" => t.kind = out[t.peer].pending
      /\ s.kind # "watch" => s.kind = out[t.peer].pending
      /\ t.kind = "watch" \/ s.kind = "watch" => out[t.peer].session = t.gen
  BY DEF TasksMeetTheirEntry
<1>3. out[t.peer].session = t.gen => out[t.peer].pending = "none"
  BY <1>1 DEF Whole
<1>4. t.kind \in {"dial", "backoff", "watch"} /\ s.kind \in {"dial", "backoff", "watch"}
  BY <1>1 DEF TaskSet
<1>5. s.kind = t.kind
  BY <1>2, <1>3, <1>4
<1> QED BY <1>1, <1>5 DEF TaskSet

\* A task reports once, and if it was not aborted meanwhile its entry expects it.
LEMMA FinishAgrees ==
  ASSUME TypeOK, EntriesAgree, NEW t \in tasks \cup aborted, TaskFinishes(t)
  PROVE  EntriesAgree' /\ out' = out
<1> USE DEF EntriesAgree
<1>1. PICK x \in Events :
        /\ Finish(t, x) /\ x.peer = t.peer /\ x.gen = t.gen
        /\ x.type = "SessionReady" => t.kind = "dial"
        /\ x.type = "RetryOutbound" => t.kind = "backoff"
        /\ x.type = "SessionClosed" => t.kind = "watch" /\ <<t.peer, t.gen>> \notin conns
  <2>1. CASE DialConnects(t) \/ DialFails(t)
    <3>1. PICK b \in BOOLEAN : Finish(t, Ready(t.peer, t.gen, b)) /\ t.kind = "dial"
      BY <2>1 DEF DialConnects, DialFails
    <3> QED BY <3>1, EventsAreTyped DEF Ready
  <2>2. CASE BackoffEnds(t)
    BY <2>2, EventsAreTyped DEF BackoffEnds, Wake
  <2>3. CASE WatcherReports(t)
    BY <2>3, EventsAreTyped DEF WatcherReports, Closed
  <2> QED BY <2>1, <2>2, <2>3 DEF TaskFinishes
<1>2. /\ tasks' = tasks \ {t} /\ aborted' = aborted \ {t} /\ opq' = Append(opq, x)
      /\ out' = out
  BY <1>1 DEF Finish, Quiet
<1>3. conns' \subseteq conns
  BY DEF TaskFinishes, DialConnects, DialFails, BackoffEnds, WatcherReports
<1>4. /\ t \in TaskSet /\ t.peer \in Peers /\ t.gen \in Nat /\ HasEntry(t.peer)
      /\ out[t.peer].gen \in Nat /\ t.gen <= out[t.peer].gen
      /\ t.gen = out[t.peer].gen => t \in tasks
  <2>1. t \in TaskSet /\ t.peer \in Peers /\ t.gen \in Nat
    BY MeshNumbers
  <2>2. CASE t \in aborted
    BY <2>1, <2>2, MeshNumbers DEF TasksMeetTheirEntry
  <2>3. CASE t \in tasks
    BY <2>1, <2>3, MeshNumbers DEF TasksMeetTheirEntry
  <2> QED BY <2>1, <2>2, <2>3
<1>5. EntriesAreWhole' /\ TasksMeetTheirEntry' /\ ConnectionsMeetTheirEntry'
  BY <1>2, <1>3 DEF EntriesAreWhole, TasksMeetTheirEntry, ConnectionsMeetTheirEntry, HasEntry
<1>6. /\ \A i \in 1 .. Len(opq) : opq'[i] = opq[i]
      /\ opq'[Len(opq) + 1] = x
      /\ \A i \in 1 .. Len(opq') : i = Len(opq) + 1 \/ i \in 1 .. Len(opq)
  BY <1>2, AppendAdds DEF TypeOK
<1>7. x.gen = out[x.peer].gen => Expected(x, out[x.peer], conns')
  <2> SUFFICES ASSUME t.gen = out[t.peer].gen PROVE Expected(x, out[t.peer], conns')
    BY <1>1
  <2>1. /\ t.kind # "watch" => t.kind = out[t.peer].pending
        /\ t.kind = "watch" => out[t.peer].session = t.gen
    BY <1>4 DEF TasksMeetTheirEntry
  <2> QED BY <1>1, <1>3, <2>1 DEF Expected
<1>8. x.gen = out[x.peer].gen =>
        /\ \A s \in tasks' : s.peer = x.peer => s.gen # x.gen
        /\ \A i \in 1 .. Len(opq) : ~(opq[i].peer = x.peer /\ opq[i].gen = x.gen)
  <2> SUFFICES ASSUME t.gen = out[t.peer].gen
               PROVE  /\ \A s \in tasks' : s.peer = t.peer => s.gen # t.gen
                      /\ \A i \in 1 .. Len(opq) : ~(opq[i].peer = t.peer /\ opq[i].gen = t.gen)
    BY <1>1
  <2>1. t \in tasks
    BY <1>4
  <2>2. \A s \in tasks' : s.peer = t.peer => s.gen # t.gen
    BY <1>2, <2>1, TaskIsTheOnlyOne
  <2>3. \A i \in 1 .. Len(opq) : ~(opq[i].peer = t.peer /\ opq[i].gen = t.gen)
    BY <2>1 DEF ReportsMeetTheirEntry
  <2> QED BY <2>2, <2>3
<1>9. ReportsMeetTheirEntry'
  <2> SUFFICES ASSUME NEW i \in 1 .. Len(opq')
               PROVE  /\ out[opq'[i].peer] # NoEntry /\ opq'[i].gen <= out[opq'[i].peer].gen
                      /\ opq'[i].gen = out[opq'[i].peer].gen =>
                           /\ Expected(opq'[i], out[opq'[i].peer], conns')
                           /\ \A s \in tasks' : s.peer = opq'[i].peer => s.gen # opq'[i].gen
                           /\ \A j \in 1 .. Len(opq') :
                                opq'[j].peer = opq'[i].peer /\ opq'[j].gen = opq'[i].gen => j = i
    BY <1>2 DEF ReportsMeetTheirEntry, HasEntry
  <2>1. CASE i = Len(opq) + 1
    <3>1. opq'[i] = x
      BY <1>6, <2>1
    <3>2. x.gen = out[x.peer].gen =>
            \A j \in 1 .. Len(opq') : opq'[j].peer = x.peer /\ opq'[j].gen = x.gen => j = i
      BY <1>6, <1>8, <2>1
    <3>3. out[x.peer] # NoEntry /\ x.gen <= out[x.peer].gen
      BY <1>1, <1>4 DEF HasEntry
    <3> QED BY <1>7, <1>8, <3>1, <3>2, <3>3
  <2>2. CASE i \in 1 .. Len(opq)
    <3>1. opq'[i] = opq[i] /\ out[opq[i].peer] # NoEntry /\ opq[i].gen <= out[opq[i].peer].gen
      BY <1>6, <2>2 DEF ReportsMeetTheirEntry, HasEntry
    <3>2. ASSUME opq[i].gen = out[opq[i].peer].gen
          PROVE  /\ Expected(opq[i], out[opq[i].peer], conns')
                 /\ \A s \in tasks' : s.peer = opq[i].peer => s.gen # opq[i].gen
                 /\ \A j \in 1 .. Len(opq') :
                      opq'[j].peer = opq[i].peer /\ opq'[j].gen = opq[i].gen => j = i
      <4>1. /\ Expected(opq[i], out[opq[i].peer], conns)
            /\ \A s \in tasks : s.peer = opq[i].peer => s.gen # opq[i].gen
            /\ \A j \in 1 .. Len(opq) :
                 opq[j].peer = opq[i].peer /\ opq[j].gen = opq[i].gen => j = i
        BY <2>2, <3>2 DEF ReportsMeetTheirEntry
      <4>2. Expected(opq[i], out[opq[i].peer], conns')
        BY <1>3, <4>1 DEF Expected
      <4>3. ~(x.peer = opq[i].peer /\ x.gen = opq[i].gen)
        BY <1>8, <2>2, <3>2
      <4>4. \A j \in 1 .. Len(opq') :
              opq'[j].peer = opq[i].peer /\ opq'[j].gen = opq[i].gen => j = i
        BY <1>6, <4>1, <4>3
      <4> QED BY <1>2, <4>1, <4>2, <4>4
    <3> QED BY <3>1, <3>2
  <2> QED BY <1>6, <2>1, <2>2
<1> QED BY <1>2, <1>5, <1>9

\* A deadline that passes leaves the entry to its dial.
LEMMA DeadlineAgrees ==
  ASSUME TypeOK, EntriesAgree, NEW p \in Peers, DeadlinePasses(p)
  PROVE  /\ EntriesAgree'
         /\ \A q \in Peers : /\ HasEntry(q)' <=> HasEntry(q)
                             /\ HasEntry(q) => /\ out'[q].session = out[q].session
                                               /\ out'[q].pending = out[q].pending
<1> USE DEF EntriesAgree
<1> DEFINE a == [out[p].attempt EXCEPT !.expired = TRUE]
           e == [out[p] EXCEPT !.attempt = a]
<1>1. HasEntry(p) /\ out[p] \in Entries /\ out[p].attempt \in Attempts
  <2>1. HasEntry(p) /\ out[p].attempt # NoAttempt
    BY DEF DeadlinePasses
  <2>2. out[p] \in Entries
    BY <2>1, EntryIsThere
  <2> QED BY <2>1, <2>2 DEF Entries
<1>2. a \in Attempts /\ a # NoAttempt
  BY <1>1, NoneAssumption DEF Attempts
<1>3. /\ e \in Entries /\ e.gen = out[p].gen /\ e.session = out[p].session
      /\ e.connecting = out[p].connecting /\ e.pending = out[p].pending /\ e.attempt = a
  BY <1>1, <1>2 DEF Entries
<1>4. out' = [out EXCEPT ![p] = e] /\ UNCHANGED <<tasks, aborted, conns, opq>>
  BY DEF DeadlinePasses
<1> HIDE DEF e, a
<1>5. /\ out'[p] = e /\ HasEntry(p)'
      /\ \A q \in Peers \ {p} : out'[q] = out[q] /\ (HasEntry(q)' <=> HasEntry(q))
  BY <1>3, <1>4, OneEntryChanges
<1>6. \A q \in Peers :
        /\ HasEntry(q)' <=> HasEntry(q)
        /\ HasEntry(q) => /\ out'[q].gen = out[q].gen /\ out'[q].session = out[q].session
                          /\ out'[q].connecting = out[q].connecting
                          /\ out'[q].pending = out[q].pending
  BY <1>1, <1>3, <1>5
<1>7. EntriesAreWhole'
  <2>1. Whole(out[p]) /\ out[p].attempt # NoAttempt
    BY <1>1, NoneAssumption DEF EntriesAreWhole
  <2>2. Whole(e)
    BY <1>2, <1>3, <2>1 DEF Whole
  <2> QED BY <1>5, <2>2 DEF EntriesAreWhole, Whole
<1>8. TasksMeetTheirEntry'
  BY <1>4, <1>6, MeshNumbers DEF TasksMeetTheirEntry
<1>9. ConnectionsMeetTheirEntry'
  BY <1>4, <1>6, MeshNumbers DEF ConnectionsMeetTheirEntry
<1>10. ReportsMeetTheirEntry'
  <2> SUFFICES ASSUME NEW i \in 1 .. Len(opq)
               PROVE  /\ HasEntry(opq[i].peer)' /\ opq[i].gen <= out'[opq[i].peer].gen
                      /\ opq[i].gen = out'[opq[i].peer].gen =>
                           /\ Expected(opq[i], out'[opq[i].peer], conns)
                           /\ \A t \in tasks : t.peer = opq[i].peer => t.gen # opq[i].gen
                           /\ \A j \in 1 .. Len(opq) :
                                opq[j].peer = opq[i].peer /\ opq[j].gen = opq[i].gen => j = i
    BY <1>4 DEF ReportsMeetTheirEntry
  <2>1. opq[i].peer \in Peers /\ HasEntry(opq[i].peer)
    BY MeshNumbers DEF ReportsMeetTheirEntry
  <2> QED BY <1>4, <1>6, <2>1 DEF ReportsMeetTheirEntry, Expected
<1> QED BY <1>6, <1>7, <1>8, <1>9, <1>10

\* Off closes every entry: watchers of the past are all that runs on.
LEMMA MeshStopAgrees ==
  ASSUME TypeOK, EntriesAgree, StopLanMesh
  PROVE  EntriesAgree' /\ conns' = {} /\ \A t \in tasks' : t.kind = "watch"
<1> USE DEF EntriesAgree
<1>1. /\ \A p \in Peers : out'[p] = IF HasEntry(p) THEN Shut(Shut(out[p])) ELSE NoEntry
      /\ tasks' = tasks \ UNION {HeldTasks(p) : p \in Peers}
      /\ aborted' = aborted \cup UNION {HeldTasks(p) : p \in Peers}
      /\ conns' = conns \ UNION {HeldConns(p) : p \in Peers}
      /\ opq' = opq
  BY DEF StopLanMesh, Abandon
<1>2. ASSUME NEW p \in Peers, HasEntry(p)
      PROVE  /\ HasEntry(p)' /\ Whole(out'[p]) /\ out'[p].gen = out[p].gen + 2
             /\ out[p].gen \in Nat
  <2>1. out[p] \in Entries /\ out[p].gen \in Nat
    BY <1>2, MeshNumbers
  <2>2. Shut(Shut(out[p])) \in Entries
    BY <2>1, EntriesAreTyped
  <2>3. Shut(Shut(out[p])) = IdleEntry(out[p].gen + 1 + 1, out[p].budget)
    BY DEF Shut, IdleEntry
  <2> QED BY <1>1, <1>2, <2>1, <2>2, <2>3, NoneAssumption DEF Whole, IdleEntry, HasEntry
<1>3. \A p \in Peers : HasEntry(p)' <=> HasEntry(p)
  BY <1>1, <1>2 DEF HasEntry
<1>4. EntriesAreWhole'
  BY <1>2, <1>3 DEF EntriesAreWhole, Whole
<1>5. conns' = {}
  <2> SUFFICES ASSUME NEW c \in conns PROVE \E p \in Peers : c \in HeldConns(p)
    BY <1>1
  <2>1. /\ c[1] \in Peers /\ c = <<c[1], c[2]>> /\ HasEntry(c[1])
        /\ c[2] \in {out[c[1]].session, out[c[1]].connecting}
    BY MeshNumbers DEF ConnectionsMeetTheirEntry
  <2>2. c \in HeldConns(c[1])
    BY <2>1 DEF HeldConns
  <2> QED BY <2>1, <2>2
<1>6. \A t \in tasks' : t \in tasks /\ t.kind = "watch"
  <2> SUFFICES ASSUME NEW t \in tasks, t.kind # "watch"
               PROVE  \E p \in Peers : t \in HeldTasks(p)
    BY <1>1
  <2>1. /\ t.peer \in Peers /\ HasEntry(t.peer)
        /\ t.gen = out[t.peer].gen /\ t.kind = out[t.peer].pending
    BY MeshNumbers DEF TasksMeetTheirEntry
  <2>2. t \in HeldTasks(t.peer)
    BY <2>1 DEF HeldTasks
  <2> QED BY <2>1, <2>2
<1>7. TasksMeetTheirEntry'
  <2>1. ASSUME NEW t \in tasks
        PROVE  HasEntry(t.peer)' /\ t.gen < out'[t.peer].gen
    <3>1. /\ t.peer \in Peers /\ t.gen \in Nat /\ HasEntry(t.peer) /\ t.gen <= out[t.peer].gen
      BY MeshNumbers DEF TasksMeetTheirEntry
    <3> QED BY <1>2, <3>1
  <2>2. ASSUME NEW t \in tasks' PROVE t.gen \in Nat /\ t.gen # out'[t.peer].gen /\ t.gen <= out'[t.peer].gen
    <3>1. t \in tasks /\ t.peer \in Peers /\ t.gen \in Nat /\ out[t.peer].gen \in Nat
      BY <1>6, <1>2, MeshNumbers DEF TasksMeetTheirEntry
    <3> QED BY <1>2, <2>1, <3>1 DEF TasksMeetTheirEntry
  <2>3. ASSUME NEW t \in aborted'
        PROVE  t.kind # "watch" /\ HasEntry(t.peer)' /\ t.gen < out'[t.peer].gen
    <3>1. CASE t \in aborted
      <4>1. /\ t.peer \in Peers /\ t.gen \in Nat /\ t.kind # "watch" /\ HasEntry(t.peer)
            /\ t.gen < out[t.peer].gen
        BY <3>1, MeshNumbers DEF TasksMeetTheirEntry
      <4> QED BY <1>2, <4>1
    <3>2. CASE t \notin aborted
      <4>1. PICK p \in Peers : t \in HeldTasks(p)
        BY <1>1, <3>2
      <4>2. t \in tasks /\ HasEntry(p) /\ t.kind = out[p].pending
        BY <4>1 DEF HeldTasks
      <4>3. t.kind # "watch"
        BY <4>2, EntryIsThere DEF Entries
      <4> QED BY <2>1, <4>2, <4>3
    <3> QED BY <3>1, <3>2
  <2> QED BY <1>6, <2>1, <2>2, <2>3 DEF TasksMeetTheirEntry
<1>8. ReportsMeetTheirEntry'
  <2>1. ASSUME NEW i \in 1 .. Len(opq)
        PROVE  /\ out'[opq[i].peer] # NoEntry /\ opq[i].gen <= out'[opq[i].peer].gen
               /\ opq[i].gen # out'[opq[i].peer].gen
    <3>1. /\ opq[i].peer \in Peers /\ opq[i].gen \in Nat /\ HasEntry(opq[i].peer)
          /\ opq[i].gen <= out[opq[i].peer].gen
      BY MeshNumbers DEF ReportsMeetTheirEntry
    <3>2. /\ out'[opq[i].peer] # NoEntry /\ out[opq[i].peer].gen \in Nat
          /\ out'[opq[i].peer].gen = out[opq[i].peer].gen + 2
      BY <1>2, <3>1 DEF HasEntry
    <3> QED BY <3>1, <3>2
  <2> QED BY <1>1, <2>1 DEF ReportsMeetTheirEntry, HasEntry
<1>9. ConnectionsMeetTheirEntry'
  BY <1>5 DEF ConnectionsMeetTheirEntry
<1> QED BY <1>4, <1>5, <1>6, <1>7, <1>8, <1>9

-----------------------------------------------------------------------------
(* How the rows may change.                                                *)

\* A row that stays in sight keeps all but its transport; one that is there
\* afterwards has the transport it was given.
LEMMA TransportIsShown ==
  ASSUME NEW r \in Rows \cup {NoRow}, NEW t \in {"Waiting", "Connecting", "Connected", "Failed"}
  PROVE  /\ WithTransport(r, t) # NoRow => r # NoRow /\ WithTransport(r, t).transport = t
         /\ r # NoRow /\ (r.found \/ (r.role = "Outbound" /\ t \in {"Connecting", "Connected"})) =>
              /\ WithTransport(r, t) # NoRow
              /\ WithTransport(r, t).found = r.found /\ WithTransport(r, t).role = r.role
<1>1. CASE r = NoRow
  BY <1>1 DEF WithTransport, Pruned
<1>2. CASE r # NoRow
  <2> DEFINE s == [r EXCEPT !.transport = t]
  <2>1. /\ s \in Rows /\ s.transport = t /\ s.found = r.found /\ s.role = r.role
        /\ s # NoRow
    BY <1>2, NoneAssumption DEF Rows
  <2>2. WithTransport(r, t) = IF Visible(s) THEN s ELSE NoRow
    BY <1>2, <2>1 DEF WithTransport, Pruned
  <2>3. r.found \/ (r.role = "Outbound" /\ t \in {"Connecting", "Connected"}) => Visible(s)
    BY <2>1 DEF Visible
  <2> HIDE DEF s
  <2> QED BY <1>2, <2>1, <2>2, <2>3
<1> QED BY <1>1, <1>2

\* A row that is found has the role of the advertisement and its old transport.
LEMMA FoundIsShown ==
  ASSUME NEW r \in Rows \cup {NoRow}, NEW dial \in BOOLEAN
  PROVE  /\ FoundRow(r, dial) \in Rows /\ FoundRow(r, dial) # NoRow /\ FoundRow(r, dial).found
         /\ FoundRow(r, dial).role = (IF dial THEN "Outbound" ELSE "Inbound")
         /\ FoundRow(r, dial).transport = (IF r = NoRow THEN "Waiting" ELSE r.transport)
<1>1. FoundRow(r, dial) \in Rows
  BY RowsAreTyped
<1>2. /\ FoundRow(r, dial).found
      /\ FoundRow(r, dial).role = (IF dial THEN "Outbound" ELSE "Inbound")
      /\ FoundRow(r, dial).transport = (IF r = NoRow THEN "Waiting" ELSE r.transport)
  BY DEF FoundRow, Rows
<1> QED BY <1>1, <1>2, NoneAssumption

\* Forgetting the advertisement takes no row that shows a dial or a session.
LEMMA LostStillFits ==
  ASSUME NEW r \in Rows \cup {NoRow}, NEW e, RowFits(r, e)
  PROVE  RowFits(LostRow(r), e)
<1>1. CASE r = NoRow
  BY <1>1 DEF LostRow, Pruned, RowFits
<1>2. CASE r # NoRow
  <2> DEFINE s == [r EXCEPT !.found = FALSE]
  <2>1. s \in Rows /\ s.transport = r.transport /\ s.role = r.role /\ s # NoRow
    BY <1>2, NoneAssumption DEF Rows
  <2>2. LostRow(r) = IF Visible(s) THEN s ELSE NoRow
    BY <1>2, <2>1 DEF LostRow, Pruned
  <2>3. s.role = "Outbound" /\ s.transport \in {"Connecting", "Connected"} => Visible(s)
    BY DEF Visible
  <2> HIDE DEF s
  <2> QED BY <1>2, <2>1, <2>2, <2>3 DEF RowFits
<1> QED BY <1>1, <1>2

\* So does an announcement that comes or goes.
LEMMA AnnouncedStillFits ==
  ASSUME NEW r \in Rows, NEW b \in BOOLEAN, NEW e, RowFits(r, e)
  PROVE  /\ RowFits(Pruned([r EXCEPT !.available = b]), e)
         /\ r.found => /\ Pruned([r EXCEPT !.available = b]) # NoRow
                       /\ Pruned([r EXCEPT !.available = b]).found
                       /\ Pruned([r EXCEPT !.available = b]).role = r.role
<1> DEFINE s == [r EXCEPT !.available = b]
<1>1. /\ s \in Rows /\ s.transport = r.transport /\ s.role = r.role /\ s.found = r.found
      /\ s # NoRow /\ r # NoRow
  BY NoneAssumption DEF Rows
<1>2. Pruned(s) = IF Visible(s) THEN s ELSE NoRow
  BY <1>1 DEF Pruned
<1>3. s.found \/ (s.role = "Outbound" /\ s.transport \in {"Connecting", "Connected"}) => Visible(s)
  BY DEF Visible
<1> HIDE DEF s
<1>4. RowFits(Pruned(s), e)
  BY <1>1, <1>2, <1>3 DEF RowFits
<1>5. r.found => Pruned(s) # NoRow /\ Pruned(s).found /\ Pruned(s).role = r.role
  <2> SUFFICES ASSUME r.found PROVE Pruned(s) # NoRow /\ Pruned(s).found /\ Pruned(s).role = r.role
    OBVIOUS
  <2>1. s.found
    BY <1>1, Zenon
  <2>2. Pruned(s) = s
    BY <1>2, <1>3, <2>1
  <2> QED BY <1>1, <2>1, <2>2
<1> QED BY <1>4, <1>5 DEF s

\* One row changes with its entry and the others stay.
LEMMA OneRowChanges ==
  ASSUME RowsFollow, NEW p \in Peers, UNCHANGED <<pc, lan, dials>>,
         \A q \in Peers \ {p} :
           out'[q] = out[q] /\ rows'[q] = rows[q] /\ registry'[q] = registry[q],
         RowFits(rows'[p], out'[p]), KnownFits(p)'
  PROVE  RowsFollow'
<1>1. ASSUME NEW q \in Peers, q # p
      PROVE  (pc' # "offMesh" => RowFits(rows'[q], out'[q])) /\ KnownFits(q)'
  BY <1>1 DEF RowsFollow, KnownFits, Known, HasRow, HasEntry
<1> QED BY <1>1 DEF RowsFollow

\* An advertisement leaves what the row shows, in the role it gives.
LEMMA FoundStillFits ==
  ASSUME NEW r \in Rows \cup {NoRow}, NEW e, RowFits(r, e)
  PROVE  /\ RowFits(FoundRow(r, TRUE), e)
         /\ e = NoEntry => RowFits(FoundRow(r, FALSE), e)
  BY FoundIsShown DEF RowFits

-----------------------------------------------------------------------------
(* What the parts of the handlers do.                                      *)

\* A peer that we dial has its row.
Dialable(p) ==
  RowFits(rows[p], out[p]) /\ HasRow(p) /\ rows[p].found /\ rows[p].role = "Outbound"

\* The peers other than p are left alone.
OthersStay(p) == \A q \in Peers \ {p} : out'[q] = out[q] /\ rows'[q] = rows[q]

\* A handler takes a report or leaves the queue alone.
QueueIsServed == opq' = opq \/ (opq # <<>> /\ opq' = Tail(opq))

\* A dial under a new generation agrees with what ran before it and is shown.
LEMMA DialAgrees ==
  ASSUME TypeOK, EntriesAgree, NEW p \in Peers, NEW r \in Records, NEW e \in Entries,
         NEW born \in Nat, NEW expired \in BOOLEAN, NEW row \in Rows,
         Dial(p, r, e, born, expired, row),
         e.gen # 0, e.session = 0, HasEntry(p) => e.gen > out[p].gen,
         row.found, row.role = "Outbound", QueueIsServed
  PROVE  /\ EntriesAgree' /\ OthersStay(p) /\ Dialable(p)'
         /\ out'[p].session = 0 /\ out'[p].attempt.born = born
<1>1. PICK dialed \in BOOLEAN :
        /\ out' = [out EXCEPT ![p] =
             [e EXCEPT !.connecting = IF dialed THEN e.gen ELSE 0, !.pending = "dial",
                       !.attempt = [rec |-> r, born |-> born, expired |-> expired]]]
        /\ rows' = [rows EXCEPT ![p] = WithTransport(row, "Connecting")]
        /\ Abandon(HeldTasks(p), HeldConns(p), {Task("dial", p, e.gen)})
        /\ conns' = (conns \ HeldConns(p)) \cup (IF dialed THEN {<<p, e.gen>>} ELSE {})
  BY DEF Dial
<1> DEFINE a == [rec |-> r, born |-> born, expired |-> expired]
           f == [e EXCEPT !.connecting = IF dialed THEN e.gen ELSE 0, !.pending = "dial",
                          !.attempt = a]
<1>2. a \in Attempts /\ a # NoAttempt /\ a.born = born
  BY NoneAssumption DEF Attempts
<1>3. /\ f \in Entries /\ f.gen = e.gen /\ f.session = 0 /\ f.pending = "dial"
      /\ f.connecting = (IF dialed THEN e.gen ELSE 0) /\ f.attempt = a /\ e.gen \in Nat
  BY <1>2 DEF Entries
<1>4. out' = [out EXCEPT ![p] = f]
  BY <1>1
<1> HIDE DEF f, a
<1>5. Whole(f)
  BY <1>2, <1>3 DEF Whole
<1>6. EntriesAgree'
  <2> DEFINE started == {Task("dial", p, e.gen)}
             new     == IF dialed THEN {<<p, e.gen>>} ELSE {}
  <2>1. conns' = {c \in conns : c[1] # p} \cup new
    BY <1>1, HeldAreAll DEF EntriesAgree
  <2>2. /\ tasks' = (tasks \ HeldTasks(p)) \cup started
        /\ aborted' = aborted \cup HeldTasks(p)
    BY <1>1 DEF Abandon
  <2>3. f.pending # "none" /\ started = {Task(f.pending, p, f.gen)}
    BY <1>3
  <2>4. new = {} \/ (f.connecting # 0 /\ new = {<<p, f.connecting>>})
    BY <1>3
  <2>5. HasEntry(p) => f.gen > out[p].gen
    BY <1>3
  <2> HIDE DEF started, new
  <2> QED BY <1>3, <1>4, <1>5, <2>1, <2>2, <2>3, <2>4, <2>5, ReplacedAgrees DEF QueueIsServed
<1>7. out'[p] = f /\ HasEntry(p)' /\ OthersStay(p)
  BY <1>1, <1>3, <1>4, OneEntryChanges DEF OthersStay, TypeOK
<1>8. rows'[p] = WithTransport(row, "Connecting")
  BY <1>1 DEF TypeOK
<1>9. /\ rows'[p] # NoRow /\ rows'[p].transport = "Connecting"
      /\ rows'[p].found = row.found /\ rows'[p].role = "Outbound"
  <2>1. row # NoRow /\ row \in Rows \cup {NoRow}
    BY NoneAssumption
  <2> DEFINE s == WithTransport(row, "Connecting")
  <2>2. s # NoRow /\ s.found = row.found /\ s.role = row.role
    BY <2>1, TransportIsShown
  <2>3. s.transport = "Connecting"
    BY <2>1, <2>2, TransportIsShown
  <2> HIDE DEF s
  <2> QED BY <1>8, <2>2, <2>3, Zenon DEF s
<1>10. rows'[p].found
  BY <1>9, Zenon
<1>11. RowFits(rows'[p], out'[p])
  BY <1>3, <1>7, <1>9 DEF RowFits
<1> QED BY <1>2, <1>3, <1>6, <1>7, <1>9, <1>10, <1>11 DEF Dialable, HasRow

\* So does ensure_outbound, which keeps a session unless it is told to reset it.
LEMMA EnsureAgrees ==
  ASSUME TypeOK, EntriesAgree, NEW p \in Peers, NEW r \in Records, NEW reset \in BOOLEAN,
         NEW row \in Rows, Ensure(p, r, reset, row),
         row.found, row.role = "Outbound", RowFits(row, out[p]), QueueIsServed
  PROVE  /\ EntriesAgree' /\ OthersStay(p) /\ Dialable(p)'
         /\ ~reset /\ SessionOf(p) # 0 => out'[p] = out[p]
<1>1. CASE ~reset /\ SessionOf(p) # 0
  <2>1. rows' = [rows EXCEPT ![p] = row] /\ UNCHANGED <<out, tasks, aborted, conns, up>>
    BY <1>1 DEF Ensure
  <2>2. EntriesAgree'
    BY <2>1, KeptAgrees DEF QueueIsServed
  <2>3. rows'[p] = row /\ OthersStay(p)
    BY <2>1 DEF OthersStay, TypeOK
  <2> QED BY <2>1, <2>2, <2>3, NoneAssumption DEF Dialable, HasRow
<1>2. CASE ~(~reset /\ SessionOf(p) # 0)
  <2> DEFINE closed == Shut(EntryOf(p))
             e == IF reset THEN [closed EXCEPT !.budget = 0] ELSE closed
  <2>1. EntryOf(p) \in Entries /\ EntryOf(p).gen \in Nat /\ closed \in Entries /\ e \in Entries
    BY EntryIsThere, EntriesAreTyped DEF Entries
  <2>2. closed.gen = EntryOf(p).gen + 1 /\ closed.session = 0
    BY DEF Shut, IdleEntry
  <2>3. e.gen = EntryOf(p).gen + 1 /\ e.session = 0
    BY <2>1, <2>2 DEF Entries
  <2>4. HasEntry(p) => EntryOf(p) = out[p]
    BY DEF EntryOf
  <2>5. Dial(p, r, e, e.gen, FALSE, row)
    BY <1>2 DEF Ensure
  <2> HIDE DEF e, closed
  <2>6. e.gen \in Nat /\ e.gen # 0 /\ (HasEntry(p) => e.gen > out[p].gen)
    BY <2>1, <2>3, <2>4
  <2>7. EntriesAgree' /\ OthersStay(p) /\ Dialable(p)'
    BY <2>1, <2>3, <2>5, <2>6, DialAgrees
  <2> QED BY <1>2, <2>7
<1> QED BY <1>1, <1>2

\* So does refresh_outbound, which is never asked to end a session and keeps the
\* beginning of the attempt.
LEMMA RefreshAgrees ==
  ASSUME TypeOK, EntriesAgree, NEW p \in Peers, NEW r \in Records,
         NEW row \in Rows, Refresh(p, r, row),
         row.found, row.role = "Outbound", RowFits(row, out[p]), QueueIsServed
  PROVE  /\ EntriesAgree' /\ OthersStay(p) /\ Dialable(p)'
         /\ SessionOf(p) # 0 => out'[p] = out[p]
         /\ out'[p] = out[p] \/ out'[p].attempt.born = out[p].attempt.born
<1>1. CASE ~CanRefresh(p, r)
  <2>1. rows' = [rows EXCEPT ![p] = row] /\ UNCHANGED <<out, tasks, aborted, conns, up>>
    BY <1>1 DEF Refresh
  <2>2. EntriesAgree'
    BY <2>1, KeptAgrees DEF QueueIsServed
  <2>3. rows'[p] = row /\ OthersStay(p)
    BY <2>1 DEF OthersStay, TypeOK
  <2> QED BY <2>1, <2>2, <2>3, NoneAssumption DEF Dialable, HasRow
<1>2. CASE CanRefresh(p, r)
  <2> DEFINE e == Shut(Shut(out[p]))
             a == out[p].attempt
  <2>1. out[p] \in Entries /\ out[p].gen \in Nat /\ HasEntry(p) /\ out[p].session = 0
    BY <1>2, MeshNumbers DEF CanRefresh
  <2>2. a \in Attempts
    BY <1>2, <2>1 DEF CanRefresh, Entries
  <2>3. a.born \in Nat /\ a.expired \in BOOLEAN
    BY <2>2 DEF Attempts
  <2>4. e \in Entries /\ e.gen = out[p].gen + 1 + 1 /\ e.session = 0
    BY <2>1, EntriesAreTyped DEF Shut, IdleEntry
  <2>5. Dial(p, r, e, a.born, a.expired, row)
    BY <1>2 DEF Refresh, SameDeadline
  <2> HIDE DEF e, a
  <2>6. e.gen # 0 /\ e.gen > out[p].gen
    BY <2>1, <2>4
  <2>7. EntriesAgree' /\ OthersStay(p) /\ Dialable(p)' /\ out'[p].attempt.born = a.born
    BY <2>3, <2>4, <2>5, <2>6, DialAgrees
  <2> QED BY <2>1, <2>7 DEF SessionOf, a
<1> QED BY <1>1, <1>2

\* A peer that dials us from now on has its entry closed and its row kept.
LEMMA AcceptAgrees ==
  ASSUME TypeOK, EntriesAgree, NEW p \in Peers,
         NEW row \in Rows, AcceptInboundRole(p, row),
         row.found, HasEntry(p) \/ RowFits(row, NoEntry), QueueIsServed
  PROVE  /\ EntriesAgree' /\ OthersStay(p) /\ RowFits(rows'[p], out'[p])
         /\ rows'[p] # NoRow /\ rows'[p].found /\ rows'[p].role = row.role
         /\ out'[p] # NoEntry => /\ out'[p].pending = "none" /\ out'[p].session = 0
                                 /\ out'[p].attempt = NoAttempt
<1>0. row # NoRow
  BY NoneAssumption
<1>1. CASE ~HasEntry(p)
  <2>1. rows' = [rows EXCEPT ![p] = row] /\ UNCHANGED <<out, tasks, aborted, conns, up>>
    BY <1>1 DEF AcceptInboundRole
  <2>2. EntriesAgree'
    BY <2>1, KeptAgrees DEF QueueIsServed
  <2>3. rows'[p] = row /\ OthersStay(p)
    BY <2>1 DEF OthersStay, TypeOK
  <2> QED BY <1>0, <1>1, <2>1, <2>2, <2>3 DEF HasEntry
<1>2. CASE HasEntry(p)
  <2> DEFINE e == Shut(out[p])
  <2>1. /\ out' = [out EXCEPT ![p] = e]
        /\ rows' = [rows EXCEPT ![p] = WithTransport(row, "Waiting")]
        /\ tasks' = (tasks \ HeldTasks(p)) \cup {}
        /\ aborted' = aborted \cup HeldTasks(p)
        /\ conns' = {c \in conns : c[1] # p} \cup {}
    BY <1>2, HeldAreAll DEF AcceptInboundRole, Abandon, EntriesAgree
  <2>2. out[p] \in Entries /\ out[p].gen \in Nat /\ e \in Entries
    BY <1>2, MeshNumbers, EntriesAreTyped
  <2>3. /\ e.gen = out[p].gen + 1 /\ e.session = 0 /\ e.pending = "none" /\ e.connecting = 0
        /\ e.attempt = NoAttempt
    BY DEF Shut, IdleEntry
  <2> HIDE DEF e
  <2>4. Whole(e) /\ e.gen > out[p].gen
    BY <2>2, <2>3 DEF Whole
  <2>5. EntriesAgree'
    BY <2>1, <2>2, <2>4, ReplacedAgrees DEF QueueIsServed
  <2>6. out'[p] = e /\ OthersStay(p) /\ rows'[p] = WithTransport(row, "Waiting")
    BY <2>1, <2>2, OneEntryChanges DEF OthersStay, TypeOK
  <2>7. /\ rows'[p] # NoRow /\ rows'[p].transport = "Waiting" /\ rows'[p].role = row.role
        /\ rows'[p].found
    <3> DEFINE s == WithTransport(row, "Waiting")
    <3>1. s # NoRow /\ s.found = row.found /\ s.role = row.role
      BY <1>0, TransportIsShown
    <3>2. s.transport = "Waiting"
      BY <3>1, TransportIsShown
    <3> HIDE DEF s
    <3> QED BY <2>6, <3>1, <3>2, Zenon DEF s
  <2>8. RowFits(rows'[p], out'[p])
    BY <2>3, <2>6, <2>7 DEF RowFits
  <2> QED BY <2>3, <2>5, <2>6, <2>7, <2>8
<1> QED BY <1>1, <1>2

\* A report that is current finds its entry as its task left it.
LEMMA CurrentReport ==
  ASSUME TypeOK, EntriesAgree, NEW type, Receive(type), Current(Head(opq)),
         NEW p, p = Head(opq).peer
  PROVE  /\ opq # <<>> /\ opq' = Tail(opq) /\ opq[1] = Head(opq)
         /\ p \in Peers /\ HasEntry(p) /\ out[p] \in Entries /\ Whole(out[p])
         /\ Head(opq).gen = out[p].gen /\ Head(opq).type = type
         /\ Expected(Head(opq), out[p], conns) /\ HeldTasks(p) = {}
<1>1. opq # <<>> /\ opq' = Tail(opq) /\ Head(opq).type = type
  BY DEF Receive
<1>2. opq[1] = Head(opq) /\ 1 \in 1 .. Len(opq)
  BY <1>1, TailShifts DEF TypeOK
<1>3. p \in Peers /\ HasEntry(p) /\ Head(opq).gen = out[p].gen
  BY ReceivedIsTyped DEF Current
<1>4. out[p] \in Entries /\ Whole(out[p])
  BY <1>3, MeshNumbers DEF EntriesAgree, EntriesAreWhole
<1>5. Expected(Head(opq), out[p], conns)
  BY <1>2, <1>3 DEF EntriesAgree, ReportsMeetTheirEntry
<1>6. HeldTasks(p) = {}
  <2>1. \A t \in tasks : t.peer = p => t.gen # out[p].gen
    BY <1>2, <1>3 DEF EntriesAgree, ReportsMeetTheirEntry
  <2> QED BY <1>3, <2>1 DEF HeldTasks
<1> QED BY <1>1, <1>2, <1>3, <1>4, <1>5, <1>6

\* A retry that is scheduled starts a new generation; one that is not leaves an
\* entry without anything to end.
LEMMA ScheduleAgrees ==
  ASSUME TypeOK, EntriesAgree, NEW type, Receive(type), Current(Head(opq)),
         NEW p, p = Head(opq).peer, NEW e \in Entries, e.gen = out[p].gen,
         e.session = 0, e.connecting = 0, e.pending = "none", e.attempt = NoAttempt,
         NEW cs, conns \ cs = {c \in conns : c[1] # p}, ScheduleRetry(p, e, cs)
  PROVE  /\ EntriesAgree' /\ HasEntry(p)' /\ \A q \in Peers \ {p} : out'[q] = out[q]
         /\ out'[p].session = 0 /\ out'[p].pending # "dial" /\ out'[p].attempt = NoAttempt
<1>1. /\ opq # <<>> /\ opq' = Tail(opq) /\ opq[1] = Head(opq)
      /\ p \in Peers /\ HasEntry(p) /\ out[p] \in Entries /\ Whole(out[p])
      /\ Head(opq).gen = out[p].gen /\ HeldTasks(p) = {}
  BY CurrentReport
<1>2. e.gen \in Nat /\ e.gen # 0
  BY <1>1 DEF Entries, Whole
<1>3. CASE ~Known(p) \/ (Known(p) /\ MayRetry(e))
  <2>1. PICK f \in Entries, started \in SUBSET TaskSet :
          /\ f.gen = e.gen + 1 /\ f.session = 0 /\ f.connecting = 0 /\ f.attempt = NoAttempt
          /\ f.pending \in {"none", "backoff"}
          /\ started = {} \/ (f.pending # "none" /\ started = {Task(f.pending, p, f.gen)})
          /\ out' = [out EXCEPT ![p] = f] /\ Abandon({}, cs, started) /\ conns' = conns \ cs
    <3>1. CASE ~Known(p)
      <4>1. /\ Shut(e).gen = e.gen + 1 /\ Shut(e).session = 0 /\ Shut(e).connecting = 0
            /\ Shut(e).attempt = NoAttempt /\ Shut(e).pending = "none" /\ Shut(e) \in Entries
        BY EntriesAreTyped DEF Shut, IdleEntry
      <4>2. out' = [out EXCEPT ![p] = Shut(e)] /\ Abandon({}, cs, {}) /\ conns' = conns \ cs
        BY <3>1 DEF ScheduleRetry
      <4> QED BY <4>1, <4>2
    <3>2. CASE Known(p) /\ MayRetry(e)
      <4> DEFINE f == [e EXCEPT !.gen = @ + 1, !.budget = @ + 1, !.pending = "backoff"]
      <4>1. e.gen + 1 \in Nat /\ e.budget + 1 \in 0 .. RetryLimit
        BY <3>2, MeshAssumption DEF MayRetry, Entries
      <4>2. /\ f \in Entries /\ f.gen = e.gen + 1 /\ f.session = 0 /\ f.connecting = 0
            /\ f.attempt = NoAttempt /\ f.pending = "backoff"
        BY <4>1 DEF Entries
      <4>3. /\ out' = [out EXCEPT ![p] = f]
            /\ Abandon({}, cs, {Task("backoff", p, e.gen + 1)}) /\ conns' = conns \ cs
        BY <3>2 DEF ScheduleRetry
      <4> HIDE DEF f
      <4>4. {Task("backoff", p, e.gen + 1)} = {Task(f.pending, p, f.gen)}
        BY <4>2
      <4>5. {Task("backoff", p, e.gen + 1)} \in SUBSET TaskSet
        BY <1>1, <4>1 DEF Task, TaskSet
      <4> QED BY <4>2, <4>3, <4>4, <4>5
    <3> QED BY <1>3, <3>1, <3>2
  <2>2. f.gen > out[p].gen /\ Whole(f)
    BY <1>2, <2>1 DEF Whole
  <2>3. /\ tasks' = (tasks \ HeldTasks(p)) \cup started
        /\ aborted' = aborted \cup HeldTasks(p)
        /\ conns' = {c \in conns : c[1] # p} \cup {}
    BY <1>1, <2>1 DEF Abandon
  <2>4. EntriesAgree'
    BY <1>1, <2>1, <2>2, <2>3, ReplacedAgrees
  <2>5. out'[p] = f /\ HasEntry(p)' /\ \A q \in Peers \ {p} : out'[q] = out[q]
    BY <1>1, <2>1, OneEntryChanges
  <2> QED BY <2>1, <2>4, <2>5
<1>4. CASE Known(p) /\ ~MayRetry(e)
  <2>1. out' = [out EXCEPT ![p] = e] /\ Abandon({}, cs, {}) /\ conns' = conns \ cs
    BY <1>4 DEF ScheduleRetry
  <2>2. /\ tasks' = tasks \cup {} /\ aborted' = aborted
        /\ conns' \subseteq conns /\ \A c \in conns' : c[1] = p => c[2] = e.session
    BY <2>1 DEF Abandon
  <2>3. Whole(e)
    BY <1>2 DEF Whole
  <2>4. opq[1].peer = p /\ opq[1].gen = out[p].gen
    BY <1>1
  <2>5. EntriesAgree'
    BY <1>1, <2>1, <2>2, <2>3, <2>4, SettledAgrees
  <2>6. out'[p] = e /\ HasEntry(p)' /\ \A q \in Peers \ {p} : out'[q] = out[q]
    BY <1>1, <2>1, OneEntryChanges
  <2> QED BY <2>5, <2>6
<1> QED BY <1>3, <1>4

-----------------------------------------------------------------------------
(* The steps: each keeps the invariant, and what the action properties say   *)
(* of one peer.                                                              *)

\* HealthySessionIsKept of one peer.
SessionIsKept(p) ==
  (SessionOf(p) # 0 /\ <<p, SessionOf(p)>> \in up /\ SessionOf(p)' # SessionOf(p)) =>
    \/ pc # "select"
    \/ lan /\ ~dials[p]
    \/ Known(p) /\ registry'[p] # NoRecord /\ registry'[p].key # registry[p].key

\* DeadlineIsNotExtended of one peer.
DeadlineIsKept(p) ==
  (/\ Known(p) /\ registry'[p] # NoRecord /\ registry'[p].key = registry[p].key
   /\ HasEntry(p) /\ out'[p] # NoEntry
   /\ out[p].attempt # NoAttempt /\ out'[p].attempt # NoAttempt) =>
     out'[p].attempt.born = out[p].attempt.born

PeersAreKept == \A p \in Peers : SessionIsKept(p) /\ DeadlineIsKept(p)

\* A peer whose entry stays is kept.
LEMMA SameEntryIsKept ==
  ASSUME NEW p, out'[p] = out[p]
  PROVE  SessionIsKept(p) /\ DeadlineIsKept(p)
<1>1. SessionOf(p)' = SessionOf(p)
  BY DEF SessionOf, HasEntry
<1> QED BY <1>1 DEF SessionIsKept, DeadlineIsKept

\* With services and their origins up nothing of Off is prepared.
LEMMA SelectIsPrepared ==
  ASSUME pc' = "select", origins'
  PROVE  OffIsPrepared'
  BY DEF OffIsPrepared, OffIsQuiet

\* A handler of the queue runs while the origins exist.
LEMMA ReceiveIsPrepared ==
  ASSUME OffIsPrepared, NEW type, Receive(type)
  PROVE  pc = "select" /\ OffIsPrepared'
<1>1. pc = "select" /\ pc' = "select" /\ origins' = origins /\ opq # <<>>
  BY DEF Receive
<1>2. origins'
  BY <1>1 DEF OffIsPrepared, OffIsQuiet
<1> QED BY <1>1, <1>2, SelectIsPrepared

\* A handler that only takes a report, and closes at most a connection, keeps
\* everything.
LEMMA DroppedReportIsFine ==
  ASSUME TypeOK, MeshInvariant, NEW type, Receive(type),
         UNCHANGED <<rows, out, tasks, aborted>>, conns' \subseteq conns
  PROVE  MeshInvariant' /\ PeersAreKept
<1>1. /\ opq # <<>> /\ opq' = Tail(opq)
      /\ UNCHANGED <<pc, lan, origins, dials, registry>>
  BY DEF Receive
<1>2. EntriesAgree'
  BY <1>1, KeptAgrees DEF MeshInvariant
<1>3. RowsFollow'
  BY <1>1 DEF MeshInvariant, RowsFollow, KnownFits, Known, HasRow, HasEntry
<1>4. OffIsPrepared'
  BY ReceiveIsPrepared DEF MeshInvariant
<1>5. PeersAreKept
  BY SameEntryIsKept DEF PeersAreKept
<1> QED BY <1>2, <1>3, <1>4, <1>5 DEF MeshInvariant

\* A handler that shows p as failed and leaves it neither connected nor dialing
\* keeps everything.
LEMMA FailedIsFine ==
  ASSUME TypeOK, MeshInvariant, NEW type, Receive(type), NEW p \in Peers,
         rows' = [rows EXCEPT ![p] = WithTransport(@, "Failed")],
         EntriesAgree', HasEntry(p)', \A q \in Peers \ {p} : out'[q] = out[q],
         out'[p].session = 0, out'[p].pending # "dial", out'[p].attempt = NoAttempt,
         ~(SessionOf(p) # 0 /\ <<p, SessionOf(p)>> \in up),
         Known(p) => dials[p]
  PROVE  MeshInvariant' /\ PeersAreKept
<1> USE DEF MeshInvariant
<1>1. UNCHANGED <<pc, lan, origins, dials, registry>>
  BY DEF Receive
<1>2. /\ rows'[p] = WithTransport(rows[p], "Failed") /\ rows[p] \in Rows \cup {NoRow}
      /\ \A q \in Peers \ {p} : rows'[q] = rows[q]
  BY DEF TypeOK
<1>3. RowFits(rows'[p], out'[p])
  <2>1. rows'[p] # NoRow => rows'[p].transport = "Failed"
    BY <1>2, TransportIsShown
  <2> QED BY <2>1 DEF RowFits
<1>4. KnownFits(p)'
  <2> SUFFICES ASSUME registry[p] # NoRecord
               PROVE  /\ lan /\ rows'[p] # NoRow /\ rows'[p].found
                      /\ rows'[p].role = (IF dials[p] THEN "Outbound" ELSE "Inbound")
                      /\ dials[p]
    BY <1>1 DEF KnownFits, Known, HasRow
  <2>1. /\ lan /\ rows[p] # NoRow /\ rows[p].found /\ dials[p]
        /\ rows[p].role = (IF dials[p] THEN "Outbound" ELSE "Inbound")
    BY DEF RowsFollow, KnownFits, Known, HasRow
  <2> DEFINE s == WithTransport(rows[p], "Failed")
  <2>2. s # NoRow /\ s.found = rows[p].found /\ s.role = rows[p].role
    BY <1>2, <2>1, TransportIsShown
  <2> HIDE DEF s
  <2> QED BY <1>2, <2>1, <2>2, Zenon DEF s
<1>5. RowsFollow'
  BY <1>1, <1>2, <1>3, <1>4, OneRowChanges
<1>6. OffIsPrepared'
  BY ReceiveIsPrepared
<1>7. SessionIsKept(p) /\ DeadlineIsKept(p)
  BY DEF SessionIsKept, DeadlineIsKept
<1>8. PeersAreKept
  BY <1>7, SameEntryIsKept DEF PeersAreKept
<1> QED BY <1>5, <1>6, <1>8

\* A dial that fails was the pending one of an entry without a session.
LEMMA OnDialFailedIsFine ==
  ASSUME TypeOK, MeshInvariant, OnDialFailed
  PROVE  MeshInvariant' /\ PeersAreKept
<1> DEFINE p == Head(opq).peer
           e == [out[p] EXCEPT !.attempt = NoAttempt, !.pending = "none", !.connecting = 0]
           cs == {<<p, out[p].connecting>>}
<1>1. /\ Receive("SessionReady") /\ Current(Head(opq))
      /\ rows' = [rows EXCEPT ![p] = WithTransport(@, "Failed")]
      /\ ScheduleRetry(p, e, cs)
  BY DEF OnDialFailed
<1>2. /\ p \in Peers /\ HasEntry(p) /\ out[p] \in Entries /\ Whole(out[p])
      /\ out[p].pending = "dial"
  BY <1>1, CurrentReport DEF MeshInvariant, Expected
<1>3. out[p].session = 0
  BY <1>2 DEF Whole
<1>4. /\ e \in Entries /\ e.gen = out[p].gen /\ e.session = 0 /\ e.connecting = 0
      /\ e.pending = "none" /\ e.attempt = NoAttempt
  BY <1>2, <1>3 DEF Entries
<1>5. conns \ cs = {c \in conns : c[1] # p}
  BY <1>2, <1>3, HeldAreAll DEF MeshInvariant, EntriesAgree
<1> HIDE DEF p, e, cs
<1>6. /\ EntriesAgree' /\ out'[p] # NoEntry /\ \A q \in Peers \ {p} : out'[q] = out[q]
      /\ out'[p].session = 0 /\ out'[p].pending # "dial" /\ out'[p].attempt = NoAttempt
  BY <1>1, <1>4, <1>5, ScheduleAgrees DEF MeshInvariant, HasEntry, p
<1>7. Known(p) => dials[p]
  BY <1>2 DEF MeshInvariant, RowsFollow, KnownFits
<1>8. SessionOf(p) = 0
  BY <1>3 DEF SessionOf
<1> QED BY <1>1, <1>2, <1>6, <1>7, <1>8, FailedIsFine DEF HasEntry

\* A session that is reported closed has no connection left.
LEMMA OnSessionClosedIsFine ==
  ASSUME TypeOK, MeshInvariant, OnSessionClosed
  PROVE  MeshInvariant' /\ PeersAreKept
<1>1. CASE ~Current(Head(opq))
  BY <1>1, DroppedReportIsFine DEF OnSessionClosed
<1>2. CASE Current(Head(opq))
  <2> DEFINE p == Head(opq).peer
             e == [out[p] EXCEPT !.session = 0]
             cs == {<<p, out[p].session>>}
  <2>1. /\ Receive("SessionClosed") /\ Current(Head(opq))
        /\ rows' = [rows EXCEPT ![p] = WithTransport(@, "Failed")]
        /\ ScheduleRetry(p, e, cs)
    BY <1>2 DEF OnSessionClosed
  <2>2. /\ p \in Peers /\ HasEntry(p) /\ out[p] \in Entries /\ Whole(out[p])
        /\ Head(opq).gen = out[p].gen /\ out[p].session = out[p].gen
        /\ <<p, out[p].gen>> \notin conns
    BY <2>1, CurrentReport DEF MeshInvariant, Expected
  <2>3. /\ out[p].session # 0 /\ out[p].connecting = 0 /\ out[p].pending = "none"
        /\ out[p].attempt = NoAttempt
    BY <2>2 DEF Whole
  <2>4. /\ e \in Entries /\ e.gen = out[p].gen /\ e.session = 0 /\ e.connecting = 0
        /\ e.pending = "none" /\ e.attempt = NoAttempt
    BY <2>2, <2>3 DEF Entries
  <2>5. conns \ cs = {c \in conns : c[1] # p}
    BY <2>2, <2>3, HeldAreAll DEF MeshInvariant, EntriesAgree
  <2> HIDE DEF p, e, cs
  <2>6. /\ EntriesAgree' /\ out'[p] # NoEntry /\ \A q \in Peers \ {p} : out'[q] = out[q]
        /\ out'[p].session = 0 /\ out'[p].pending # "dial" /\ out'[p].attempt = NoAttempt
    BY <2>1, <2>4, <2>5, ScheduleAgrees DEF MeshInvariant, HasEntry, p
  <2>7. Known(p) => dials[p]
    BY <2>2, <2>3 DEF MeshInvariant, RowsFollow, KnownFits
  <2>8. <<p, SessionOf(p)>> \notin up
    BY <2>2 DEF SessionOf, TypeOK
  <2> QED BY <2>1, <2>2, <2>6, <2>7, <2>8, FailedIsFine DEF HasEntry
<1> QED BY <1>1, <1>2

\* A late answer of a dial closes at most its own connection.
LEMMA OnStaleReadyIsFine ==
  ASSUME TypeOK, MeshInvariant, OnStaleReady
  PROVE  MeshInvariant' /\ PeersAreKept
<1>1. conns' \subseteq conns
  BY DEF OnStaleReady, LateClosed
<1> QED BY <1>1, DroppedReportIsFine DEF OnStaleReady

\* A session that comes up is that of the pending dial, and is watched.
LEMMA OnReadyIsFine ==
  ASSUME TypeOK, MeshInvariant, OnReady
  PROVE  MeshInvariant' /\ PeersAreKept
<1> USE DEF MeshInvariant
<1> DEFINE p == Head(opq).peer
           g == Head(opq).gen
           e == [out[p] EXCEPT !.attempt = NoAttempt, !.pending = "none",
                  !.connecting = 0, !.session = g, !.budget = 0]
<1>1. /\ Receive("SessionReady") /\ Current(Head(opq))
      /\ out' = [out EXCEPT ![p] = e]
      /\ rows' = [rows EXCEPT ![p] = WithTransport(@, "Connected")]
      /\ tasks' = tasks \cup {Task("watch", p, g)}
      /\ UNCHANGED <<aborted, conns, up>>
  BY DEF OnReady, Watched
<1>2. /\ opq # <<>> /\ opq' = Tail(opq) /\ opq[1].peer = p /\ opq[1].gen = out[p].gen
      /\ p \in Peers /\ HasEntry(p) /\ out[p] \in Entries /\ Whole(out[p])
      /\ out[p].pending = "dial" /\ g = out[p].gen /\ out[p].gen \in Nat
  BY <1>1, CurrentReport DEF Expected, Entries
<1>3. out[p].session = 0 /\ out[p].gen # 0 /\ out[p].attempt # NoAttempt
      /\ out[p].connecting \in {0, out[p].gen}
  BY <1>2 DEF Whole
<1>4. /\ e \in Entries /\ e.gen = out[p].gen /\ e.session = out[p].gen /\ e.connecting = 0
      /\ e.pending = "none" /\ e.attempt = NoAttempt
  <2>1. e \in Entries
    BY <1>2, EntriesAreTyped
  <2>2. /\ e.gen = out[p].gen /\ e.session = out[p].gen /\ e.connecting = 0
        /\ e.pending = "none" /\ e.attempt = NoAttempt
    BY <1>2 DEF Entries
  <2> QED BY <2>1, <2>2
<1>5. \A c \in conns : c[1] = p => c[2] = e.session
  BY <1>3, <1>4 DEF EntriesAgree, ConnectionsMeetTheirEntry
<1>6. UNCHANGED <<pc, lan, origins, dials, registry>>
  BY <1>1 DEF Receive
<1> HIDE DEF p, g, e
<1>7. Whole(e)
  BY <1>3, <1>4 DEF Whole
<1>8. EntriesAgree'
  <2>1. {Task("watch", p, g)} = {Task("watch", p, e.gen)} /\ e.session # 0
    BY <1>2, <1>3, <1>4
  <2> QED BY <1>1, <1>2, <1>4, <1>5, <1>7, <2>1, SettledAgrees
<1>9. out'[p] = e /\ e # NoEntry /\ \A q \in Peers \ {p} : out'[q] = out[q]
  BY <1>1, <1>2, <1>4, NoneAssumption DEF TypeOK
<1>10. /\ rows'[p] = WithTransport(rows[p], "Connected")
       /\ rows[p] \in Rows \cup {NoRow}
       /\ \A q \in Peers \ {p} : rows'[q] = rows[q]
  BY <1>1, <1>2 DEF TypeOK
<1>11. pc = "select" /\ OffIsPrepared'
  BY <1>1, ReceiveIsPrepared
<1>12. rows[p] # NoRow /\ rows[p].role = "Outbound"
  BY <1>2, <1>11 DEF RowsFollow, RowFits, HasEntry
<1>13. /\ rows'[p] # NoRow /\ rows'[p].transport = "Connected"
       /\ rows'[p].found = rows[p].found /\ rows'[p].role = rows[p].role
  <2> DEFINE s == WithTransport(rows[p], "Connected")
  <2>1. s # NoRow /\ s.found = rows[p].found /\ s.role = rows[p].role
    BY <1>10, <1>12, TransportIsShown
  <2>2. s.transport = "Connected"
    BY <1>10, <2>1, TransportIsShown
  <2> HIDE DEF s
  <2> QED BY <1>10, <2>1, <2>2, Zenon DEF s
<1>14. RowFits(rows'[p], out'[p])
  BY <1>3, <1>4, <1>9, <1>12, <1>13 DEF RowFits
<1>15. Known(p) => lan /\ HasRow(p) /\ rows[p].found /\ dials[p]
  BY <1>2 DEF RowsFollow, KnownFits
<1>16. registry'[p] # NoRecord =>
         /\ lan' /\ rows'[p] # NoRow /\ rows'[p].found /\ dials'[p]
         /\ rows'[p].role = "Outbound"
  <2>1. Known(p) => rows'[p].found
    BY <1>13, <1>15, Zenon
  <2> QED BY <1>6, <1>12, <1>13, <1>15, <2>1 DEF Known
<1>17. \A q \in Peers \ {p} :
         out'[q] = out[q] /\ rows'[q] = rows[q] /\ registry'[q] = registry[q]
  BY <1>6, <1>9, <1>10
<1>18. RowsFollow'
  BY <1>2, <1>6, <1>14, <1>16, <1>17, OneRowChanges DEF KnownFits, Known, HasRow
<1>19. ASSUME NEW q \in Peers PROVE SessionIsKept(q) /\ DeadlineIsKept(q)
  <2>1. CASE q = p
    BY <1>2, <1>3, <1>4, <1>9, <2>1 DEF SessionIsKept, DeadlineIsKept, SessionOf
  <2>2. CASE q # p
    BY <1>9, <2>2, SameEntryIsKept
  <2> QED BY <2>1, <2>2
<1> QED BY <1>8, <1>11, <1>18, <1>19 DEF PeersAreKept

\* A backoff that ends finds its peer unconnected and dials it if it is known.
LEMMA OnRetryOutboundIsFine ==
  ASSUME TypeOK, MeshInvariant, OnRetryOutbound
  PROVE  MeshInvariant' /\ PeersAreKept
<1> USE DEF MeshInvariant
<1>1. CASE ~(Current(Head(opq)) /\ Known(Head(opq).peer))
  BY <1>1, DroppedReportIsFine DEF OnRetryOutbound
<1>2. CASE Current(Head(opq)) /\ Known(Head(opq).peer)
  <2> DEFINE p == Head(opq).peer
  <2>1. Receive("RetryOutbound") /\ Ensure(p, registry[p], FALSE, rows[p])
    BY <1>2 DEF OnRetryOutbound
  <2>2. /\ opq # <<>> /\ opq' = Tail(opq)
        /\ p \in Peers /\ HasEntry(p) /\ out[p] \in Entries /\ Whole(out[p])
        /\ out[p].pending = "backoff"
    BY <1>2, <2>1, CurrentReport DEF Expected
  <2>3. pc = "select" /\ OffIsPrepared'
    BY <2>1, ReceiveIsPrepared
  <2>4. UNCHANGED <<pc, lan, origins, dials, registry>>
    BY <2>1 DEF Receive
  <2>5. Known(p)
    BY <1>2
  <2> HIDE DEF p
  <2>6. /\ lan /\ HasRow(p) /\ rows[p].found /\ dials[p] /\ rows[p].role = "Outbound"
        /\ RowFits(rows[p], out[p])
    BY <2>2, <2>3, <2>5 DEF RowsFollow, KnownFits
  <2>7. registry[p] \in Records /\ rows[p] \in Rows
    BY <2>2, <2>5, <2>6 DEF TypeOK, Known, HasRow
  <2>8. /\ EntriesAgree' /\ OthersStay(p)
        /\ RowFits(rows'[p], out'[p]) /\ rows'[p] # NoRow /\ rows'[p].found
        /\ rows'[p].role = "Outbound"
    BY <2>1, <2>2, <2>6, <2>7, EnsureAgrees DEF QueueIsServed, Dialable, HasRow
  <2>9. RowsFollow'
    BY <2>2, <2>4, <2>6, <2>8, OneRowChanges DEF OthersStay, KnownFits, Known, HasRow
  <2>10. out[p].session = 0 /\ out[p].attempt = NoAttempt
    BY <2>2 DEF Whole
  <2>11. ASSUME NEW q \in Peers PROVE SessionIsKept(q) /\ DeadlineIsKept(q)
    <3>1. CASE q = p
      BY <2>10, <3>1 DEF SessionIsKept, DeadlineIsKept, SessionOf
    <3>2. CASE q # p
      BY <2>8, <3>2, SameEntryIsKept DEF OthersStay
    <3> QED BY <3>1, <3>2
  <2> QED BY <2>3, <2>8, <2>9, <2>11 DEF PeersAreKept
<1> QED BY <1>1, <1>2

\* Services start with an empty registry.
LEMMA ServicesStartedIsFine ==
  ASSUME TypeOK, MeshInvariant, ServicesStarted
  PROVE  MeshInvariant' /\ PeersAreKept
<1> USE DEF MeshInvariant
<1>1. /\ pc = "select" /\ pc' = pc /\ ~lan /\ lan' /\ origins /\ origins' = origins
      /\ UNCHANGED <<registry, rows, out, tasks, aborted, conns, up, opq>>
  BY DEF ServicesStarted
<1>2. EntriesAgree'
  BY <1>1, KeptAgrees
<1>3. \A p \in Peers : registry'[p] = NoRecord /\ RowFits(rows[p], out[p])
  BY <1>1 DEF RowsFollow, KnownFits, Known
<1>4. RowsFollow'
  BY <1>1, <1>3 DEF RowsFollow, KnownFits, Known
<1>5. OffIsPrepared'
  BY <1>1, SelectIsPrepared
<1>6. PeersAreKept
  BY <1>1, SameEntryIsKept DEF PeersAreKept
<1> QED BY <1>2, <1>4, <1>5, <1>6

\* A restart of discovery forgets the advertisements and keeps every entry.
LEMMA LanRestartsIsFine ==
  ASSUME TypeOK, MeshInvariant, LanRestarts
  PROVE  MeshInvariant' /\ PeersAreKept
<1> USE DEF MeshInvariant
<1>1. /\ pc = "select" /\ pc' = pc /\ origins'
      /\ registry' = [p \in Peers |-> NoRecord]
      /\ rows' = [p \in Peers |-> LostRow(rows[p])]
      /\ UNCHANGED <<dials, out, tasks, aborted, conns, up, opq>>
  BY DEF LanRestarts
<1>2. EntriesAgree'
  BY <1>1, KeptAgrees
<1>3. \A p \in Peers : registry'[p] = NoRecord /\ RowFits(rows'[p], out[p])
  BY <1>1, LostStillFits DEF RowsFollow, TypeOK
<1>4. RowsFollow'
  BY <1>1, <1>3 DEF RowsFollow, KnownFits, Known
<1>5. OffIsPrepared'
  BY <1>1, SelectIsPrepared
<1>6. PeersAreKept
  BY <1>1, SameEntryIsKept DEF PeersAreKept
<1> QED BY <1>2, <1>4, <1>5, <1>6

\* An advertisement that goes takes no entry with it.
LEMMA OnLostIsFine ==
  ASSUME TypeOK, MeshInvariant, NEW p \in Peers, OnLost(p)
  PROVE  MeshInvariant' /\ PeersAreKept
<1> USE DEF MeshInvariant
<1>1. /\ pc = "select" /\ lan
      /\ registry' = [registry EXCEPT ![p] = NoRecord]
      /\ rows' = [rows EXCEPT ![p] = LostRow(@)]
      /\ UNCHANGED <<pc, lan, origins, dials, out, tasks, aborted, conns, up, opq>>
  BY DEF OnLost, LostKeeps
<1>2. EntriesAgree'
  BY <1>1, KeptAgrees
<1>3. /\ registry'[p] = NoRecord /\ rows'[p] = LostRow(rows[p])
      /\ \A q \in Peers \ {p} : registry'[q] = registry[q] /\ rows'[q] = rows[q]
  BY <1>1 DEF TypeOK
<1>4. RowFits(rows'[p], out'[p])
  BY <1>1, <1>3, LostStillFits DEF RowsFollow, TypeOK
<1>5. RowsFollow'
  BY <1>1, <1>3, <1>4, OneRowChanges DEF KnownFits, Known
<1>6. OffIsPrepared'
  BY <1>1, SelectIsPrepared DEF OffIsPrepared
<1>7. PeersAreKept
  BY <1>1, SameEntryIsKept DEF PeersAreKept
<1> QED BY <1>2, <1>5, <1>6, <1>7

\* The screen of a peer comes and goes beside its session.
LEMMA OnScreenAnnouncementIsFine ==
  ASSUME TypeOK, MeshInvariant, NEW p \in Peers, NEW b \in BOOLEAN,
         OnScreenAnnouncement(p, b)
  PROVE  MeshInvariant' /\ PeersAreKept
<1> USE DEF MeshInvariant
<1> DEFINE new == [found |-> FALSE, role |-> "Inbound", available |-> TRUE,
                   transport |-> "Waiting"]
<1>1. /\ pc = "select" /\ origins
      /\ rows' = [rows EXCEPT ![p] =
           IF @ = NoRow THEN IF b THEN new ELSE NoRow
           ELSE Pruned([@ EXCEPT !.available = b])]
      /\ UNCHANGED <<pc, lan, origins, dials, registry, out, tasks, aborted, conns, up, opq>>
  BY DEF OnScreenAnnouncement
<1>2. EntriesAgree'
  BY <1>1, KeptAgrees
<1>3. \A q \in Peers \ {p} : rows'[q] = rows[q]
  BY <1>1 DEF TypeOK
<1>4. RowFits(rows[p], out[p]) /\ KnownFits(p)
  BY <1>1 DEF RowsFollow
<1>5. ASSUME rows[p] = NoRow PROVE RowsFollow'
  <2>1. rows'[p] = (IF b THEN new ELSE NoRow)
    BY <1>1, <1>5 DEF TypeOK
  <2>2. RowFits(rows'[p], out'[p])
    BY <1>1, <1>4, <1>5, <2>1 DEF RowFits
  <2>3. RowsFollow'
    BY <1>1, <1>3, <1>4, <1>5, <2>2, OneRowChanges DEF KnownFits, Known, HasRow
  <2> QED BY <2>3
<1>6. ASSUME rows[p] # NoRow PROVE RowsFollow'
  <2> DEFINE s == Pruned([rows[p] EXCEPT !.available = b])
  <2>1. rows'[p] = s /\ rows[p] \in Rows
    BY <1>1, <1>6 DEF TypeOK
  <2>2. RowFits(s, out[p])
    BY <1>4, <2>1, AnnouncedStillFits
  <2>3. rows[p].found => s # NoRow /\ s.found /\ s.role = rows[p].role
    BY <1>4, <2>1, AnnouncedStillFits
  <2> HIDE DEF s
  <2>4. KnownFits(p)'
    BY <1>1, <1>4, <1>6, <2>1, <2>3 DEF KnownFits, Known, HasRow, HasEntry
  <2> QED BY <1>1, <1>3, <2>1, <2>2, <2>4, OneRowChanges
<1>7. OffIsPrepared'
  BY <1>1, SelectIsPrepared
<1>8. PeersAreKept
  BY <1>1, SameEntryIsKept DEF PeersAreKept
<1> QED BY <1>2, <1>5, <1>6, <1>7, <1>8

\* What an advertisement leaves in the registry has its identity.
LEMMA MergeHasItsKey ==
  ASSUME NEW old \in Records \cup {NoRecord}, NEW r \in Records
  PROVE  Merge(old, r).key = r.key
<1>1. CASE old # NoRecord /\ old.key = r.key
  BY <1>1 DEF Merge, Records
<1>2. CASE ~(old # NoRecord /\ old.key = r.key)
  BY <1>2 DEF Merge
<1> QED BY <1>1, <1>2

\* An advertisement changes an entry for the role or the identity it brings, for
\* addresses a dial can use, or because nothing of ours was running.
LEMMA OnFoundIsFine ==
  ASSUME TypeOK, MeshInvariant, NEW p \in Peers, NEW r \in Records, OnFound(p, r)
  PROVE  MeshInvariant' /\ PeersAreKept
<1> USE DEF MeshInvariant
<1> DEFINE update == Update(registry[p], r)
           merged == Merge(registry[p], r)
           row    == FoundRow(rows[p], dials[p])
           active == HasEntry(p) /\ (out[p].session # 0 \/ out[p].pending # "none")
           reset  == ResetOutbound(update, active)
<1>1. /\ pc = "select" /\ lan
      /\ registry' = [registry EXCEPT ![p] = merged]
      /\ UNCHANGED <<pc, lan, origins, dials, opq>>
      /\ \/ ~dials[p] /\ AcceptInboundRole(p, row)
         \/ dials[p] /\ Refresh(p, merged, row)
         \/ dials[p] /\ (reset \/ update = "Added") /\ Ensure(p, merged, reset, row)
         \/ /\ dials[p] /\ rows' = [rows EXCEPT ![p] = row]
            /\ UNCHANGED <<out, tasks, aborted, conns, up>>
  BY DEF OnFound
<1>2. merged \in Records /\ merged.key = r.key
  BY MergeIsTyped, MergeHasItsKey DEF TypeOK
<1>3. /\ row \in Rows /\ row # NoRow /\ row.found /\ dials[p] \in BOOLEAN
      /\ row.role = (IF dials[p] THEN "Outbound" ELSE "Inbound")
      /\ rows[p] \in Rows \cup {NoRow} /\ registry[p] \in Records \cup {NoRecord}
  <2>1. /\ rows[p] \in Rows \cup {NoRow} /\ registry[p] \in Records \cup {NoRecord}
        /\ dials[p] \in BOOLEAN
    BY DEF TypeOK
  <2> QED BY <2>1, FoundIsShown
<1>4. RowFits(rows[p], out[p])
  BY <1>1 DEF RowsFollow
<1>5. dials[p] => RowFits(row, out[p])
  BY <1>3, <1>4, FoundStillFits
<1>6. ~dials[p] => HasEntry(p) \/ RowFits(row, NoEntry)
  BY <1>3, <1>4, FoundStillFits DEF HasEntry
<1>7. reset \in BOOLEAN /\ (reset => update = "IdentityReplaced" \/ ~active)
  BY DEF ResetOutbound
<1>8. /\ update = "IdentityReplaced" => Known(p) /\ registry[p].key # r.key
      /\ update = "Added" => ~Known(p)
  <2>1. CASE registry[p] = NoRecord
    BY <2>1 DEF Update, Known
  <2>2. CASE registry[p] # NoRecord /\ registry[p].key # r.key
    BY <2>2 DEF Update, Known
  <2>3. CASE registry[p] # NoRecord /\ registry[p].key = r.key
    <3>1. update \in {"Unchanged", "CandidatesMerged"}
      BY <2>3 DEF Update
    <3> QED BY <3>1
  <2> QED BY <2>1, <2>2, <2>3
<1>9. /\ registry'[p] = merged
      /\ \A q \in Peers \ {p} : registry'[q] = registry[q]
  BY <1>1, <1>3 DEF TypeOK
<1>10. ~active => SessionOf(p) = 0 /\ (HasEntry(p) => out[p].attempt = NoAttempt)
  BY DEF EntriesAgree, EntriesAreWhole, Whole, SessionOf
<1> HIDE DEF update, merged, row, active, reset
<1>11. OffIsPrepared'
  BY <1>1, SelectIsPrepared DEF OffIsPrepared
<1>12. ASSUME EntriesAgree', OthersStay(p), RowFits(rows'[p], out'[p]),
              rows'[p] # NoRow, rows'[p].found,
              rows'[p].role = (IF dials[p] THEN "Outbound" ELSE "Inbound"),
              ~dials[p] /\ out'[p] # NoEntry => out'[p].pending = "none" /\ out'[p].session = 0,
              SessionIsKept(p), DeadlineIsKept(p)
       PROVE  MeshInvariant' /\ PeersAreKept
  <2>1. KnownFits(p)'
    BY <1>1, <1>12 DEF KnownFits, HasRow, HasEntry
  <2>2. RowsFollow'
    BY <1>1, <1>9, <1>12, <2>1, OneRowChanges DEF OthersStay
  <2>3. PeersAreKept
    BY <1>12, SameEntryIsKept DEF OthersStay, PeersAreKept
  <2> QED BY <1>11, <1>12, <2>2, <2>3
<1>13. QueueIsServed
  BY <1>1 DEF QueueIsServed
<1>14. CASE ~dials[p] /\ AcceptInboundRole(p, row)
  <2>1. /\ EntriesAgree' /\ OthersStay(p) /\ RowFits(rows'[p], out'[p])
        /\ rows'[p] # NoRow /\ rows'[p].found /\ rows'[p].role = row.role
        /\ out'[p] # NoEntry => /\ out'[p].pending = "none" /\ out'[p].session = 0
                                /\ out'[p].attempt = NoAttempt
    BY <1>3, <1>6, <1>13, <1>14, AcceptAgrees
  <2>2. SessionIsKept(p) /\ DeadlineIsKept(p)
    BY <1>1, <1>14, <2>1 DEF SessionIsKept, DeadlineIsKept
  <2> QED BY <1>3, <1>12, <2>1, <2>2
<1>15. CASE dials[p] /\ Refresh(p, merged, row)
  <2>1. /\ EntriesAgree' /\ OthersStay(p) /\ Dialable(p)'
        /\ SessionOf(p) # 0 => out'[p] = out[p]
        /\ out'[p] = out[p] \/ out'[p].attempt.born = out[p].attempt.born
    BY <1>2, <1>3, <1>5, <1>13, <1>15, RefreshAgrees
  <2>2. SessionIsKept(p) /\ DeadlineIsKept(p)
    <3>1. SessionOf(p) # 0 => SessionOf(p)' = SessionOf(p)
      BY <2>1 DEF SessionOf, HasEntry
    <3> QED BY <2>1, <3>1 DEF SessionIsKept, DeadlineIsKept
  <2> QED BY <1>12, <1>15, <2>1, <2>2 DEF Dialable, HasRow
<1>16. CASE dials[p] /\ (reset \/ update = "Added") /\ Ensure(p, merged, reset, row)
  <2>1. /\ EntriesAgree' /\ OthersStay(p) /\ Dialable(p)'
        /\ ~reset /\ SessionOf(p) # 0 => out'[p] = out[p]
    BY <1>2, <1>3, <1>5, <1>7, <1>13, <1>16, EnsureAgrees
  <2>2. SessionIsKept(p)
    <3>1. ~reset /\ SessionOf(p) # 0 => SessionOf(p)' = SessionOf(p)
      BY <2>1 DEF SessionOf, HasEntry
    <3>2. reset => SessionOf(p) = 0 \/ (Known(p) /\ registry'[p] # NoRecord
                                        /\ registry'[p].key # registry[p].key)
      BY <1>2, <1>7, <1>8, <1>9, <1>10, NoneAssumption
    <3> QED BY <3>1, <3>2 DEF SessionIsKept
  <2>3. DeadlineIsKept(p)
    BY <1>2, <1>7, <1>8, <1>9, <1>10, <1>16 DEF DeadlineIsKept
  <2> QED BY <1>12, <1>16, <2>1, <2>2, <2>3 DEF Dialable, HasRow
<1>17. CASE /\ dials[p] /\ rows' = [rows EXCEPT ![p] = row]
            /\ UNCHANGED <<out, tasks, aborted, conns, up>>
  <2>1. EntriesAgree'
    BY <1>1, <1>17, KeptAgrees
  <2>2. OthersStay(p) /\ rows'[p] = row /\ out'[p] = out[p]
    BY <1>17 DEF OthersStay, TypeOK
  <2>3. SessionIsKept(p) /\ DeadlineIsKept(p)
    BY <2>2, SameEntryIsKept
  <2> QED BY <1>3, <1>5, <1>12, <1>17, <2>1, <2>2, <2>3
<1> QED BY <1>1, <1>14, <1>15, <1>16, <1>17

\* Off begins with discovery: the entries are still served.
LEMMA StopLanIsFine ==
  ASSUME TypeOK, MeshInvariant, StopLan
  PROVE  MeshInvariant' /\ PeersAreKept
<1> USE DEF MeshInvariant
<1>1. /\ pc = "select" /\ pc' = "offMedia" /\ ~lan' /\ origins' = origins
      /\ registry' = [p \in Peers |-> NoRecord]
      /\ UNCHANGED <<dials, rows, out, tasks, aborted, conns, up, opq>>
  BY DEF StopLan
<1>2. EntriesAgree'
  BY <1>1, KeptAgrees
<1>3. \A p \in Peers : registry'[p] = NoRecord /\ RowFits(rows'[p], out'[p])
  BY <1>1 DEF RowsFollow
<1>4. RowsFollow'
  BY <1>3 DEF RowsFollow, KnownFits, Known
<1>5. OffIsPrepared'
  BY <1>1 DEF OffIsPrepared, OffIsQuiet, HasEntry, HasRow
<1>6. PeersAreKept
  BY <1>1, SameEntryIsKept DEF PeersAreKept
<1> QED BY <1>2, <1>4, <1>5, <1>6

\* Off closes the entries and leaves the rows, which nobody looks at, behind.
LEMMA StopLanMeshIsFine ==
  ASSUME TypeOK, MeshInvariant, StopLanMesh
  PROVE  MeshInvariant' /\ PeersAreKept
<1> USE DEF MeshInvariant
<1>1. /\ pc = "offMedia" /\ pc' = "offMesh"
      /\ out' = [p \in Peers |-> IF HasEntry(p) THEN Shut(Shut(out[p])) ELSE NoEntry]
      /\ aborted' = aborted \cup UNION {HeldTasks(p) : p \in Peers}
      /\ tasks' \subseteq tasks
      /\ UNCHANGED <<lan, origins, dials, registry, rows, opq>>
  BY DEF StopLanMesh, Abandon
<1>2. EntriesAgree' /\ conns' = {} /\ \A t \in tasks' : t.kind = "watch"
  BY MeshStopAgrees
<1>3. \A p \in Peers : registry[p] = NoRecord
  BY <1>1 DEF RowsFollow, KnownFits, Known, OffIsPrepared
<1>4. RowsFollow'
  BY <1>1, <1>3 DEF RowsFollow, KnownFits, Known
<1>5. ASSUME ~origins
      PROVE  /\ tasks' = {} /\ aborted' = {} /\ opq' = <<>>
             /\ \A p \in Peers : out'[p] = NoEntry /\ rows'[p] = NoRow
  <2>1. /\ tasks = {} /\ aborted = {} /\ opq = <<>>
        /\ \A p \in Peers : out[p] = NoEntry /\ rows[p] = NoRow
    BY <1>5 DEF OffIsPrepared, OffIsQuiet, HasEntry, HasRow
  <2>2. \A p \in Peers : HeldTasks(p) = {}
    BY <2>1 DEF HeldTasks
  <2> QED BY <1>1, <2>1, <2>2 DEF HasEntry
<1>6. OffIsPrepared'
  BY <1>1, <1>2, <1>5 DEF OffIsPrepared, OffIsQuiet, HasEntry, HasRow
<1>7. ASSUME NEW p \in Peers PROVE SessionIsKept(p) /\ DeadlineIsKept(p)
  <2>1. out'[p] # NoEntry => out'[p].attempt = NoAttempt
    BY <1>1 DEF Shut, IdleEntry
  <2> QED BY <1>1, <2>1 DEF SessionIsKept, DeadlineIsKept
<1> QED BY <1>2, <1>4, <1>6, <1>7 DEF PeersAreKept

\* What Off drains was all that was left.
LEMMA StopLanDrainIsFine ==
  ASSUME TypeOK, MeshInvariant, StopLanDrain
  PROVE  MeshInvariant' /\ PeersAreKept
<1> USE DEF MeshInvariant
<1>1. /\ pc = "offMesh" /\ pc' = "select" /\ ~origins' /\ aborted' = {} /\ opq' = <<>>
      /\ tasks' = {t \in tasks : t.kind # "watch"} /\ conns' \subseteq conns
      /\ out' = [p \in Peers |-> NoEntry] /\ rows' = [p \in Peers |-> NoRow]
      /\ UNCHANGED <<lan, dials, registry>>
  BY DEF StopLanDrain, ProducersJoined
<1>2. tasks' = {} /\ conns' = {} /\ ~lan
  BY <1>1 DEF OffIsPrepared
<1>3. \A p \in Peers : out'[p] = NoEntry /\ rows'[p] = NoRow /\ registry'[p] = NoRecord
  BY <1>1, <1>2 DEF RowsFollow, KnownFits, Known
<1>4. EntriesAgree'
  <2>1. Len(opq') = 0
    BY <1>1
  <2>2. ReportsMeetTheirEntry'
    BY <2>1 DEF ReportsMeetTheirEntry
  <2> QED BY <1>1, <1>2, <1>3, <2>2 DEF EntriesAgree, EntriesAreWhole, TasksMeetTheirEntry,
             ConnectionsMeetTheirEntry, HasEntry
<1>5. RowsFollow'
  BY <1>3 DEF RowsFollow, KnownFits, Known, RowFits
<1>6. OffIsPrepared'
  BY <1>1, <1>2, <1>3 DEF OffIsPrepared, OffIsQuiet, HasEntry, HasRow
<1>7. PeersAreKept
  BY <1>1, <1>3 DEF PeersAreKept, SessionIsKept, DeadlineIsKept
<1> QED BY <1>4, <1>5, <1>6, <1>7

\* A task, the network and the clock leave rows, registry and entries alone, but
\* for a deadline that passes.
LEMMA OutsideIsFine ==
  ASSUME TypeOK, MeshInvariant, EntriesAgree',
         UNCHANGED <<pc, lan, origins, dials, registry, rows>>,
         origins, tasks' \subseteq tasks, pc = "offMesh" => conns' \subseteq conns,
         \A p \in Peers : /\ HasEntry(p)' <=> HasEntry(p)
                          /\ HasEntry(p) => /\ out'[p].session = out[p].session
                                            /\ out'[p].pending = out[p].pending,
         \A p \in Peers : DeadlineIsKept(p)
  PROVE  MeshInvariant' /\ PeersAreKept
<1> USE DEF MeshInvariant
<1>1. RowsFollow'
  BY DEF RowsFollow, KnownFits, Known, HasRow, HasEntry, RowFits
<1>2. OffIsPrepared'
  BY DEF OffIsPrepared, OffIsQuiet
<1>3. PeersAreKept
  BY DEF PeersAreKept, SessionIsKept, SessionOf
<1> QED BY <1>1, <1>2, <1>3

\* Tasks that end or are aborted and connections that come and go.
LEMMA TasksAndNetworkAreFine ==
  ASSUME TypeOK, MeshInvariant,
         \/ \E t \in tasks \cup aborted : TaskFinishes(t)
         \/ \E t \in aborted : AbortTakesEffect(t)
         \/ \E c \in conns : Establish(c) \/ ConnectionEnds(c)
  PROVE  MeshInvariant' /\ PeersAreKept
<1> USE DEF MeshInvariant
<1>1. origins
  BY DEF OffIsPrepared, OffIsQuiet
<1>2. /\ UNCHANGED <<pc, lan, origins, dials, registry, rows, out>>
      /\ tasks' \subseteq tasks /\ conns' \subseteq conns
  BY DEF TaskFinishes, DialConnects, DialFails, BackoffEnds, WatcherReports, Finish,
     AbortTakesEffect, Establish, ConnectionEnds, Quiet
<1>3. EntriesAgree'
  <2>1. CASE \E t \in tasks \cup aborted : TaskFinishes(t)
    BY <2>1, FinishAgrees
  <2>2. CASE \E t \in aborted : AbortTakesEffect(t)
    BY <1>2, <2>2, KeptAgrees DEF AbortTakesEffect
  <2>3. CASE \E c \in conns : Establish(c) \/ ConnectionEnds(c)
    BY <1>2, <2>3, KeptAgrees DEF Establish, ConnectionEnds
  <2> QED BY <2>1, <2>2, <2>3
<1>4. \A p \in Peers : DeadlineIsKept(p) /\ (HasEntry(p)' <=> HasEntry(p))
  BY <1>2, SameEntryIsKept DEF HasEntry
<1> QED BY <1>1, <1>2, <1>3, <1>4, OutsideIsFine

\* A deadline passes within the attempt that began with it.
LEMMA DeadlinePassesIsFine ==
  ASSUME TypeOK, MeshInvariant, NEW p \in Peers, DeadlinePasses(p)
  PROVE  MeshInvariant' /\ PeersAreKept
<1> USE DEF MeshInvariant
<1>1. /\ HasEntry(p) /\ out[p].attempt # NoAttempt
      /\ out' = [out EXCEPT ![p].attempt.expired = TRUE]
      /\ UNCHANGED <<pc, lan, origins, dials, registry, rows, tasks, aborted, conns, up, opq>>
  BY DEF DeadlinePasses
<1>2. out[p] \in Entries /\ out[p].attempt \in Attempts
  <2>1. out[p] \in Entries
    BY <1>1, EntryIsThere
  <2> QED BY <1>1, <2>1 DEF Entries
<1>3. origins
  BY <1>1 DEF OffIsPrepared
<1>4. ASSUME NEW q \in Peers PROVE DeadlineIsKept(q)
  <2>1. CASE q = p
    <3>1. out'[p].attempt = [out[p].attempt EXCEPT !.expired = TRUE]
      BY <1>1, <1>2 DEF TypeOK, Entries
    <3>2. out'[p].attempt.born = out[p].attempt.born
      BY <1>2, <3>1 DEF Attempts
    <3> QED BY <2>1, <3>2 DEF DeadlineIsKept
  <2>2. CASE q # p
    BY <1>1, <2>2, SameEntryIsKept DEF TypeOK
  <2> QED BY <2>1, <2>2
<1> QED BY <1>1, <1>3, <1>4, DeadlineAgrees, OutsideIsFine

\* Every step keeps the invariant and the promises to each peer.
LEMMA MeshStep ==
  ASSUME TypeOK, MeshInvariant, [Next]_vars
  PROVE  MeshInvariant' /\ PeersAreKept
<1>1. CASE ServicesStarted
  BY <1>1, ServicesStartedIsFine
<1>2. CASE LanRestarts
  BY <1>2, LanRestartsIsFine
<1>3. CASE \E p \in Peers : \E r \in Records : OnFound(p, r)
  BY <1>3, OnFoundIsFine
<1>4. CASE \E p \in Peers : OnLost(p)
  BY <1>4, OnLostIsFine
<1>5. CASE \E p \in Peers : \E b \in BOOLEAN : OnScreenAnnouncement(p, b)
  BY <1>5, OnScreenAnnouncementIsFine
<1>6. CASE OnStaleReady
  BY <1>6, OnStaleReadyIsFine
<1>7. CASE OnReady
  BY <1>7, OnReadyIsFine
<1>8. CASE OnDialFailed
  BY <1>8, OnDialFailedIsFine
<1>9. CASE OnSessionClosed
  BY <1>9, OnSessionClosedIsFine
<1>10. CASE OnRetryOutbound
  BY <1>10, OnRetryOutboundIsFine
<1>11. CASE StopLan
  BY <1>11, StopLanIsFine
<1>12. CASE StopLanMesh
  BY <1>12, StopLanMeshIsFine
<1>13. CASE StopLanDrain
  BY <1>13, StopLanDrainIsFine
<1>14. CASE \/ \E t \in tasks \cup aborted : TaskFinishes(t)
            \/ \E t \in aborted : AbortTakesEffect(t)
            \/ \E c \in conns : Establish(c) \/ ConnectionEnds(c)
  BY <1>14, TasksAndNetworkAreFine
<1>15. CASE \E p \in Peers : DeadlinePasses(p)
  BY <1>15, DeadlinePassesIsFine
<1>16. CASE UNCHANGED vars
  <2>1. UNCHANGED <<pc, lan, origins, dials, registry, rows, out, tasks, aborted, conns, up, opq>>
    BY <1>16 DEF vars
  <2>2. EntriesAgree'
    BY <2>1, KeptAgrees DEF MeshInvariant
  <2>3. RowsFollow'
    BY <2>1 DEF MeshInvariant, RowsFollow, KnownFits, Known, HasRow, HasEntry
  <2>4. OffIsPrepared'
    BY <2>1 DEF MeshInvariant, OffIsPrepared, OffIsQuiet, HasRow, HasEntry
  <2>5. PeersAreKept
    BY <2>1, SameEntryIsKept DEF PeersAreKept
  <2> QED BY <2>2, <2>3, <2>4, <2>5 DEF MeshInvariant
<1> QED BY <1>1, <1>2, <1>3, <1>4, <1>5, <1>6, <1>7, <1>8, <1>9, <1>10, <1>11, <1>12, <1>13,
           <1>14, <1>15, <1>16
        DEF Next, Discovery, HandleOperation, Off, Tasks, Network

-----------------------------------------------------------------------------
(* The results.                                                            *)

\* Entries, their tasks, reports and connections agree, and the rows follow them,
\* for all peers, identities, retry limits and queue capacities.
THEOREM MeshInvariantHolds == Spec => []MeshInvariant
<1>1. Init => MeshInvariant
  <2> SUFFICES ASSUME Init PROVE MeshInvariant
    OBVIOUS
  <2>1. /\ \A p \in Peers : out[p] = NoEntry /\ rows[p] = NoRow /\ registry[p] = NoRecord
        /\ tasks = {} /\ aborted = {} /\ conns = {} /\ opq = <<>> /\ ~lan /\ ~origins
        /\ pc = "select"
    BY DEF Init
  <2>2. EntriesAgree
    <3>1. ReportsMeetTheirEntry
      BY <2>1 DEF ReportsMeetTheirEntry
    <3> QED BY <2>1, <3>1 DEF EntriesAgree, EntriesAreWhole, TasksMeetTheirEntry,
               ConnectionsMeetTheirEntry, HasEntry
  <2>3. RowsFollow /\ OffIsPrepared
    BY <2>1 DEF RowsFollow, RowFits, KnownFits, Known, OffIsPrepared, OffIsQuiet, HasEntry, HasRow
  <2> QED BY <2>2, <2>3 DEF MeshInvariant
<1>2. TypeOK /\ MeshInvariant /\ [Next]_vars => MeshInvariant'
  BY MeshStep
<1> QED BY <1>1, <1>2, MeshTypeCorrect, PTL DEF Spec

\* Every open connection is that of the session or the running dial of its peer,
\* and after Off nothing of the mesh is left that could act or report.
THEOREM MeshOwnedAndQuiet == Spec => []OwnedAndQuiet
<1>1. TypeOK /\ MeshInvariant => OwnedAndQuiet
  BY DEF MeshInvariant, EntriesAgree, ConnectionsMeetTheirEntry, OffIsPrepared,
     OwnedAndQuiet, ConnectionsAreOwned
<1> QED BY <1>1, MeshTypeCorrect, MeshInvariantHolds, PTL

\* A row shows Connected exactly while its peer has a session of ours.
THEOREM MeshRowShowsTheSession == Spec => []RowShowsTheSession
<1>1. MeshInvariant => RowShowsTheSession
  <2> SUFFICES ASSUME MeshInvariant, pc = "select", NEW p \in Peers
               PROVE  SessionOf(p) # 0 <=> HasRow(p) /\ rows[p].transport = "Connected"
                                                     /\ rows[p].role = "Outbound"
    BY DEF RowShowsTheSession
  <2>1. RowFits(rows[p], out[p])
    BY DEF MeshInvariant, RowsFollow
  <2> QED BY <2>1 DEF RowFits, SessionOf, HasEntry, HasRow
<1> QED BY <1>1, MeshInvariantHolds, PTL

\* A healthy session ends with Off, a replaced identity or a changed role only.
THEOREM MeshHealthySessionIsKept == Spec => HealthySessionIsKept
<1>1. TypeOK /\ MeshInvariant /\ [Next]_vars => [\A p \in Peers : SessionIsKept(p)]_vars
  BY MeshStep DEF PeersAreKept
<1> QED BY <1>1, MeshTypeCorrect, MeshInvariantHolds, PTL
        DEF Spec, HealthySessionIsKept, SessionIsKept

\* An attempt keeps its deadline however often its addresses are announced again.
THEOREM MeshDeadlineIsNotExtended == Spec => DeadlineIsNotExtended
<1>1. TypeOK /\ MeshInvariant /\ [Next]_vars => [\A p \in Peers : DeadlineIsKept(p)]_vars
  BY MeshStep DEF PeersAreKept
<1> QED BY <1>1, MeshTypeCorrect, MeshInvariantHolds, PTL
        DEF Spec, DeadlineIsNotExtended, DeadlineIsKept
=============================================================================
