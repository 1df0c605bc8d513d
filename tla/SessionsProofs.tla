---------------------------- MODULE SessionsProofs ----------------------------
(***************************************************************************)
(* Proofs about the sessions with other devices: those that come in on     *)
(* Linux and those of macOS, for all numbers of requests, peers,           *)
(* identities and capacities, and the composition of MCSessions, from them *)
(* and from those of WindowsSessionsProofs.                                *)
(***************************************************************************)
EXTENDS MCSessions, QueueLemmas, FiniteSetTheorems

-----------------------------------------------------------------------------
(* Linux: tasks and events.                                                *)

\* An accept task is known by its number.
LEMMA AcceptTasksAreNumbered ==
  ASSUME Linux!TypeOK, NEW t \in Linux!AllTasks, t.kind = "accept"
  PROVE  t = Linux!Task("accept", t.id) /\ t.id \in Linux!Ids
<1>1. t \in [kind : {"accept", "watch"}, id : Linux!Ids]
  BY DEF Linux!TypeOK, Linux!AllTasks
<1> QED BY <1>1 DEF Linux!Task

\* An aborted task is one that accepted.
LEMMA AbortedTasksAccept ==
  ASSUME Linux!TypeOK, NEW t \in aborted
  PROVE  t.kind = "accept"
  BY DEF Linux!TypeOK

\* The events of a queue that gave up its head: those of before but the head,
\* of which another may be left.
LEMMA QueuedWithoutHead ==
  ASSUME opq \in Seq(Linux!Events), opq # <<>>, opq' = Tail(opq)
  PROVE  /\ Linux!Queued \subseteq Linux!Queued' \cup {Head(opq)}
         /\ Linux!Queued' \subseteq Linux!Queued
         /\ Head(opq) \in Linux!Queued /\ Head(opq) \in Linux!Events /\ opq' \in Seq(Linux!Events)
<1>1. /\ Tail(opq) \in Seq(Linux!Events) /\ Len(opq) \in Nat /\ Len(Tail(opq)) = Len(opq) - 1
      /\ \A i \in 1 .. Len(Tail(opq)) : Tail(opq)[i] = opq[i + 1] /\ i + 1 \in 1 .. Len(opq)
      /\ Head(opq) = opq[1] /\ Head(opq) \in Linux!Events /\ 1 \in 1 .. Len(opq)
  BY TailShifts
<1>2. \A i \in 1 .. Len(opq) : i = 1 \/ (i - 1 \in 1 .. Len(Tail(opq)) /\ Tail(opq)[i - 1] = opq[i])
  BY TailKeepsTheRest
<1>3. Linux!Queued' = {Tail(opq)[k] : k \in 1 .. Len(Tail(opq))}
  BY DEF Linux!Queued
<1>4. Linux!Queued' \subseteq Linux!Queued
  BY <1>1, <1>3 DEF Linux!Queued
<1>5. \A i \in 1 .. Len(opq) : opq[i] \in Linux!Queued' \cup {Head(opq)}
  BY <1>1, <1>2, <1>3
<1>6. Linux!Queued \subseteq Linux!Queued' \cup {Head(opq)}
  BY <1>5 DEF Linux!Queued
<1> QED BY <1>1, <1>4, <1>6 DEF Linux!Queued

\* The events of a queue to which one was sent.
LEMMA QueuedWithNew ==
  ASSUME opq \in Seq(Linux!Events), NEW e \in Linux!Events, opq' = Append(opq, e)
  PROVE  Linux!Queued' = Linux!Queued \cup {e} /\ opq' \in Seq(Linux!Events)
<1>1. /\ Append(opq, e) \in Seq(Linux!Events) /\ Len(opq) \in Nat
      /\ Len(Append(opq, e)) = Len(opq) + 1
      /\ \A i \in 1 .. Len(opq) : Append(opq, e)[i] = opq[i] /\ i \in 1 .. Len(Append(opq, e))
      /\ Append(opq, e)[Len(opq) + 1] = e /\ Len(opq) + 1 \in 1 .. Len(Append(opq, e))
      /\ \A i \in 1 .. Len(Append(opq, e)) : i = Len(opq) + 1 \/ i \in 1 .. Len(opq)
  BY AppendAdds
<1>2. Linux!Queued' = {Append(opq, e)[k] : k \in 1 .. Len(Append(opq, e))}
  BY DEF Linux!Queued
<1>3. Linux!Queued' \subseteq Linux!Queued \cup {e}
  BY <1>1, <1>2 DEF Linux!Queued
<1>4. Linux!Queued \cup {e} \subseteq Linux!Queued'
  BY <1>1, <1>2 DEF Linux!Queued
<1> QED BY <1>1, <1>3, <1>4

\* Every event in the queue is one.
LEMMA QueuedAreEvents ==
  ASSUME opq \in Seq(Linux!Events)
  PROVE  Linux!Queued \subseteq Linux!Events /\ (Linux!Queued = {} <=> opq = <<>>)
<1>1. Len(opq) \in Nat /\ \A i \in 1 .. Len(opq) : opq[i] \in Linux!Events
  BY PlacesAreTyped
<1>2. Linux!Queued \subseteq Linux!Events
  BY <1>1 DEF Linux!Queued
<1>3. CASE opq = <<>>
  BY <1>2, <1>3 DEF Linux!Queued
<1>4. CASE opq # <<>>
  <2>1. 1 \in 1 .. Len(opq)
    BY <1>4
  <2>2. opq[1] \in Linux!Queued
    BY <2>1 DEF Linux!Queued
  <2> QED BY <1>2, <1>4, <2>2
<1> QED BY <1>3, <1>4

\* The number of elements means the same in InboundSessions as here.
LEMMA SameCardinality == \A S : Linux!Cardinality(S) = Cardinality(S)
  BY DEF Linux!Cardinality, Cardinality

\* A number of entries fits its type.
LEMMA EntriesAreCounted ==
  ASSUME Linux!InboundAssumption, NEW S \in SUBSET Linux!Ids
  PROVE  Cardinality(S) \in 0 .. MaxInbound /\ Cardinality({}) = 0
<1>1. MaxInbound \in Nat
  BY DEF Linux!InboundAssumption
<1>2. IsFiniteSet(Linux!Ids) /\ Cardinality(Linux!Ids) = MaxInbound
  BY <1>1, FS_Interval DEF Linux!Ids
<1>3. IsFiniteSet(S) /\ Cardinality(S) \in Nat /\ Cardinality(S) <= MaxInbound
  BY <1>1, <1>2, FS_Subset, FS_CardinalityType
<1> QED BY <1>1, <1>3, FS_EmptySet

\* Who owns a session, said of each.
Owner(i, c, q) == i \in c \/ \E o \in q : o.type = "SessionReady" /\ o.ok /\ o.id = i

\* The two ways to say it agree.
LEMMA OwnedOneByOne ==
  /\ Linux!SessionsAreOwned <=> \A i \in conns : Owner(i, connected, Linux!Queued)
  /\ Linux!SessionsAreOwned' <=> \A i \in conns' : Owner(i, connected', Linux!Queued')
<1>1. Linux!SessionsAreOwned <=> \A i \in conns : Owner(i, connected, Linux!Queued)
  BY Zenon DEF Linux!SessionsAreOwned, Owner
<1>2. Linux!SessionsAreOwned' <=> \A i \in conns' : Owner(i, connected', Linux!Queued')
  BY Zenon DEF Linux!SessionsAreOwned, Owner
<1> QED BY <1>1, <1>2

\* The invariant without the types, part by part.
LEMMA InboundParts ==
  Linux!InboundInvariant <=>
    /\ Linux!TypeOK /\ Linux!InboundNeedsListener /\ Linux!SessionsAreOwned /\ Linux!OffIsQuiet
    /\ Linux!CountIsTrue /\ Linux!AcceptComesFirst /\ Linux!ClosedIsClosed /\ Linux!LoopHolds
  BY DEF Linux!InboundInvariant, Linux!OwnedAndQuiet

-----------------------------------------------------------------------------
(* Linux: the invariant, action by action.                                 *)

\* A request gets the next number, of which nothing was heard before.
LEMMA AcceptKeeps ==
  ASSUME Linux!InboundAssumption, Linux!InboundInvariant, Linux!AcceptInbound
  PROVE  Linux!InboundInvariant'
<1>0. /\ Linux!TypeOK /\ Linux!InboundNeedsListener /\ Linux!SessionsAreOwned /\ Linux!OffIsQuiet
      /\ Linux!CountIsTrue /\ Linux!AcceptComesFirst /\ Linux!ClosedIsClosed /\ Linux!LoopHolds
  BY InboundParts
<1>1. /\ pc = "select" /\ listening /\ nextId < MaxInbound /\ nextId' = nextId + 1
      /\ accepting' = accepting \cup {nextId + 1}
      /\ tasks' = tasks \cup {Linux!Task("accept", nextId + 1)}
      /\ UNCHANGED <<pc, listening, origins, connected, viewers, aborted, conns, opq>>
  BY DEF Linux!AcceptInbound
<1>2. nextId \in Nat /\ nextId + 1 \in Linux!Ids /\ nextId + 1 \in 0 .. MaxInbound
  BY <1>0, <1>1 DEF Linux!TypeOK, Linux!Ids, Linux!InboundAssumption
<1>3. UNCHANGED Linux!Queued
  BY <1>1 DEF Linux!Queued
<1>4. Linux!TypeOK'
  <2>1. Linux!Task("accept", nextId + 1) \in [kind : {"accept", "watch"}, id : Linux!Ids]
    BY <1>2 DEF Linux!Task
  <2> QED BY <1>0, <1>1, <1>2, <2>1 DEF Linux!TypeOK
<1>5. Linux!InboundNeedsListener' /\ Linux!CountIsTrue' /\ Linux!LoopHolds'
  BY <1>0, <1>1 DEF Linux!InboundNeedsListener, Linux!CountIsTrue, Linux!LoopHolds
<1>6. Linux!SessionsAreOwned'
  BY <1>0, <1>1, <1>3, OwnedOneByOne
<1>7. Linux!OffIsQuiet'
  BY <1>0, <1>1 DEF Linux!OffIsQuiet, Linux!LoopHolds
<1>8. Linux!AcceptComesFirst'
  <2>1. /\ Linux!Task("accept", nextId + 1).id = nextId + 1
        /\ Linux!Task("accept", nextId + 1).kind = "accept"
        /\ \A i : Linux!Task("accept", i).id = i
    BY DEF Linux!Task
  <2>2. Linux!AllTasks' = Linux!AllTasks \cup {Linux!Task("accept", nextId + 1)}
    BY <1>1 DEF Linux!AllTasks
  <2>3. Linux!Queued \subseteq Linux!Events /\ \A o \in Linux!Queued : o.id \in Nat
    BY <1>0, QueuedAreEvents DEF Linux!TypeOK, Linux!Events, Linux!Ids
  <2>4. \A t \in Linux!AllTasks : t.id \in Nat
    BY <1>0 DEF Linux!TypeOK, Linux!AllTasks, Linux!Ids
  <2>5. \A t \in Linux!AllTasks' : t.id <= nextId'
    BY <1>0, <1>1, <1>2, <2>1, <2>2, <2>4 DEF Linux!AcceptComesFirst
  <2>6. \A o \in Linux!Queued' : o.id <= nextId' /\ Linux!Task("accept", o.id) \notin Linux!AllTasks'
    BY <1>0, <1>1, <1>2, <1>3, <2>1, <2>2, <2>3 DEF Linux!AcceptComesFirst
  <2>7. \A t \in tasks' : t.kind = "watch" => Linux!Task("accept", t.id) \notin Linux!AllTasks'
    BY <1>0, <1>1, <1>2, <2>1, <2>2, <2>4 DEF Linux!AcceptComesFirst, Linux!AllTasks
  <2>8. \A t \in tasks' : t.kind = "accept" => t.id \in accepting'
    BY <1>0, <1>1, <2>1 DEF Linux!AcceptComesFirst
  <2> QED BY <2>5, <2>6, <2>7, <2>8 DEF Linux!AcceptComesFirst
<1>9. Linux!ClosedIsClosed'
  BY <1>0, <1>1, <1>3 DEF Linux!ClosedIsClosed
<1> QED BY <1>4, <1>5, <1>6, <1>7, <1>8, <1>9 DEF Linux!InboundInvariant, Linux!OwnedAndQuiet

\* Aborting the accepts moves their tasks, all of them, and adds none.
LEMMA AbortMovesTasks ==
  ASSUME Linux!InboundInvariant, Linux!AbortAccepting
  PROVE  /\ Linux!AllTasks' = Linux!AllTasks /\ tasks' \subseteq tasks
         /\ aborted' \in SUBSET [kind : {"accept"}, id : Linux!Ids]
         /\ \A t \in tasks' : t.kind = "watch"
<1>0. Linux!TypeOK /\ Linux!AcceptComesFirst
  BY InboundParts
<1> DEFINE gone == {t \in tasks : t.kind = "accept" /\ t.id \in accepting}
<1>1. aborted' = aborted \cup gone /\ tasks' = tasks \ gone
  BY DEF Linux!AbortAccepting
<1>2. gone \subseteq [kind : {"accept"}, id : Linux!Ids]
  BY <1>0 DEF Linux!TypeOK
<1>3. \A t \in tasks : t.kind \in {"accept", "watch"}
  BY <1>0 DEF Linux!TypeOK
<1>4. \A t \in tasks' : t.kind = "watch"
  BY <1>0, <1>1, <1>3 DEF Linux!AcceptComesFirst
<1>5. Linux!AllTasks' = Linux!AllTasks /\ tasks' \subseteq tasks
  BY <1>1 DEF Linux!AllTasks
<1>6. aborted' \in SUBSET [kind : {"accept"}, id : Linux!Ids]
  BY <1>0, <1>1, <1>2 DEF Linux!TypeOK
<1> QED BY <1>4, <1>5, <1>6

\* A restart closes what came in and leaves nothing to be accepted.
LEMMA RestartKeeps ==
  ASSUME Linux!InboundAssumption, Linux!InboundInvariant, Linux!LanRestarts
  PROVE  Linux!InboundInvariant'
<1>0. /\ Linux!TypeOK /\ Linux!InboundNeedsListener /\ Linux!SessionsAreOwned /\ Linux!OffIsQuiet
      /\ Linux!CountIsTrue /\ Linux!AcceptComesFirst /\ Linux!ClosedIsClosed /\ Linux!LoopHolds
  BY InboundParts
<1>1. /\ pc = "select" /\ Linux!AbortAccepting /\ accepting' = {} /\ conns' = conns \ connected
      /\ connected' = {} /\ viewers' = 0 /\ listening' = FALSE /\ origins' = TRUE
      /\ UNCHANGED <<pc, nextId, opq>>
  BY DEF Linux!LanRestarts, Linux!CloseInbound, Linux!AbortAccepting
<1>2. /\ Linux!AllTasks' = Linux!AllTasks /\ tasks' \subseteq tasks
      /\ aborted' \in SUBSET [kind : {"accept"}, id : Linux!Ids]
      /\ \A t \in tasks' : t.kind = "watch"
  BY <1>1, AbortMovesTasks
<1>3. UNCHANGED Linux!Queued /\ Cardinality({}) = 0 /\ 0 \in 0 .. MaxInbound
  BY <1>1, EntriesAreCounted DEF Linux!Queued, Linux!InboundAssumption
<1>4. Linux!TypeOK'
  BY <1>0, <1>1, <1>2, <1>3 DEF Linux!TypeOK
<1>5. Linux!InboundNeedsListener' /\ Linux!CountIsTrue' /\ Linux!LoopHolds' /\ Linux!OffIsQuiet'
  BY <1>1, <1>3, SameCardinality DEF Linux!InboundNeedsListener, Linux!CountIsTrue,
     Linux!LoopHolds, Linux!OffIsQuiet, Linux!Entries
<1>6. Linux!SessionsAreOwned'
  BY <1>0, <1>1, <1>3, OwnedOneByOne, Zenon DEF Owner
<1>7. Linux!AcceptComesFirst'
  BY <1>0, <1>1, <1>2, <1>3 DEF Linux!AcceptComesFirst
<1>8. Linux!ClosedIsClosed'
  BY <1>0, <1>1, <1>3 DEF Linux!ClosedIsClosed
<1> QED BY <1>4, <1>5, <1>6, <1>7, <1>8 DEF Linux!InboundInvariant, Linux!OwnedAndQuiet

\* Services come up, or Off begins: only the listener changes, and the loop.
LEMMA ListenerKeeps ==
  ASSUME Linux!InboundInvariant, Linux!ServicesStarted \/ Linux!StopLan
  PROVE  Linux!InboundInvariant'
<1>0. /\ Linux!TypeOK /\ Linux!InboundNeedsListener /\ Linux!SessionsAreOwned /\ Linux!OffIsQuiet
      /\ Linux!CountIsTrue /\ Linux!AcceptComesFirst /\ Linux!ClosedIsClosed /\ Linux!LoopHolds
  BY InboundParts
<1>1. /\ pc = "select"
      /\ UNCHANGED <<origins, nextId, accepting, connected, viewers, tasks, aborted, conns, opq>>
      /\ \/ pc' = "select" /\ origins /\ listening' = TRUE
         \/ pc' = "offMedia" /\ listening' = FALSE
  BY DEF Linux!ServicesStarted, Linux!StopLan
<1>2. UNCHANGED Linux!Queued
  BY <1>1 DEF Linux!Queued
<1>3. Linux!TypeOK'
  BY <1>0, <1>1 DEF Linux!TypeOK
<1>4. Linux!InboundNeedsListener' /\ Linux!CountIsTrue' /\ Linux!LoopHolds' /\ Linux!OffIsQuiet'
  BY <1>0, <1>1 DEF Linux!InboundNeedsListener, Linux!CountIsTrue, Linux!LoopHolds,
     Linux!OffIsQuiet, Linux!Entries
<1>5. Linux!SessionsAreOwned'
  BY <1>0, <1>1, <1>2, OwnedOneByOne
<1>6. Linux!AcceptComesFirst' /\ Linux!ClosedIsClosed'
  BY <1>0, <1>1, <1>2 DEF Linux!AcceptComesFirst, Linux!ClosedIsClosed, Linux!AllTasks
<1> QED BY <1>3, <1>4, <1>5, <1>6 DEF Linux!InboundInvariant, Linux!OwnedAndQuiet

\* A connection is ready.  One without an entry is late and closed; of the other
\* the entry is the owner, as the event was before.
LEMMA ReadyKeeps ==
  ASSUME Linux!InboundAssumption, Linux!InboundInvariant, Linux!OnReady
  PROVE  Linux!InboundInvariant'
<1>0. /\ Linux!TypeOK /\ Linux!InboundNeedsListener /\ Linux!SessionsAreOwned /\ Linux!OffIsQuiet
      /\ Linux!CountIsTrue /\ Linux!AcceptComesFirst /\ Linux!ClosedIsClosed /\ Linux!LoopHolds
  BY InboundParts
<1> DEFINE h == Head(opq)
           i == h.id
<1>1. /\ pc = "select" /\ opq # <<>> /\ opq' = Tail(opq) /\ h.type = "SessionReady"
      /\ UNCHANGED <<pc, listening, origins, nextId, aborted>>
  BY DEF Linux!OnReady, Linux!Receive
<1>2. /\ Linux!Queued \subseteq Linux!Queued' \cup {h} /\ Linux!Queued' \subseteq Linux!Queued
      /\ h \in Linux!Queued /\ h \in Linux!Events /\ opq' \in Seq(Linux!Events)
  BY <1>0, <1>1, QueuedWithoutHead DEF Linux!TypeOK
<1>3. CASE i \notin Linux!Entries
  <2>1. conns' = conns \ {i} /\ UNCHANGED <<accepting, connected, viewers, tasks>>
    BY <1>3 DEF Linux!OnReady, Linux!IsEntry, Linux!LateClosed
  <2>2. Linux!TypeOK'
    BY <1>0, <1>1, <1>2, <2>1 DEF Linux!TypeOK
  <2>3. Linux!InboundNeedsListener' /\ Linux!CountIsTrue' /\ Linux!LoopHolds'
    BY <1>0, <1>1, <2>1 DEF Linux!InboundNeedsListener, Linux!CountIsTrue, Linux!LoopHolds,
       Linux!Entries
  <2>4. Linux!OffIsQuiet'
    BY <1>0, <1>1 DEF Linux!OffIsQuiet
  <2>5. Linux!SessionsAreOwned'
    <3>1. ASSUME NEW j \in conns' PROVE Owner(j, connected', Linux!Queued')
      <4>1. j # i /\ Owner(j, connected, Linux!Queued)
        BY <1>0, <2>1, <3>1, OwnedOneByOne
      <4>2. CASE j \in connected
        BY <2>1, <4>2 DEF Owner
      <4>3. ASSUME NEW o \in Linux!Queued, o.type = "SessionReady", o.ok, o.id = j
            PROVE  Owner(j, connected', Linux!Queued')
        <5>1. o \in Linux!Queued'
          BY <1>2, <4>1, <4>3
        <5> QED BY <4>3, <5>1, Zenon DEF Owner
      <4> QED BY <4>1, <4>2, <4>3, Zenon DEF Owner
    <3> QED BY <3>1, OwnedOneByOne
  <2>6. Linux!AcceptComesFirst' /\ Linux!ClosedIsClosed'
    BY <1>0, <1>1, <1>2, <2>1 DEF Linux!AcceptComesFirst, Linux!ClosedIsClosed, Linux!AllTasks
  <2> QED BY <2>2, <2>3, <2>4, <2>5, <2>6 DEF Linux!InboundInvariant, Linux!OwnedAndQuiet
<1>4. CASE i \in Linux!Entries
  <2>1. /\ accepting' = accepting \ {i} /\ conns' = conns
        /\ connected' \in {connected, connected \cup {i}}
        /\ tasks' \in {tasks, tasks \cup {Linux!Task("watch", i)}}
        /\ viewers' = Cardinality(connected')
    BY <1>4, SameCardinality DEF Linux!OnReady, Linux!IsEntry, Linux!CountConnected
  <2>2. h.ok => i \in connected'
    BY <1>4 DEF Linux!OnReady, Linux!IsEntry
  <2>3. i \in Linux!Ids /\ i \in accepting \cup connected /\ i # 0
    BY <1>2, <1>4 DEF Linux!Entries, Linux!Events, Linux!Ids
  <2>4. listening /\ origins
    BY <1>0, <1>1, <1>4 DEF Linux!InboundNeedsListener, Linux!LoopHolds
  <2>5. connected' \in SUBSET Linux!Ids /\ accepting' \in SUBSET Linux!Ids
    BY <1>0, <2>1, <2>3 DEF Linux!TypeOK
  <2>6. Linux!TypeOK'
    <3>1. viewers' \in 0 .. MaxInbound
      BY <2>1, <2>5, EntriesAreCounted
    <3>2. Linux!Task("watch", i) \in [kind : {"accept", "watch"}, id : Linux!Ids]
      BY <2>3 DEF Linux!Task
    <3>3. tasks' \in SUBSET [kind : {"accept", "watch"}, id : Linux!Ids]
      BY <1>0, <2>1, <3>2 DEF Linux!TypeOK
    <3> QED BY <1>0, <1>1, <1>2, <2>1, <2>5, <3>1, <3>3 DEF Linux!TypeOK
  <2>7. Linux!InboundNeedsListener' /\ Linux!CountIsTrue' /\ Linux!LoopHolds' /\ Linux!OffIsQuiet'
    BY <1>1, <2>1, <2>4, SameCardinality DEF Linux!InboundNeedsListener, Linux!CountIsTrue,
       Linux!LoopHolds, Linux!OffIsQuiet
  <2>8. Linux!SessionsAreOwned'
    <3>1. ASSUME NEW j \in conns' PROVE Owner(j, connected', Linux!Queued')
      <4>1. Owner(j, connected, Linux!Queued)
        BY <1>0, <2>1, <3>1, OwnedOneByOne
      <4>2. CASE j \in connected
        BY <2>1, <4>2 DEF Owner
      <4>3. ASSUME NEW o \in Linux!Queued, o.type = "SessionReady", o.ok, o.id = j
            PROVE  Owner(j, connected', Linux!Queued')
        <5>1. CASE o = h
          <6>1. j \in connected'
            BY <2>2, <4>3, <5>1, Zenon
          <6> QED BY <6>1 DEF Owner
        <5>2. CASE o \in Linux!Queued'
          BY <4>3, <5>2, Zenon DEF Owner
        <5> QED BY <1>2, <5>1, <5>2
      <4> QED BY <4>1, <4>2, <4>3, Zenon DEF Owner
    <3> QED BY <3>1, OwnedOneByOne
  \* The accept task of this number is over, and the watcher is another.
  <2>9. Linux!AcceptComesFirst'
    <3>1. /\ Linux!Task("watch", i).id = i /\ Linux!Task("watch", i).kind = "watch"
          /\ \A k : Linux!Task("accept", k) # Linux!Task("watch", i)
      BY DEF Linux!Task
    <3>2. i <= nextId /\ Linux!Task("accept", i) \notin Linux!AllTasks
      BY <1>0, <1>2 DEF Linux!AcceptComesFirst
    <3>3. Linux!AllTasks' \subseteq Linux!AllTasks \cup {Linux!Task("watch", i)}
      BY <1>1, <2>1 DEF Linux!AllTasks
    <3>4. \A t \in Linux!AllTasks' : t.id <= nextId'
      BY <1>0, <1>1, <3>1, <3>2, <3>3 DEF Linux!AcceptComesFirst
    <3>5. \A k : Linux!Task("accept", k) \notin Linux!AllTasks => Linux!Task("accept", k) \notin Linux!AllTasks'
      BY <3>1, <3>3
    <3>6. \A o \in Linux!Queued' : o.id <= nextId' /\ Linux!Task("accept", o.id) \notin Linux!AllTasks'
      BY <1>0, <1>1, <1>2, <3>5 DEF Linux!AcceptComesFirst
    <3>7. \A t \in tasks' : t.kind = "watch" => Linux!Task("accept", t.id) \notin Linux!AllTasks'
      BY <1>0, <2>1, <3>1, <3>2, <3>5 DEF Linux!AcceptComesFirst
    <3>8. ASSUME NEW t \in tasks', t.kind = "accept" PROVE t.id \in accepting'
      <4>1. t \in tasks /\ t \in Linux!AllTasks
        BY <2>1, <3>1, <3>8 DEF Linux!AllTasks
      <4>2. t = Linux!Task("accept", t.id)
        BY <1>0, <3>8, <4>1, AcceptTasksAreNumbered
      <4>3. t.id # i
        BY <3>2, <4>1, <4>2
      <4> QED BY <1>0, <2>1, <3>8, <4>1, <4>3 DEF Linux!AcceptComesFirst
    <3> QED BY <3>4, <3>6, <3>7, <3>8 DEF Linux!AcceptComesFirst
  <2>10. Linux!ClosedIsClosed'
    BY <1>0, <1>2, <2>1 DEF Linux!ClosedIsClosed
  <2> QED BY <2>6, <2>7, <2>8, <2>9, <2>10 DEF Linux!InboundInvariant, Linux!OwnedAndQuiet
<1> QED BY <1>3, <1>4

\* A session was closed: its entry goes, which owned nothing any more.
LEMMA ClosedKeeps ==
  ASSUME Linux!InboundAssumption, Linux!InboundInvariant, Linux!OnClosed
  PROVE  Linux!InboundInvariant'
<1>0. /\ Linux!TypeOK /\ Linux!InboundNeedsListener /\ Linux!SessionsAreOwned /\ Linux!OffIsQuiet
      /\ Linux!CountIsTrue /\ Linux!AcceptComesFirst /\ Linux!ClosedIsClosed /\ Linux!LoopHolds
  BY InboundParts
<1> DEFINE h == Head(opq)
           i == h.id
<1>1. /\ pc = "select" /\ opq # <<>> /\ opq' = Tail(opq) /\ h.type = "SessionClosed"
      /\ UNCHANGED <<pc, listening, origins, nextId, aborted, accepting, tasks, conns>>
  BY DEF Linux!OnClosed, Linux!Receive
<1>2. /\ Linux!Queued \subseteq Linux!Queued' \cup {h} /\ Linux!Queued' \subseteq Linux!Queued /\ h \in Linux!Queued
      /\ opq' \in Seq(Linux!Events)
  BY <1>0, <1>1, QueuedWithoutHead DEF Linux!TypeOK
<1>3. \/ UNCHANGED <<connected, viewers>>
      \/ connected' = connected \ {i} /\ viewers' = Cardinality(connected')
  BY SameCardinality DEF Linux!OnClosed, Linux!CountConnected
<1>4. i \notin conns
  BY <1>0, <1>1, <1>2 DEF Linux!ClosedIsClosed
<1>5. Linux!TypeOK'
  <2>1. connected' \in SUBSET Linux!Ids
    BY <1>0, <1>3 DEF Linux!TypeOK
  <2>2. viewers' \in 0 .. MaxInbound
    BY <1>0, <1>3, <2>1, EntriesAreCounted DEF Linux!TypeOK
  <2> QED BY <1>0, <1>1, <1>2, <2>1, <2>2 DEF Linux!TypeOK
<1>6. Linux!InboundNeedsListener' /\ Linux!LoopHolds'
  BY <1>0, <1>1, <1>3 DEF Linux!InboundNeedsListener, Linux!LoopHolds, Linux!Entries
<1>7. Linux!CountIsTrue' /\ Linux!OffIsQuiet'
  BY <1>0, <1>1, <1>3, SameCardinality DEF Linux!CountIsTrue, Linux!OffIsQuiet
<1>8. Linux!SessionsAreOwned'
  <2>1. ASSUME NEW j \in conns' PROVE Owner(j, connected', Linux!Queued')
    <3>1. j # i /\ Owner(j, connected, Linux!Queued)
      BY <1>0, <1>1, <1>4, <2>1, OwnedOneByOne
    <3>2. CASE j \in connected
      BY <1>3, <3>1, <3>2 DEF Owner
    <3>3. ASSUME NEW o \in Linux!Queued, o.type = "SessionReady", o.ok, o.id = j
          PROVE  Owner(j, connected', Linux!Queued')
      <4>1. o \in Linux!Queued'
        BY <1>1, <1>2, <3>3
      <4> QED BY <3>3, <4>1, Zenon DEF Owner
    <3> QED BY <3>1, <3>2, <3>3, Zenon DEF Owner
  <2> QED BY <2>1, OwnedOneByOne
<1>9. Linux!AcceptComesFirst' /\ Linux!ClosedIsClosed'
  BY <1>0, <1>1, <1>2 DEF Linux!AcceptComesFirst, Linux!ClosedIsClosed, Linux!AllTasks
<1> QED BY <1>5, <1>6, <1>7, <1>8, <1>9 DEF Linux!InboundInvariant, Linux!OwnedAndQuiet

\* Off aborts the accepts and closes what is connected.
LEMMA OffMeshKeeps ==
  ASSUME Linux!InboundInvariant, Linux!StopLanMesh
  PROVE  Linux!InboundInvariant'
<1>0. /\ Linux!TypeOK /\ Linux!InboundNeedsListener /\ Linux!SessionsAreOwned /\ Linux!OffIsQuiet
      /\ Linux!AcceptComesFirst /\ Linux!ClosedIsClosed /\ Linux!LoopHolds
  BY InboundParts
<1>1. /\ pc = "offMedia" /\ pc' = "offMesh" /\ Linux!AbortAccepting /\ accepting' = {}
      /\ conns' = conns \ connected /\ connected' = {}
      /\ UNCHANGED <<listening, origins, nextId, viewers, opq>>
  BY DEF Linux!StopLanMesh, Linux!AbortAccepting
<1>2. /\ Linux!AllTasks' = Linux!AllTasks /\ tasks' \subseteq tasks
      /\ aborted' \in SUBSET [kind : {"accept"}, id : Linux!Ids]
      /\ \A t \in tasks' : t.kind = "watch"
  BY <1>1, AbortMovesTasks
<1>3. UNCHANGED Linux!Queued
  BY <1>1 DEF Linux!Queued
<1>4. Linux!TypeOK'
  BY <1>0, <1>1, <1>2 DEF Linux!TypeOK
<1>5. Linux!InboundNeedsListener' /\ Linux!CountIsTrue' /\ Linux!LoopHolds'
  BY <1>0, <1>1 DEF Linux!InboundNeedsListener, Linux!CountIsTrue, Linux!LoopHolds,
     Linux!Entries
<1>6. Linux!OffIsQuiet'
  BY <1>0, <1>1, <1>2 DEF Linux!OffIsQuiet, Linux!AllTasks
<1>7. Linux!SessionsAreOwned'
  BY <1>0, <1>1, <1>3, OwnedOneByOne, Zenon DEF Owner
<1>8. Linux!AcceptComesFirst' /\ Linux!ClosedIsClosed'
  BY <1>0, <1>1, <1>2, <1>3 DEF Linux!AcceptComesFirst, Linux!ClosedIsClosed
<1> QED BY <1>4, <1>5, <1>6, <1>7, <1>8 DEF Linux!InboundInvariant, Linux!OwnedAndQuiet

\* Off ends: every producer was joined, what is open is in the queue, and the
\* queue is drained.
LEMMA OffDrainKeeps ==
  ASSUME Linux!InboundAssumption, Linux!InboundInvariant, Linux!StopLanDrain
  PROVE  Linux!InboundInvariant'
<1>0. /\ Linux!TypeOK /\ Linux!SessionsAreOwned /\ Linux!AcceptComesFirst /\ Linux!LoopHolds
  BY InboundParts
<1>1. /\ pc = "offMesh" /\ pc' = "select" /\ aborted = {}
      /\ tasks' = {t \in tasks : t.kind # "watch"}
      /\ conns' = conns \ {e.id : e \in {o \in Linux!Queued : o.type = "SessionReady"}}
      /\ opq' = <<>> /\ viewers' = 0 /\ origins' = FALSE
      /\ UNCHANGED <<listening, nextId, accepting, connected, aborted>>
  BY DEF Linux!StopLanDrain, Linux!ProducersJoined
<1>2. accepting = {} /\ connected = {} /\ ~listening
  BY <1>0, <1>1 DEF Linux!LoopHolds, Linux!Entries
<1>3. tasks' = {}
  <2>1. \A t \in tasks : t.kind \in {"accept", "watch"}
    BY <1>0 DEF Linux!TypeOK
  <2> QED BY <1>0, <1>1, <1>2, <2>1 DEF Linux!AcceptComesFirst
<1>4. conns' = {}
  <2>1. ASSUME NEW j \in conns PROVE j \in {e.id : e \in {o \in Linux!Queued : o.type = "SessionReady"}}
    <3>1. Owner(j, connected, Linux!Queued)
      BY <1>0, OwnedOneByOne
    <3>2. \E o \in Linux!Queued : o.type = "SessionReady" /\ o.id = j
      BY <1>2, <3>1, Zenon DEF Owner
    <3> QED BY <3>2
  <2> QED BY <1>1, <2>1
<1>5. Linux!Queued' = {} /\ Cardinality({}) = 0 /\ 0 \in 0 .. MaxInbound
  <2>1. Linux!Queued' = {}
    BY <1>1 DEF Linux!Queued
  <2>2. 0 \in 0 .. MaxInbound
    BY DEF Linux!InboundAssumption
  <2>3. Cardinality({}) = 0
    BY FS_EmptySet
  <2> QED BY <2>1, <2>2, <2>3
<1>6. Linux!TypeOK'
  <2>1. /\ pc' \in {"select", "offMedia", "offMesh"} /\ nextId' \in 0 .. MaxInbound
        /\ listening' \in BOOLEAN /\ origins' \in BOOLEAN /\ viewers' \in 0 .. MaxInbound
    BY <1>0, <1>1, <1>5 DEF Linux!TypeOK
  <2>2. accepting' = {} /\ connected' = {} /\ aborted' = {} /\ opq' \in Seq(Linux!Events)
    BY <1>1, <1>2
  <2> QED BY <1>3, <1>4, <2>1, <2>2 DEF Linux!TypeOK
<1>7. Linux!InboundNeedsListener' /\ Linux!CountIsTrue' /\ Linux!LoopHolds' /\ Linux!OffIsQuiet'
  BY <1>1, <1>2, <1>3, <1>4, <1>5, SameCardinality DEF Linux!InboundNeedsListener,
     Linux!CountIsTrue, Linux!LoopHolds, Linux!OffIsQuiet, Linux!Entries
<1>8. Linux!SessionsAreOwned'
  BY <1>4, OwnedOneByOne
<1>9. Linux!AcceptComesFirst' /\ Linux!ClosedIsClosed'
  BY <1>1, <1>3, <1>5 DEF Linux!AcceptComesFirst, Linux!ClosedIsClosed, Linux!AllTasks
<1> QED BY <1>6, <1>7, <1>8, <1>9 DEF Linux!InboundInvariant, Linux!OwnedAndQuiet

\* A task that puts its report in the queue is over.  What must be shown of the
\* report: it fits the sessions, and no accept task of its number remains.
LEMMA FinishKeeps ==
  ASSUME Linux!InboundInvariant,
         NEW t \in Linux!AllTasks, NEW e \in Linux!Events, Linux!Finish(t, e),
         e.id = t.id, Linux!Task("accept", e.id) \notin Linux!AllTasks \ {t},
         conns' \in SUBSET Linux!Ids,
         \A j \in conns' : j \in conns \/ Owner(j, {}, {e}),
         \A o \in Linux!Queued \cup {e} : o.type = "SessionClosed" => o.id \notin conns'
  PROVE  Linux!InboundInvariant'
<1>0. /\ Linux!TypeOK /\ Linux!InboundNeedsListener /\ Linux!SessionsAreOwned /\ Linux!OffIsQuiet
      /\ Linux!CountIsTrue /\ Linux!AcceptComesFirst /\ Linux!ClosedIsClosed /\ Linux!LoopHolds
  BY InboundParts
<1>1. /\ opq' = Append(opq, e) /\ tasks' = tasks \ {t} /\ aborted' = aborted \ {t}
      /\ UNCHANGED <<pc, listening, origins, nextId, accepting, connected, viewers>>
  BY DEF Linux!Finish
<1>2. Linux!Queued' = Linux!Queued \cup {e} /\ opq' \in Seq(Linux!Events)
  BY <1>0, <1>1, QueuedWithNew DEF Linux!TypeOK
<1>3. Linux!TypeOK'
  BY <1>0, <1>1, <1>2 DEF Linux!TypeOK
<1>4. Linux!InboundNeedsListener' /\ Linux!CountIsTrue' /\ Linux!LoopHolds'
  BY <1>0, <1>1 DEF Linux!InboundNeedsListener, Linux!CountIsTrue, Linux!LoopHolds,
     Linux!Entries
<1>5. Linux!OffIsQuiet'
  BY <1>0, <1>1 DEF Linux!OffIsQuiet, Linux!AllTasks
<1>6. Linux!SessionsAreOwned'
  <2>1. ASSUME NEW j \in conns' PROVE Owner(j, connected', Linux!Queued')
    <3>1. CASE j \in conns
      <4>1. Owner(j, connected, Linux!Queued)
        BY <1>0, <3>1, OwnedOneByOne
      <4> QED BY <1>1, <1>2, <4>1, Zenon DEF Owner
    <3>2. CASE Owner(j, {}, {e})
      BY <1>2, <3>2, Zenon DEF Owner
    <3> QED BY <2>1, <3>1, <3>2
  <2> QED BY <2>1, OwnedOneByOne
<1>7. Linux!AcceptComesFirst'
  <2>1. Linux!AllTasks' = Linux!AllTasks \ {t} /\ t.id <= nextId
    BY <1>0, <1>1 DEF Linux!AllTasks, Linux!AcceptComesFirst
  <2>2. \A o \in Linux!Queued' : o.id <= nextId' /\ Linux!Task("accept", o.id) \notin Linux!AllTasks'
    BY <1>0, <1>1, <1>2, <2>1 DEF Linux!AcceptComesFirst
  <2> QED BY <1>0, <1>1, <2>1, <2>2 DEF Linux!AcceptComesFirst
<1>8. Linux!ClosedIsClosed'
  BY <1>2 DEF Linux!ClosedIsClosed
<1> QED BY <1>3, <1>4, <1>5, <1>6, <1>7, <1>8 DEF Linux!InboundInvariant, Linux!OwnedAndQuiet

\* The accept task of a number ends with its result, and a watcher with the close
\* of its session.
LEMMA ReportsKeep ==
  ASSUME Linux!InboundInvariant, NEW t \in Linux!AllTasks,
         (\E ok \in BOOLEAN : Linux!AcceptFinishes(t, ok)) \/ Linux!WatcherReports(t)
  PROVE  Linux!InboundInvariant'
<1>0. Linux!TypeOK /\ Linux!AcceptComesFirst /\ Linux!ClosedIsClosed
  BY InboundParts
<1>1. t.id \in Linux!Ids /\ conns \in SUBSET Linux!Ids
  BY <1>0 DEF Linux!TypeOK, Linux!AllTasks
<1>2. ASSUME NEW ok \in BOOLEAN, Linux!AcceptFinishes(t, ok) PROVE Linux!InboundInvariant'
  <2> DEFINE e == Linux!Ready(t.id, ok)
  <2>1. t.kind = "accept" /\ Linux!Finish(t, e) /\ conns' = IF ok THEN conns \cup {t.id} ELSE conns
    BY <1>2 DEF Linux!AcceptFinishes
  <2>2. e \in Linux!Events /\ e.id = t.id /\ e.type = "SessionReady" /\ (ok => e.ok)
    BY <1>1 DEF Linux!Ready, Linux!Events
  <2> HIDE DEF e
  <2>3. t = Linux!Task("accept", t.id)
    BY <1>0, <2>1, AcceptTasksAreNumbered
  <2>4. Linux!Task("accept", e.id) \notin Linux!AllTasks \ {t}
    BY <2>2, <2>3
  <2>5. \A j \in conns' : j \in conns \/ Owner(j, {}, {e})
    BY <2>1, <2>2, Zenon DEF Owner
  <2>6. \A o \in Linux!Queued \cup {e} : o.type = "SessionClosed" => o.id \notin conns'
    BY <1>0, <2>1, <2>2, <2>3 DEF Linux!ClosedIsClosed, Linux!AcceptComesFirst
  <2>7. conns' \in SUBSET Linux!Ids
    BY <1>1, <2>1
  <2> QED BY <2>1, <2>2, <2>4, <2>5, <2>6, <2>7, FinishKeeps
<1>3. CASE Linux!WatcherReports(t)
  <2> DEFINE e == Linux!Closed(t.id)
  <2>1. t.kind = "watch" /\ t.id \notin conns /\ Linux!Finish(t, e) /\ conns' = conns
    BY <1>3 DEF Linux!WatcherReports
  <2>2. e \in Linux!Events /\ e.id = t.id
    BY <1>1 DEF Linux!Closed, Linux!Events
  <2> HIDE DEF e
  <2>3. t \in tasks
    BY <1>0, <2>1, AbortedTasksAccept DEF Linux!AllTasks
  <2>4. Linux!Task("accept", e.id) \notin Linux!AllTasks \ {t}
    BY <1>0, <2>1, <2>2, <2>3 DEF Linux!AcceptComesFirst
  <2>5. \A o \in Linux!Queued \cup {e} : o.type = "SessionClosed" => o.id \notin conns'
    BY <1>0, <2>1, <2>2 DEF Linux!ClosedIsClosed
  <2> QED BY <1>1, <2>1, <2>2, <2>4, <2>5, FinishKeeps
<1> QED BY <1>2, <1>3

\* An abort takes effect, or the other side closes a session.
LEMMA LossesKeep ==
  ASSUME Linux!InboundInvariant,
         (\E t \in aborted : Linux!AbortTakesEffect(t)) \/ (\E i \in conns : Linux!RemoteCloses(i))
  PROVE  Linux!InboundInvariant'
<1>0. /\ Linux!TypeOK /\ Linux!InboundNeedsListener /\ Linux!SessionsAreOwned /\ Linux!OffIsQuiet
      /\ Linux!CountIsTrue /\ Linux!AcceptComesFirst /\ Linux!ClosedIsClosed /\ Linux!LoopHolds
  BY InboundParts
<1>1. /\ aborted' \subseteq aborted /\ conns' \subseteq conns
      /\ UNCHANGED <<pc, listening, origins, nextId, accepting, connected, viewers, tasks, opq>>
  BY DEF Linux!AbortTakesEffect, Linux!RemoteCloses
<1>2. UNCHANGED Linux!Queued /\ Linux!AllTasks' \subseteq Linux!AllTasks
  BY <1>1 DEF Linux!Queued, Linux!AllTasks
<1>3. Linux!TypeOK'
  BY <1>0, <1>1 DEF Linux!TypeOK
<1>4. Linux!InboundNeedsListener' /\ Linux!CountIsTrue' /\ Linux!LoopHolds'
  BY <1>0, <1>1 DEF Linux!InboundNeedsListener, Linux!CountIsTrue, Linux!LoopHolds,
     Linux!Entries
<1>5. Linux!OffIsQuiet'
  BY <1>0, <1>1 DEF Linux!OffIsQuiet
<1>6. Linux!SessionsAreOwned'
  BY <1>0, <1>1, <1>2, OwnedOneByOne
<1>7. Linux!AcceptComesFirst' /\ Linux!ClosedIsClosed'
  BY <1>0, <1>1, <1>2 DEF Linux!AcceptComesFirst, Linux!ClosedIsClosed
<1> QED BY <1>3, <1>4, <1>5, <1>6, <1>7 DEF Linux!InboundInvariant, Linux!OwnedAndQuiet

-----------------------------------------------------------------------------
(* Linux: the theorems.                                                    *)

\* The invariant holds at the start.
LEMMA InboundInit ==
  ASSUME Linux!InboundAssumption, Linux!Init
  PROVE  Linux!InboundInvariant
<1>1. Linux!Queued = {} /\ Cardinality({}) = 0 /\ 0 \in 0 .. MaxInbound /\ 0 \in Nat
  <2>1. Linux!Queued = {}
    BY DEF Linux!Init, Linux!Queued
  <2>2. 0 \in 0 .. MaxInbound
    BY DEF Linux!InboundAssumption
  <2>3. Cardinality({}) = 0
    BY FS_EmptySet
  <2> QED BY <2>1, <2>2, <2>3
<1>2. Linux!TypeOK
  <2>1. opq \in Seq(Linux!Events)
    BY DEF Linux!Init
  <2>2. /\ pc \in {"select", "offMedia", "offMesh"} /\ nextId \in 0 .. MaxInbound
        /\ listening \in BOOLEAN /\ origins \in BOOLEAN /\ viewers \in 0 .. MaxInbound
    BY <1>1 DEF Linux!Init
  <2>3. accepting = {} /\ connected = {} /\ tasks = {} /\ aborted = {} /\ conns = {}
    BY DEF Linux!Init
  <2> QED BY <2>1, <2>2, <2>3 DEF Linux!TypeOK
<1>3. Linux!InboundNeedsListener /\ Linux!CountIsTrue /\ Linux!LoopHolds /\ Linux!OffIsQuiet
  BY <1>1, SameCardinality DEF Linux!Init, Linux!InboundNeedsListener, Linux!CountIsTrue,
     Linux!LoopHolds, Linux!OffIsQuiet, Linux!Entries
<1>4. Linux!SessionsAreOwned
  BY OwnedOneByOne DEF Linux!Init
<1>5. Linux!AcceptComesFirst /\ Linux!ClosedIsClosed
  BY <1>1 DEF Linux!Init, Linux!AcceptComesFirst, Linux!ClosedIsClosed, Linux!AllTasks
<1> QED BY <1>2, <1>3, <1>4, <1>5 DEF Linux!InboundInvariant, Linux!OwnedAndQuiet

\* Every step keeps the invariant.
LEMMA InboundKeeps ==
  ASSUME Linux!InboundAssumption, Linux!InboundInvariant, [Linux!Next]_(Linux!vars)
  PROVE  Linux!InboundInvariant'
<1>1. CASE Linux!AcceptInbound
  BY <1>1, AcceptKeeps
<1>2. CASE Linux!LanRestarts
  BY <1>2, RestartKeeps
<1>3. CASE Linux!ServicesStarted \/ Linux!StopLan
  BY <1>3, ListenerKeeps
<1>4. CASE Linux!HandleOperation
  BY <1>4, ReadyKeeps, ClosedKeeps DEF Linux!HandleOperation
<1>5. CASE Linux!Off
  BY <1>5, OffMeshKeeps, OffDrainKeeps DEF Linux!Off
<1>6. ASSUME NEW t \in tasks \cup aborted,
             (\E ok \in BOOLEAN : Linux!AcceptFinishes(t, ok)) \/ Linux!WatcherReports(t)
      PROVE  Linux!InboundInvariant'
  <2>1. t \in Linux!AllTasks
    BY DEF Linux!AllTasks
  <2> QED BY <1>6, <2>1, ReportsKeep
<1>7. CASE (\E t \in aborted : Linux!AbortTakesEffect(t)) \/ (\E i \in conns : Linux!RemoteCloses(i))
  BY <1>7, LossesKeep
<1>8. CASE UNCHANGED Linux!vars
  BY <1>8 DEF Linux!vars, Linux!InboundInvariant, Linux!OwnedAndQuiet, Linux!TypeOK,
     Linux!InboundNeedsListener, Linux!SessionsAreOwned, Linux!OffIsQuiet, Linux!CountIsTrue,
     Linux!AcceptComesFirst, Linux!ClosedIsClosed, Linux!LoopHolds, Linux!Entries,
     Linux!AllTasks, Linux!Queued
<1> QED BY <1>1, <1>2, <1>3, <1>4, <1>5, <1>6, <1>7, <1>8 DEF Linux!Next

\* The invariant of the inbound sessions holds in every state that they reach.
THEOREM InboundInvariantHolds ==
  ASSUME Linux!InboundAssumption
  PROVE  Linux!Spec => []Linux!InboundInvariant
<1>1. Linux!Init => Linux!InboundInvariant
  BY InboundInit
<1>2. Linux!InboundInvariant /\ [Linux!Next]_(Linux!vars) => Linux!InboundInvariant'
  BY InboundKeeps
<1> QED BY <1>1, <1>2, PTL DEF Linux!Spec

\* Every inbound session is owned by an entry or by its own report in the queue,
\* goes with the listener it came through, and none survives Off.
THEOREM InboundIsOwned ==
  ASSUME Linux!InboundAssumption
  PROVE  Linux!Spec => []Linux!OwnedAndQuiet
<1>1. Linux!InboundInvariant => Linux!OwnedAndQuiet
  BY DEF Linux!InboundInvariant
<1> QED BY <1>1, InboundInvariantHolds, PTL

\* The number of viewers that is shown is the number of sessions that are held.
THEOREM ViewersAreCounted ==
  ASSUME Linux!InboundAssumption
  PROVE  Linux!Spec => []Linux!CountIsTrue
<1>1. Linux!InboundInvariant => Linux!CountIsTrue
  BY DEF Linux!InboundInvariant
<1> QED BY <1>1, InboundInvariantHolds, PTL

-----------------------------------------------------------------------------
(* macOS: the reports of one task in a queue.                              *)

\* What a queue says after a send.
LEMMA SaysAfterSend ==
  ASSUME NEW S, NEW q \in Seq(S), NEW e \in S, NEW says, NEW a
  PROVE  Says(Append(q, e), says, a) <=> Says(q, says, a) \/ e = says[a]
<1>1. /\ Len(q) + 1 \in 1 .. Len(Append(q, e)) /\ Append(q, e)[Len(q) + 1] = e
      /\ \A i \in 1 .. Len(q) : Append(q, e)[i] = q[i] /\ i \in 1 .. Len(Append(q, e))
      /\ \A i \in 1 .. Len(Append(q, e)) : i = Len(q) + 1 \/ i \in 1 .. Len(q)
  BY AppendAdds
<1> DEFINE r == Append(q, e)
<1> HIDE DEF r
<1> QED BY <1>1 DEF Says, r

\* What it said before its head was read.
LEMMA SaysAfterRead ==
  ASSUME NEW S, NEW q \in Seq(S), q # <<>>, NEW says, NEW a
  PROVE  Says(q, says, a) <=> Says(Tail(q), says, a) \/ Head(q) = says[a]
<1>1. /\ \A i \in 1 .. Len(Tail(q)) : Tail(q)[i] = q[i + 1] /\ i + 1 \in 1 .. Len(q)
      /\ Head(q) = q[1] /\ 1 \in 1 .. Len(q)
  BY TailShifts
<1>2. \A i \in 1 .. Len(q) : i = 1 \/ (i - 1 \in 1 .. Len(Tail(q)) /\ Tail(q)[i - 1] = q[i])
  BY TailKeepsTheRest
<1> DEFINE r == Tail(q)
<1> HIDE DEF r
<1> QED BY <1>1, <1>2 DEF Says, r

\* A queue that says nothing of a task is in order.
LEMMA SilenceIsOrderly ==
  ASSUME NEW q, NEW says, NEW task, \A a \in Told : ~Says(q, says, a)
  PROVE  Orderly(q, says, task)
<1>1. \A i \in 1 .. Len(q) : \A a \in Told : q[i] # says[a]
  BY DEF Says
<1>2. ~Says(q, says, "Connected")
  BY DEF Told
<1> QED BY <1>1, <1>2 DEF Orderly

\* A task that has nothing to tell yet has told nothing.
LEMMA SilentBefore ==
  ASSUME NEW q, NEW says, NEW task, Orderly(q, says, task), task \notin {"live", "down", "done"}
  PROVE  \A a \in Told : ~Says(q, says, a)
BY DEF Orderly, Says

\* Steps of a task that tell nothing.
LEMMA QuietStep ==
  ASSUME NEW q, NEW says, NEW from, NEW to, Orderly(q, says, from), from # "done", to # "done",
         from \in {"live", "down"} => to \in {"live", "down"}
  PROVE  Orderly(q, says, to)
BY DEF Orderly

\* Reading keeps the order.
LEMMA ReadIsOrderly ==
  ASSUME NEW S, NEW q \in Seq(S), q # <<>>, NEW says, NEW task, Orderly(q, says, task)
  PROVE  /\ Orderly(Tail(q), says, task)
         /\ \A a, b \in Told : Head(q) = says[a] /\ Says(Tail(q), says, b) =>
              a = "Connected" /\ b # "Connected"
<1> DEFINE r == Tail(q)
<1>1. /\ \A i \in 1 .. Len(r) : r[i] = q[i + 1] /\ i + 1 \in 1 .. Len(q)
      /\ Head(q) = q[1] /\ 1 \in 1 .. Len(q) /\ Len(r) \in Nat
  BY TailShifts, PlacesAreTyped
<1>2. \A b : Says(q, says, b) <=> Says(r, says, b) \/ Head(q) = says[b]
  BY SaysAfterRead
<1> HIDE DEF r
<1>3. \A a, b \in Told : Head(q) = says[a] /\ Says(r, says, b) => a = "Connected" /\ b # "Connected"
  <2> SUFFICES ASSUME NEW a \in Told, NEW b \in Told, q[1] = says[a],
                      NEW i \in 1 .. Len(r), r[i] = says[b]
               PROVE  a = "Connected" /\ b # "Connected"
    BY <1>1 DEF Says
  <2>1. 1 < i + 1 /\ q[i + 1] = says[b] /\ i + 1 \in 1 .. Len(q)
    BY <1>1
  <2> QED BY <1>1, <2>1 DEF Orderly
<1>4. \A i \in 1 .. Len(r) : \A a \in Told : r[i] = says[a] =>
        task = "done" \/ (a = "Connected" /\ task \in {"live", "down"})
  BY <1>1 DEF Orderly
<1>5. \A i, j \in 1 .. Len(r) : \A a, b \in Told :
        i < j /\ r[i] = says[a] /\ r[j] = says[b] => a = "Connected" /\ b # "Connected"
  <2> SUFFICES ASSUME NEW i \in 1 .. Len(r), NEW j \in 1 .. Len(r), NEW a \in Told, NEW b \in Told,
                      i < j, r[i] = says[a], r[j] = says[b]
               PROVE  a = "Connected" /\ b # "Connected"
    OBVIOUS
  <2>1. /\ q[i + 1] = says[a] /\ q[j + 1] = says[b] /\ i + 1 < j + 1
        /\ i + 1 \in 1 .. Len(q) /\ j + 1 \in 1 .. Len(q)
    BY <1>1
  <2> QED BY <2>1 DEF Orderly
<1>6. task = "done" /\ Says(r, says, "Connected") => Says(r, says, "Disconnected")
  BY <1>2, <1>3 DEF Orderly, Told
<1> QED BY <1>3, <1>4, <1>5, <1>6 DEF Orderly, r

\* A report that is not of the task changes nothing that the queue says of it.
LEMMA OthersSay ==
  ASSUME NEW S, NEW q \in Seq(S), NEW e \in S, NEW says, \A a \in Told : e # says[a]
  PROVE  /\ \A a \in Told : Says(Append(q, e), says, a) <=> Says(q, says, a)
         /\ \A task : Orderly(q, says, task) => Orderly(Append(q, e), says, task)
<1> DEFINE r == Append(q, e)
<1>1. /\ \A i \in 1 .. Len(q) : r[i] = q[i]
      /\ \A i \in 1 .. Len(r) : i = Len(q) + 1 \/ i \in 1 .. Len(q)
      /\ r[Len(q) + 1] = e
  BY AppendAdds
<1>2. \A a \in Told : Says(r, says, a) <=> Says(q, says, a)
  BY SaysAfterSend
<1> HIDE DEF r
<1>3. \A i \in 1 .. Len(r) : \A a \in Told : r[i] = says[a] => i \in 1 .. Len(q) /\ q[i] = says[a]
  BY <1>1
<1>4. ASSUME NEW task, Orderly(q, says, task) PROVE Orderly(r, says, task)
  BY <1>2, <1>3, <1>4 DEF Orderly, Told
<1> QED BY <1>2, <1>4 DEF r

\* The steps of a task that tell something, and what they tell.
Tells(from, what, to) ==
  \/ from = "up" /\ what = "Connected" /\ to = "live"
  \/ from = "down" /\ what = "Disconnected" /\ to = "done"
  \/ from \in {"failed", "refused"} /\ what = "Failed" /\ to = "done"

\* A report is sent: what was said before stays in order with it.
LEMMA TellingIsOrderly ==
  ASSUME NEW S, NEW q \in Seq(S), NEW says, NEW what \in Told, says[what] \in S,
         \A a, b \in Told : says[a] = says[b] => a = b,
         NEW from, NEW to, Tells(from, what, to), Orderly(q, says, from)
  PROVE  Orderly(Append(q, says[what]), says, to)
<1> DEFINE r == Append(q, says[what])
<1>1. /\ \A i \in 1 .. Len(q) : r[i] = q[i]
      /\ \A i \in 1 .. Len(r) : i = Len(q) + 1 \/ i \in 1 .. Len(q)
      /\ r[Len(q) + 1] = says[what] /\ Len(q) \in Nat
  BY AppendAdds, PlacesAreTyped
<1>2. \A a \in Told : Says(r, says, a) <=> Says(q, says, a) \/ a = what
  BY SaysAfterSend
<1> HIDE DEF r
<1>3. /\ from \notin {"live", "down", "done"} => \A i \in 1 .. Len(q) : \A a \in Told : q[i] # says[a]
      /\ from = "down" => \A i \in 1 .. Len(q) : \A a \in Told : q[i] = says[a] => a = "Connected"
  BY DEF Orderly
<1>4. \A i \in 1 .. Len(r) : \A a \in Told : r[i] = says[a] =>
        \/ i = Len(q) + 1 /\ a = what
        \/ i \in 1 .. Len(q) /\ q[i] = says[a] /\ from = "down" /\ a = "Connected"
  BY <1>1, <1>3 DEF Tells
<1>5. \A i \in 1 .. Len(r) : \A a \in Told : r[i] = says[a] =>
        to = "done" \/ (a = "Connected" /\ to \in {"live", "down"})
  BY <1>4 DEF Tells
<1>6. \A i, j \in 1 .. Len(r) : \A a, b \in Told :
        i < j /\ r[i] = says[a] /\ r[j] = says[b] => a = "Connected" /\ b # "Connected"
  <2> SUFFICES ASSUME NEW i \in 1 .. Len(r), NEW j \in 1 .. Len(r), NEW a \in Told, NEW b \in Told,
                      i < j, r[i] = says[a], r[j] = says[b]
               PROVE  a = "Connected" /\ b # "Connected"
    OBVIOUS
  <2>1. i \in 1 .. Len(q) /\ q[i] = says[a] /\ from = "down" /\ a = "Connected"
    BY <1>1, <1>4
  <2>2. CASE j = Len(q) + 1 /\ b = what
    BY <2>1, <2>2 DEF Tells
  <2>3. CASE j \in 1 .. Len(q) /\ q[j] = says[b]
    BY <2>1, <2>3 DEF Orderly
  <2> QED BY <1>4, <2>1, <2>2, <2>3
<1>7. to = "done" /\ Says(r, says, "Connected") => Says(r, says, "Disconnected")
  <2>1. from \in {"failed", "refused"} => ~Says(q, says, "Connected")
    BY <1>3 DEF Says, Told
  <2> QED BY <1>2, <2>1 DEF Tells, Told
<1> QED BY <1>5, <1>6, <1>7 DEF Orderly, r

-----------------------------------------------------------------------------
(* Reports, states and known sessions of macOS.                            *)

\* What a report can be.
LEMMA KindsOfInput ==
  ASSUME NEW e \in Reports
  PROVE  /\ e.from = "outbound" =>
              e.peer \in Peers /\ e.current \in BOOLEAN /\ e.phase \in Told
              /\ (e.current => e = Report(e.peer, e.phase))
         /\ e.from = "inbound" => e.id \in Inbounds /\ e.phase \in Told
              /\ e = InboundReport(e.id, e.phase)
         /\ e.from = "listener" => e = ListenerStopped
         /\ e.from \in {"outbound", "inbound", "listener"}
<1>1. CASE e \in [from : {"outbound"}, peer : Peers, current : BOOLEAN, phase : Told]
  BY <1>1 DEF Report
<1>2. CASE e \in [from : {"inbound"}, id : Inbounds, phase : Told]
  BY <1>2 DEF InboundReport
<1>3. CASE e = ListenerStopped
  BY <1>3 DEF ListenerStopped
<1> QED BY <1>1, <1>2, <1>3 DEF Reports

\* The reports of different tasks differ.
LEMMA OutgoingIsReport ==
  ASSUME NEW p
  PROVE  /\ \A a \in Told : Outgoing(p)[a] = Report(p, a) /\ (p \in Peers => Report(p, a) \in Reports)
         /\ \A a, b \in Told : Outgoing(p)[a] = Outgoing(p)[b] => a = b
         /\ \A a \in Told : /\ Report(p, a).from = "outbound" /\ Report(p, a).peer = p
                            /\ Report(p, a).current /\ Report(p, a).phase = a
<1>1. \A a \in Told : Outgoing(p)[a] = Report(p, a)
  BY DEF Outgoing
<1>2. \A a \in Told : /\ Report(p, a).from = "outbound" /\ Report(p, a).peer = p
                      /\ Report(p, a).current /\ Report(p, a).phase = a
  BY DEF Report
<1>3. \A a \in Told : p \in Peers => Report(p, a) \in Reports
  BY DEF Report, Reports
<1> QED BY <1>1, <1>2, <1>3

\* The same of the reports of inbound sessions.
LEMMA IncomingIsReport ==
  ASSUME NEW i
  PROVE  /\ \A a \in Told : Incoming(i)[a] = InboundReport(i, a)
                            /\ (i \in Inbounds => InboundReport(i, a) \in Reports)
         /\ \A a, b \in Told : Incoming(i)[a] = Incoming(i)[b] => a = b
         /\ \A a \in Told : /\ InboundReport(i, a).from = "inbound" /\ InboundReport(i, a).id = i
                            /\ InboundReport(i, a).phase = a
<1>1. \A a \in Told : Incoming(i)[a] = InboundReport(i, a)
  BY DEF Incoming
<1>2. \A a \in Told : /\ InboundReport(i, a).from = "inbound" /\ InboundReport(i, a).id = i
                      /\ InboundReport(i, a).phase = a
  BY DEF InboundReport
<1>3. \A a \in Told : i \in Inbounds => InboundReport(i, a) \in Reports
  BY DEF InboundReport, Reports
<1> QED BY <1>1, <1>2, <1>3

\* Reports of dials and of inbound sessions differ.
LEMMA OutgoingIsNotIncoming ==
  ASSUME NEW p, NEW i
  PROVE  \A a, b \in Told : Report(p, a) # InboundReport(i, b)
BY DEF Report, InboundReport

\* Another task sends.
LEMMA StateUnsaid ==
  ASSUME NEW q \in Seq(Reports), NEW e \in Reports, NEW p, NEW task, NEW at,
         \A a \in Told : e # Report(p, a), StateLags(p, q, task, at)
  PROVE  StateLags(p, Append(q, e), task, at)
<1>1. \A a \in Told : e # Outgoing(p)[a]
  BY OutgoingIsReport
<1>2. \A a \in Told : Says(Append(q, e), Outgoing(p), a) <=> Says(q, Outgoing(p), a)
  BY <1>1, OthersSay
<1>3. Orderly(Append(q, e), Outgoing(p), task)
  BY <1>1, OthersSay DEF StateLags
<1> QED BY <1>2, <1>3 DEF StateLags, Told

\* The same of what is known of an inbound session.
LEMMA KnownUnsaid ==
  ASSUME NEW q \in Seq(Reports), NEW e \in Reports, NEW i, NEW task, NEW ids,
         \A a \in Told : e # InboundReport(i, a), KnownLags(i, q, task, ids)
  PROVE  KnownLags(i, Append(q, e), task, ids)
<1>1. \A a \in Told : e # Incoming(i)[a]
  BY IncomingIsReport
<1>2. \A a \in Told : Says(Append(q, e), Incoming(i), a) <=> Says(q, Incoming(i), a)
  BY <1>1, OthersSay
<1>3. Orderly(Append(q, e), Incoming(i), task)
  BY <1>1, OthersSay DEF KnownLags
<1> QED BY <1>2, <1>3 DEF KnownLags, Told

\* The report of another task is read.
LEMMA StateUnread ==
  ASSUME NEW q \in Seq(Reports), q # <<>>, NEW p, NEW task, NEW at,
         \A a \in Told : Head(q) # Report(p, a), StateLags(p, q, task, at)
  PROVE  StateLags(p, Tail(q), task, at)
<1>1. \A a \in Told : Says(q, Outgoing(p), a) <=> Says(Tail(q), Outgoing(p), a)
  BY SaysAfterRead, OutgoingIsReport
<1>2. Orderly(Tail(q), Outgoing(p), task)
  BY ReadIsOrderly DEF StateLags
<1> QED BY <1>1, <1>2 DEF StateLags, Told

\* The same of what is known of an inbound session.
LEMMA KnownUnread ==
  ASSUME NEW q \in Seq(Reports), q # <<>>, NEW i, NEW task, NEW ids,
         \A a \in Told : Head(q) # InboundReport(i, a), KnownLags(i, q, task, ids)
  PROVE  KnownLags(i, Tail(q), task, ids)
<1>1. \A a \in Told : Says(q, Incoming(i), a) <=> Says(Tail(q), Incoming(i), a)
  BY SaysAfterRead, IncomingIsReport
<1>2. Orderly(Tail(q), Incoming(i), task)
  BY ReadIsOrderly DEF KnownLags
<1> QED BY <1>1, <1>2 DEF KnownLags, Told

\* The task itself sends.
LEMMA StateTold ==
  ASSUME NEW q \in Seq(Reports), NEW p \in Peers, NEW from, NEW what \in Told, NEW to, NEW at,
         Tells(from, what, to), from # "refused", StateLags(p, q, from, at)
  PROVE  StateLags(p, Append(q, Report(p, what)), to, at)
<1>1. Outgoing(p)[what] = Report(p, what) /\ Report(p, what) \in Reports
  BY OutgoingIsReport
<1>2. Orderly(Append(q, Report(p, what)), Outgoing(p), to)
  BY <1>1, OutgoingIsReport, TellingIsOrderly DEF StateLags
<1>3. \A a \in Told : Says(Append(q, Report(p, what)), Outgoing(p), a) <=>
                        Says(q, Outgoing(p), a) \/ a = what
  BY <1>1, OutgoingIsReport, SaysAfterSend
<1> QED BY <1>2, <1>3 DEF StateLags, Tells, Told

\* The same of an inbound session.
LEMMA KnownTold ==
  ASSUME NEW q \in Seq(Reports), NEW i \in Inbounds, NEW from, NEW what \in Told, NEW to, NEW ids,
         Tells(from, what, to), KnownLags(i, q, from, ids)
  PROVE  KnownLags(i, Append(q, InboundReport(i, what)), to, ids)
<1>1. Incoming(i)[what] = InboundReport(i, what) /\ InboundReport(i, what) \in Reports
  BY IncomingIsReport
<1>2. Orderly(Append(q, InboundReport(i, what)), Incoming(i), to)
  BY <1>1, IncomingIsReport, TellingIsOrderly DEF KnownLags
<1>3. \A a \in Told : Says(Append(q, InboundReport(i, what)), Incoming(i), a) <=>
                        Says(q, Incoming(i), a) \/ a = what
  BY <1>1, IncomingIsReport, SaysAfterSend
<1> QED BY <1>2, <1>3 DEF KnownLags, Tells, Told

\* A report is read, and the loop takes note of it.
LEMMA StateRead ==
  ASSUME NEW q \in Seq(Reports), q # <<>>, NEW p, NEW task, NEW at, NEW a \in Told,
         Head(q) = Report(p, a), StateLags(p, q, task, at)
  PROVE  StateLags(p, Tail(q), task, a)
<1>1. /\ \A b \in Told : Says(q, Outgoing(p), b) <=> Says(Tail(q), Outgoing(p), b) \/ a = b
      /\ Head(q) = Outgoing(p)[a]
  BY SaysAfterRead, OutgoingIsReport
<1>2. Orderly(Tail(q), Outgoing(p), task)
  BY ReadIsOrderly DEF StateLags
<1>3. task = "done" \/ (a = "Connected" /\ task \in {"live", "down"})
  <2>1. Says(q, Outgoing(p), a)
    BY <1>1
  <2> QED BY <2>1 DEF StateLags, Orderly, Says
<1>4. task = "done" /\ a = "Connected" => Says(Tail(q), Outgoing(p), "Disconnected")
  BY <1>1 DEF StateLags, Orderly, Told
<1> QED BY <1>2, <1>3, <1>4 DEF StateLags, Told

\* The same of an inbound session.
LEMMA KnownRead ==
  ASSUME NEW q \in Seq(Reports), q # <<>>, NEW i, NEW task, NEW ids, NEW a \in Told,
         Head(q) = InboundReport(i, a), KnownLags(i, q, task, ids)
  PROVE  KnownLags(i, Tail(q), task, IF a = "Connected" THEN ids \cup {i} ELSE ids \ {i})
<1>1. /\ \A b \in Told : Says(q, Incoming(i), b) <=> Says(Tail(q), Incoming(i), b) \/ a = b
      /\ Head(q) = Incoming(i)[a]
  BY SaysAfterRead, IncomingIsReport
<1>2. Orderly(Tail(q), Incoming(i), task)
  BY ReadIsOrderly DEF KnownLags
<1>3. task = "done" \/ (a = "Connected" /\ task \in {"live", "down"})
  <2>1. Says(q, Incoming(i), a)
    BY <1>1
  <2> QED BY <2>1 DEF KnownLags, Orderly, Says
<1>4. task = "done" /\ a = "Connected" => Says(Tail(q), Incoming(i), "Disconnected")
  BY <1>1 DEF KnownLags, Orderly, Told
<1> QED BY <1>2, <1>3, <1>4 DEF KnownLags, Told

-----------------------------------------------------------------------------
(* Rows and types of macOS.                                                *)

\* What is known of the variables that the steps read.
LEMMA MacTypes ==
  ASSUME MacSessionsAssumption, TypeOK
  PROVE  /\ connecting # Nobody => Dialed \in Peers /\ connecting.ident \in Identities
         /\ joining => connecting # Nobody
         /\ \A p \in Peers : /\ row[p] \in Rows /\ state[p] \in Phases /\ elapsed[p] \in 0 .. Budget
                             /\ shown[p] \in [discovered : BOOLEAN, session : Phases]
                             /\ out[p].task \in Observing
                             /\ out[p].ident \in Identities \cup {"none"}
         /\ queue \in Seq(Reports)
<1>1. connecting # Nobody => connecting.peer \in Dials /\ connecting.ident \in Identities
  BY DEF TypeOK
<1>2. Dials \subseteq Peers
  BY DEF MacSessionsAssumption
<1>3. \A p \in Peers : out[p] \in [task : Observing, ident : Identities \cup {"none"}]
  BY DEF TypeOK
<1> QED BY <1>1, <1>2, <1>3 DEF TypeOK, Dialed

\* Event::Peer puts the row and its image in the snapshot in one step.
LEMMA PutRow ==
  ASSUME TypeOK, NEW p \in Peers, NEW r \in Rows, Put(p, r)
  PROVE  /\ row' \in [Peers -> Rows] /\ shown' \in [Peers -> [discovered : BOOLEAN, session : Phases]]
         /\ row'[p] = r /\ shown'[p] = [discovered |-> r.discovered, session |-> r.session]
         /\ \A q \in Peers \ {p} : row'[q] = row[q] /\ shown'[q] = shown[q]
         /\ ShownAgrees(p)'
<1>1. [discovered |-> r.discovered, session |-> r.session] \in [discovered : BOOLEAN, session : Phases]
  BY DEF Rows
<1>2. /\ row \in [Peers -> Rows] /\ shown \in [Peers -> [discovered : BOOLEAN, session : Phases]]
  BY DEF TypeOK
<1>3. row'[p] = r /\ shown'[p] = [discovered |-> r.discovered, session |-> r.session]
  BY <1>2 DEF Put
<1>4. r = NoRow => shown'[p] = NoShown
  BY <1>3 DEF NoRow, NoShown
<1>5. ShownAgrees(p)'
  BY <1>3, <1>4 DEF ShownAgrees, NoRow, NoShown
<1> QED BY <1>1, <1>2, <1>3, <1>5 DEF Put

\* Event::PeerRemoved takes the row; of the image a screen to watch may stay.
LEMMA RemoveRow ==
  ASSUME TypeOK, NEW p \in Peers, NEW session \in Phases, Remove(p, session)
  PROVE  /\ row' \in [Peers -> Rows] /\ shown' \in [Peers -> [discovered : BOOLEAN, session : Phases]]
         /\ row'[p] = NoRow
         /\ \A q \in Peers \ {p} : row'[q] = row[q] /\ shown'[q] = shown[q]
         /\ ~Active(session) /\ screens' = screens => ShownAgrees(p)'
<1>1. /\ ScreenKept(p, session) \in [discovered : BOOLEAN, session : Phases] /\ NoRow \in Rows
      /\ ScreenKept(p, session) # NoShown =>
           /\ screens[p] = "Available"
           /\ ScreenKept(p, session) = [discovered |-> FALSE, session |-> session]
  BY DEF ScreenKept, NoShown, NoRow, Rows, Phases
<1>2. /\ row \in [Peers -> Rows] /\ shown \in [Peers -> [discovered : BOOLEAN, session : Phases]]
  BY DEF TypeOK
<1>3. row'[p] = NoRow /\ shown'[p] = ScreenKept(p, session)
  BY <1>2 DEF Remove
<1>4. ASSUME ~Active(session), screens' = screens, shown'[p] # NoShown
      PROVE  screens'[p] = "Available" /\ ~Visible(shown'[p])
  BY <1>1, <1>3, <1>4 DEF Visible
<1>5. ~Active(session) /\ screens' = screens => ShownAgrees(p)'
  BY <1>3, <1>4 DEF ShownAgrees, NoRow, NoShown, Visible, Active
<1> QED BY <1>1, <1>2, <1>3, <1>5 DEF Remove

\* A peer that a step leaves alone.
LEMMA RowKept ==
  ASSUME NEW p, RowAgrees(p), ShownAgrees(p), row'[p] = row[p], shown'[p] = shown[p],
         state'[p] = state[p], reg'[p] = reg[p], screens'[p] = screens[p],
         Taking(p) => Taking(p)'
  PROVE  RowAgrees(p)' /\ ShownAgrees(p)'
<1>1. RowAgrees(p)'
  BY DEF RowAgrees, Active, Visible, NoRow
<1>2. ShownAgrees(p)'
  BY DEF ShownAgrees, Active, Visible, NoRow, NoShown
<1> QED BY <1>1, <1>2

\* What an observer has told still agrees when others send.
LEMMA ObserverKept ==
  ASSUME NEW p, queue \in Seq(Reports), ObserverAgrees(p), Replaced(p)' <=> Replaced(p),
         out'[p].task = out[p].task, state'[p] = state[p],
         \/ queue' = queue
         \/ \E e \in Reports : (\A a \in Told : e # Report(p, a)) /\ queue' = Append(queue, e)
  PROVE  ObserverAgrees(p)'
<1>1. CASE Replaced(p)
  BY <1>1 DEF ObserverAgrees
<1>2. CASE ~Replaced(p)
  <2>1. StateLags(p, queue, out[p].task, state[p])
    BY <1>2 DEF ObserverAgrees
  <2>2. StateLags(p, queue', out[p].task, state[p])
    BY <2>1, StateUnsaid
  <2> QED BY <1>2, <2>2 DEF ObserverAgrees
<1> QED BY <1>1, <1>2

\* What an inbound session has told still agrees when others send.
LEMMA InboundKept ==
  ASSUME NEW i, queue \in Seq(Reports), InboundAgrees(i), inbound'[i] = inbound[i], known' = known,
         \/ queue' = queue
         \/ \E e \in Reports : (\A a \in Told : e # InboundReport(i, a)) /\ queue' = Append(queue, e)
  PROVE  InboundAgrees(i)'
<1>1. KnownLags(i, queue', inbound[i], known)
  BY KnownUnsaid DEF InboundAgrees
<1> QED BY <1>1 DEF InboundAgrees

\* Advertisements and screens.
LEMMA NetworkKeeps ==
  ASSUME MacSessionsAssumption, MacInvariant, NEW p \in Peers, Network(p)
  PROVE  MacInvariant'
<1> USE MacTypes
<1>1. TypeOK /\ Running /\ connecting = Nobody /\ ~joining /\ queue \in Seq(Reports)
  <2>1. Idle
    BY DEF Network, Lost, Screen, Found
  <2> QED BY <2>1 DEF Idle, MacInvariant
<1>2. UNCHANGED <<phase, dialVars, joining, inVars, queue>>
  BY DEF Network, Lost, Screen, Found, keptVars
<1>3. /\ \A q \in Peers : ObserverAgrees(q) /\ RowAgrees(q) /\ ShownAgrees(q)
      /\ listener = "accepting" => \A i \in Inbounds : InboundAgrees(i)
  BY <1>1 DEF MacInvariant
<1>4. /\ \A q \in Peers : ObserverAgrees(q)'
      /\ listener' = "accepting" => \A i \in Inbounds : InboundAgrees(i)'
  <2>1. \A q : Replaced(q)' <=> Replaced(q)
    BY <1>1, <1>2 DEF Replaced
  <2> QED BY <1>1, <1>2, <1>3, <2>1, ObserverKept, InboundKept DEF dialVars, inVars
<1> DEFINE Typed ==
      /\ row' \in [Peers -> Rows]
      /\ shown' \in [Peers -> [discovered : BOOLEAN, session : Phases]]
      /\ screens' \in [Peers -> {"none", "Available", "Withdrawn"}]
      /\ reg' \in [Peers -> Identities \cup {"none"}]
      /\ connecting' \in [peer : Dials, ident : Identities] \cup {Nobody}
<1>5. SUFFICES Typed /\ \A q \in Peers : RowAgrees(q)' /\ ShownAgrees(q)'
  BY <1>1, <1>2, <1>4 DEF MacInvariant, TypeOK, dialVars, inVars
<1>6. \A q : ~Taking(q)
  BY <1>1 DEF Taking
<1>7. /\ reg \in [Peers -> Identities \cup {"none"}]
      /\ screens \in [Peers -> {"none", "Available", "Withdrawn"}]
  BY <1>1 DEF TypeOK
<1>8. row[p] \in Rows /\ row[p].session \in Phases /\ RowAgrees(p) /\ ShownAgrees(p)
  BY <1>1, <1>3 DEF Rows
<1>9. CASE Lost(p)
  <2>1. reg' = [reg EXCEPT ![p] = "none"] /\ UNCHANGED <<screens, connecting, joining, state>>
    BY <1>9 DEF Lost, keptVars, dialVars
  <2>2. reg'[p] = "none" /\ \A q \in Peers \ {p} : reg'[q] = reg[q]
    BY <1>7, <2>1
  <2>3. CASE Active(row[p].session)
    <3> DEFINE r == [row[p] EXCEPT !.discovered = FALSE]
    <3>1. r \in Rows /\ r.session = row[p].session /\ r.current = row[p].current
      BY <1>8 DEF Rows
    <3>2. Put(p, r)
      BY <1>9, <2>3 DEF Lost
    <3> HIDE DEF r
    <3>3. /\ row' \in [Peers -> Rows] /\ row'[p] = r /\ ShownAgrees(p)'
          /\ shown' \in [Peers -> [discovered : BOOLEAN, session : Phases]]
          /\ \A q \in Peers \ {p} : row'[q] = row[q] /\ shown'[q] = shown[q]
      BY <1>1, <3>1, <3>2, PutRow
    <3>4. RowAgrees(p)'
      BY <1>8, <2>1, <2>2, <2>3, <3>1, <3>3 DEF RowAgrees, Visible, Active
    <3>5. \A q \in Peers \ {p} : RowAgrees(q)' /\ ShownAgrees(q)'
      BY <1>3, <1>6, <2>1, <2>2, <3>3, RowKept
    <3> QED BY <1>1, <1>7, <2>1, <3>3, <3>4, <3>5
  <2>4. CASE ~Active(row[p].session)
    <3>1. Remove(p, row[p].session)
      BY <1>9, <2>4 DEF Lost
    <3>2. /\ row' \in [Peers -> Rows] /\ row'[p] = NoRow /\ ShownAgrees(p)'
          /\ shown' \in [Peers -> [discovered : BOOLEAN, session : Phases]]
          /\ \A q \in Peers \ {p} : row'[q] = row[q] /\ shown'[q] = shown[q]
      BY <1>1, <1>8, <2>1, <2>4, <3>1, RemoveRow
    <3>3. RowAgrees(p)'
      BY <2>2, <3>2 DEF RowAgrees, Active, NoRow
    <3>4. \A q \in Peers \ {p} : RowAgrees(q)' /\ ShownAgrees(q)'
      BY <1>3, <1>6, <2>1, <2>2, <3>2, RowKept
    <3> QED BY <1>1, <1>7, <2>1, <3>2, <3>3, <3>4
  <2> QED BY <2>3, <2>4
<1>10. ASSUME NEW to \in {"Available", "Withdrawn"}, Screen(p, to)
       PROVE  Typed /\ \A q \in Peers : RowAgrees(q)' /\ ShownAgrees(q)'
  <2> DEFINE s == IF to = "Available"
                  THEN IF shown[p] = NoShown THEN [shown[p] EXCEPT !.session = "Waiting"] ELSE shown[p]
                  ELSE IF Visible(shown[p]) THEN shown[p] ELSE NoShown
  <2>1. /\ screens' = [screens EXCEPT ![p] = to] /\ shown' = [shown EXCEPT ![p] = s]
        /\ UNCHANGED <<reg, row, state, connecting, joining>>
    BY <1>10 DEF Screen, dialVars, keptVars
  <2>2. shown[p] \in [discovered : BOOLEAN, session : Phases]
    BY <1>1
  <2>3. s \in [discovered : BOOLEAN, session : Phases]
    BY <2>2 DEF NoShown, Phases
  <2>4. /\ row[p] # NoRow => s = [discovered |-> row[p].discovered, session |-> row[p].session]
        /\ row[p] = NoRow /\ s # NoShown => to = "Available" /\ ~Visible(s)
    BY <1>8 DEF RowAgrees, ShownAgrees, Visible, Active, NoShown
  <2> HIDE DEF s
  <2>5. /\ screens'[p] = to /\ shown'[p] = s
        /\ \A q \in Peers \ {p} : shown'[q] = shown[q] /\ screens'[q] = screens[q]
        /\ shown' \in [Peers -> [discovered : BOOLEAN, session : Phases]]
    <3>1. shown \in [Peers -> [discovered : BOOLEAN, session : Phases]]
      BY <1>1 DEF TypeOK
    <3> QED BY <1>7, <2>1, <2>3, <3>1
  <2>6. RowAgrees(p)' /\ ShownAgrees(p)'
    <3>1. RowAgrees(p)'
      BY <1>8, <2>1, <1>6 DEF RowAgrees, Active, Visible, NoRow
    <3> QED BY <2>1, <2>4, <2>5, <3>1 DEF ShownAgrees, NoRow, NoShown, Visible, Active
  <2>7. \A q \in Peers \ {p} : RowAgrees(q)' /\ ShownAgrees(q)'
    BY <1>3, <1>6, <2>1, <2>5, RowKept
  <2> QED BY <1>1, <1>7, <1>10, <2>1, <2>5, <2>6, <2>7 DEF TypeOK
<1>11. ASSUME NEW id \in Identities, NEW merged \in BOOLEAN, Found(p, id, merged)
       PROVE  Typed /\ \A q \in Peers : RowAgrees(q)' /\ ShownAgrees(q)'
  <2>1. reg' = [reg EXCEPT ![p] = id] /\ UNCHANGED <<screens, joining, state>>
    BY <1>11 DEF Found, dialVars
  <2>2. /\ reg' \in [Peers -> Identities \cup {"none"}]
        /\ reg'[p] = id /\ \A q \in Peers \ {p} : reg'[q] = reg[q]
    BY <1>7, <2>1
  <2>3. ASSUME NEW r \in Rows, Put(p, r), r.discovered, connecting' = connecting,
               r.current => \/ r.session = state[p]
                            \/ r.session = "Connecting" /\ state[p] = "Connected",
               Active(r.session) => r.current
        PROVE  Typed /\ \A q \in Peers : RowAgrees(q)' /\ ShownAgrees(q)'
    <3>1. /\ row' \in [Peers -> Rows] /\ row'[p] = r /\ ShownAgrees(p)'
          /\ shown' \in [Peers -> [discovered : BOOLEAN, session : Phases]]
          /\ \A q \in Peers \ {p} : row'[q] = row[q] /\ shown'[q] = shown[q]
      BY <1>1, <2>3, PutRow
    <3>2. RowAgrees(p)'
      BY <2>1, <2>3, <3>1 DEF RowAgrees, Visible, Active
    <3>3. \A q \in Peers \ {p} : RowAgrees(q)' /\ ShownAgrees(q)'
      BY <1>3, <1>6, <2>1, <2>2, <3>1, RowKept
    <3> QED BY <1>1, <1>7, <2>1, <2>2, <2>3, <3>1, <3>2, <3>3
  <2>4. CASE p \notin Dials
    <3> DEFINE r == [discovered |-> TRUE, session |-> "Waiting", current |-> FALSE]
    <3>1. r \in Rows /\ r.discovered /\ ~r.current /\ ~Active(r.session)
      BY DEF Rows, Phases, Active
    <3>2. Put(p, r) /\ connecting' = connecting
      BY <1>11, <2>4 DEF Found
    <3> QED BY <2>3, <3>1, <3>2
  <2>5. CASE p \in Dials /\ ShouldConnect(p, id, merged)
    <3>1. connecting' = [peer |-> p, ident |-> id] /\ row' = row /\ shown' = shown
      BY <1>11, <2>5 DEF Found, rowVars
    <3>2. connecting' # Nobody /\ Taking(p)'
      <4>1. connecting'.peer = p /\ connecting'.ident = id /\ id # "none" /\ Nobody.ident = "none"
        BY <3>1 DEF MacSessionsAssumption, Nobody
      <4> QED BY <4>1 DEF Taking, Dialed
    <3>3. RowAgrees(p)' /\ ShownAgrees(p)'
      BY <1>8, <2>1, <3>1, <3>2 DEF RowAgrees, ShownAgrees, Active, Visible, NoRow, NoShown
    <3>4. \A q \in Peers \ {p} : RowAgrees(q)' /\ ShownAgrees(q)'
      BY <1>3, <1>6, <2>1, <2>2, <3>1, RowKept
    <3>5. connecting' \in [peer : Dials, ident : Identities]
      BY <2>5, <3>1
    <3> QED BY <1>1, <1>7, <2>1, <2>2, <3>1, <3>3, <3>4, <3>5 DEF TypeOK
  <2>6. CASE p \in Dials /\ ~ShouldConnect(p, id, merged)
    <3> DEFINE r == [row[p] EXCEPT !.discovered = TRUE]
    <3>1. r \in Rows /\ r.discovered /\ r.session = row[p].session /\ r.current = row[p].current
      BY <1>8 DEF Rows
    <3>2. Put(p, r) /\ connecting' = connecting
      BY <1>11, <2>6 DEF Found
    <3> QED BY <1>8, <2>3, <3>1, <3>2 DEF RowAgrees
  <2> QED BY <2>4, <2>5, <2>6
<1> QED BY <1>9, <1>10, <1>11 DEF Network

\* Two queues with the reports of a task in the same places.
LEMMA SamePlaces ==
  ASSUME NEW q, NEW r, NEW says, Len(r) = Len(q),
         \A i \in 1 .. Len(q) : \A a \in Told : r[i] = says[a] <=> q[i] = says[a]
  PROVE  /\ \A a \in Told : Says(r, says, a) <=> Says(q, says, a)
         /\ \A task : Orderly(q, says, task) => Orderly(r, says, task)
<1>1. \A a \in Told : Says(r, says, a) <=> Says(q, says, a)
  BY DEF Says
<1>2. ASSUME NEW task, Orderly(q, says, task) PROVE Orderly(r, says, task)
  BY <1>1, <1>2 DEF Orderly, Told
<1> QED BY <1>1, <1>2

\* A new generation: what was told of the old ones is no longer current, and the
\* reports of the other tasks stand.
LEMMA OutdatedReports ==
  ASSUME queue \in Seq(Reports), NEW p
  PROVE  /\ Outdated(p) \in Seq(Reports) /\ Len(Outdated(p)) = Len(queue)
         /\ \A a \in Told : ~Says(Outdated(p), Outgoing(p), a)
         /\ \A q, task, at : q # p /\ StateLags(q, queue, task, at) =>
              StateLags(q, Outdated(p), task, at)
         /\ \A i, task, ids : KnownLags(i, queue, task, ids) =>
              KnownLags(i, Outdated(p), task, ids)
         /\ \A q : q # p => \A a \in Told :
              Says(Outdated(p), Outgoing(q), a) <=> Says(queue, Outgoing(q), a)
<1> DEFINE r == Outdated(p)
<1>1. Len(queue) \in Nat /\ \A i \in 1 .. Len(queue) : queue[i] \in Reports
  BY PlacesAreTyped
<1>2. /\ DOMAIN r = 1 .. Len(queue)
      /\ \A i \in 1 .. Len(queue) :
           r[i] = IF queue[i].from = "outbound" /\ queue[i].peer = p
                  THEN [queue[i] EXCEPT !.current = FALSE] ELSE queue[i]
  BY DEF Outdated
<1>3. \A i \in 1 .. Len(queue) :
        \/ /\ queue[i].from = "outbound" /\ queue[i].peer = p
           /\ r[i] \in Reports /\ r[i].from = "outbound" /\ r[i].peer = p /\ ~r[i].current
        \/ r[i] = queue[i] /\ ~(queue[i].from = "outbound" /\ queue[i].peer = p)
  <2> SUFFICES ASSUME NEW i \in 1 .. Len(queue), queue[i].from = "outbound", queue[i].peer = p
               PROVE  r[i] \in Reports /\ r[i].from = "outbound" /\ r[i].peer = p /\ ~r[i].current
    BY <1>2
  <2> DEFINE e == queue[i]
  <2>1. e \in Reports /\ r[i] = [e EXCEPT !.current = FALSE]
    BY <1>1, <1>2
  <2>2. e.current \in BOOLEAN /\ e.peer \in Peers /\ e.phase \in Told
        /\ e \in [from : {"outbound"}, peer : Peers, current : BOOLEAN, phase : Told]
    <3>1. ListenerStopped.from = "listener"
      BY DEF ListenerStopped
    <3>2. e.from = "outbound"
      OBVIOUS
    <3> QED BY <2>1, <3>1, <3>2 DEF Reports
  <2> HIDE DEF e, r
  <2> QED BY <2>1, <2>2 DEF Reports, e
<1> HIDE DEF r
<1>4. r \in Seq(Reports) /\ Len(r) = Len(queue)
  <2>1. \A i \in 1 .. Len(queue) : r[i] \in Reports
    BY <1>1, <1>3
  <2>2. r = [i \in 1 .. Len(queue) |-> r[i]]
    BY <1>2 DEF r, Outdated
  <2> QED BY <1>1, <1>2, <2>1, <2>2
<1>5. \A a \in Told : ~Says(r, Outgoing(p), a)
  BY <1>3, <1>4, OutgoingIsReport DEF Says
<1>6. ASSUME NEW q, q # p
      PROVE  \A i \in 1 .. Len(queue) : \A a \in Told : r[i] = Outgoing(q)[a] <=> queue[i] = Outgoing(q)[a]
  BY <1>3, <1>6, OutgoingIsReport
<1>7. ASSUME NEW q, q # p, NEW task, NEW at, StateLags(q, queue, task, at)
      PROVE  StateLags(q, r, task, at)
  <2>1. \A a \in Told : Says(r, Outgoing(q), a) <=> Says(queue, Outgoing(q), a)
    BY <1>4, <1>6, <1>7, SamePlaces
  <2>2. Orderly(r, Outgoing(q), task)
    BY <1>4, <1>6, <1>7, SamePlaces DEF StateLags
  <2> QED BY <1>7, <2>1, <2>2 DEF StateLags, Told
<1>8. ASSUME NEW i, NEW task, NEW ids, KnownLags(i, queue, task, ids)
      PROVE  KnownLags(i, r, task, ids)
  <2>1. \A j \in 1 .. Len(queue) : \A a \in Told : r[j] = Incoming(i)[a] <=> queue[j] = Incoming(i)[a]
    BY <1>3, IncomingIsReport
  <2>2. \A a \in Told : Says(r, Incoming(i), a) <=> Says(queue, Incoming(i), a)
    BY <1>4, <2>1, SamePlaces
  <2>3. Orderly(r, Incoming(i), task)
    BY <1>4, <1>8, <2>1, SamePlaces DEF KnownLags
  <2> QED BY <1>8, <2>2, <2>3 DEF KnownLags, Told
<1>9. ASSUME NEW q, q # p
      PROVE  \A a \in Told : Says(r, Outgoing(q), a) <=> Says(queue, Outgoing(q), a)
  BY <1>4, <1>6, <1>9, SamePlaces
<1> QED BY <1>4, <1>5, <1>7, <1>8, <1>9 DEF r

\* What an aborted observer may still say is a report of its own.
LEMMA AbortedSays ==
  ASSUME queue \in Seq(Reports), Len(queue) <= QueueCap, NEW p \in Peers, ObserverAborted(p),
         QueueCap \in Nat
  PROVE  /\ queue' \in Seq(Reports) /\ Len(queue') <= QueueCap
         /\ \/ queue' = queue
            \/ \E a \in Told : Report(p, a) \in Reports /\ queue' = Append(queue, Report(p, a))
<1>1. CASE UNCHANGED queue
  BY <1>1
<1>2. ASSUME NEW e \in Unsent(p), Room, queue' = Append(queue, e)
      PROVE  /\ queue' \in Seq(Reports) /\ Len(queue') <= QueueCap
             /\ \E a \in Told : Report(p, a) \in Reports /\ queue' = Append(queue, Report(p, a))
  <2>1. \E a \in Told : e = Report(p, a)
    BY DEF Unsent, Told
  <2>2. PICK a \in Told : e = Report(p, a) /\ e \in Reports
    BY <2>1, OutgoingIsReport
  <2>3. Len(queue) \in Nat /\ queue' \in Seq(Reports) /\ Len(queue') = Len(queue) + 1
    BY <1>2, <2>2, AppendAdds
  <2> QED BY <1>2, <2>2, <2>3 DEF Room
<1> QED BY <1>1, <1>2 DEF ObserverAborted

\* The attempt in hand is over: the row of its peer says how.
LEMMA CompletesRow ==
  ASSUME MacSessionsAssumption, TypeOK, connecting # Nobody, NEW session \in {"Connecting", "Failed"},
         Completes(session), \A q \in Peers : RowAgrees(q) /\ ShownAgrees(q),
         \A q \in Peers \ {Dialed} : state'[q] = state[q],
         session = "Connecting" => state'[Dialed] \in {"Connecting", "Connected"}
  PROVE  /\ row' \in [Peers -> Rows] /\ shown' \in [Peers -> [discovered : BOOLEAN, session : Phases]]
         /\ \A q \in Peers : RowAgrees(q)' /\ ShownAgrees(q)'
         /\ connecting' = Nobody /\ joining' = FALSE
         /\ UNCHANGED <<phase, reg, screens, known, inbound, listener>>
<1>2. PICK p \in Peers : p = Dialed
  BY MacTypes
<1> DEFINE r == [discovered |-> TRUE, session |-> session, current |-> session = "Connecting"]
<1>1. /\ connecting' = Nobody /\ joining' = FALSE /\ Put(p, r)
      /\ UNCHANGED <<phase, reg, screens, known, inbound, listener>>
  BY <1>2 DEF Completes, netVars, inVars
<1>3. r \in Rows /\ r.discovered /\ r.session = session /\ (r.current <=> session = "Connecting")
  BY DEF Rows, Phases
<1> HIDE DEF r
<1>4. /\ row' \in [Peers -> Rows] /\ row'[p] = r /\ ShownAgrees(p)'
      /\ shown' \in [Peers -> [discovered : BOOLEAN, session : Phases]]
      /\ \A q \in Peers \ {p} : row'[q] = row[q] /\ shown'[q] = shown[q]
  BY <1>1, <1>2, <1>3, PutRow
<1>5. RowAgrees(p)'
  BY <1>2, <1>3, <1>4 DEF RowAgrees, Active, Visible
<1>6. ASSUME NEW q \in Peers \ {p} PROVE RowAgrees(q)' /\ ShownAgrees(q)'
  <2>1. ~Taking(q)
    BY <1>2 DEF Taking
  <2>2. state'[q] = state[q] /\ reg'[q] = reg[q] /\ screens'[q] = screens[q]
    BY <1>1, <1>2
  <2> QED BY <1>4, <2>1, <2>2, RowKept
<1> QED BY <1>1, <1>2, <1>4, <1>5, <1>6

\* The steps of a connect.
LEMMA ConnectKeptKeeps ==
  ASSUME MacSessionsAssumption, MacInvariant, NEW fresh \in BOOLEAN, ConnectKept(fresh)
  PROVE  MacInvariant'
<1>1. TypeOK /\ Running /\ connecting # Nobody /\ ~joining /\ Kept(fresh) /\ Completes("Connecting")
      /\ UNCHANGED <<state, out, elapsed, queue>>
  BY DEF ConnectKept, MacInvariant, dialVars
<1>2. /\ \A q \in Peers : ObserverAgrees(q) /\ RowAgrees(q) /\ ShownAgrees(q)
      /\ listener = "accepting" => \A i \in Inbounds : InboundAgrees(i)
      /\ Dialed \in Peers /\ queue \in Seq(Reports)
  BY <1>1, MacTypes DEF MacInvariant
<1>3. state[Dialed] \in {"Connecting", "Connected"}
  <2>1. StateLags(Dialed, queue, out[Dialed].task, state[Dialed])
    BY <1>1, <1>2 DEF ObserverAgrees, Replaced
  <2> QED BY <1>1, <2>1 DEF Kept, LinkUp, StateLags
<1>4. /\ row' \in [Peers -> Rows] /\ shown' \in [Peers -> [discovered : BOOLEAN, session : Phases]]
      /\ \A q \in Peers : RowAgrees(q)' /\ ShownAgrees(q)'
      /\ connecting' = Nobody /\ joining' = FALSE
      /\ UNCHANGED <<phase, reg, screens, known, inbound, listener>>
  BY <1>1, <1>2, <1>3, CompletesRow
<1>5. \A q \in Peers : ObserverAgrees(q)'
  <2>1. \A q : ~Replaced(q) /\ ~Replaced(q)'
    BY <1>1, <1>4 DEF Replaced
  <2> QED BY <1>1, <1>2, <2>1, ObserverKept
<1>6. listener' = "accepting" => \A i \in Inbounds : InboundAgrees(i)'
  BY <1>1, <1>2, <1>4, InboundKept
<1> QED BY <1>1, <1>4, <1>5, <1>6 DEF MacInvariant, TypeOK

\* The old connection of the peer is taken down before the new one.
LEMMA ConnectReplacesKeeps ==
  ASSUME MacSessionsAssumption, MacInvariant, NEW fresh \in BOOLEAN, ConnectReplaces(fresh)
  PROVE  MacInvariant'
<1>0. PICK p \in Peers : p = Dialed
  BY MacTypes DEF ConnectReplaces, MacInvariant
<1>1. /\ TypeOK /\ Running /\ connecting # Nobody /\ ~joining /\ joining' = TRUE
      /\ elapsed' = [elapsed EXCEPT ![p] = SameDeadline(p)]
      /\ out' = [out EXCEPT ![p] = NoOut] /\ ObserverAborted(p)
      /\ UNCHANGED <<phase, reg, screens, row, shown, state, connecting, known, inbound, listener>>
  BY <1>0 DEF ConnectReplaces, MacInvariant, netVars, rowVars, inVars
<1>2. /\ \A q \in Peers : ObserverAgrees(q) /\ RowAgrees(q) /\ ShownAgrees(q)
      /\ listener = "accepting" => \A i \in Inbounds : InboundAgrees(i)
      /\ p \in Peers /\ queue \in Seq(Reports)
  BY <1>1, MacTypes DEF MacInvariant
<1>3. /\ queue' \in Seq(Reports) /\ Len(queue') <= QueueCap
      /\ \/ queue' = queue
         \/ \E a \in Told : Report(p, a) \in Reports /\ queue' = Append(queue, Report(p, a))
  BY <1>1, <1>2, AbortedSays DEF TypeOK, MacSessionsAssumption
<1>4. /\ out' \in [Peers -> [task : Observing, ident : Identities \cup {"none"}]]
      /\ out'[p].task = "none" /\ \A q \in Peers \ {p} : out'[q] = out[q]
  <2>1. NoOut \in [task : Observing, ident : Identities \cup {"none"}] /\ NoOut.task = "none"
    BY DEF NoOut, Observing
  <2>2. out \in [Peers -> [task : Observing, ident : Identities \cup {"none"}]]
    BY <1>1 DEF TypeOK
  <2> QED BY <1>1, <1>2, <2>1, <2>2
<1>5. elapsed' \in [Peers -> 0 .. Budget]
  <2>1. elapsed \in [Peers -> 0 .. Budget]
    BY <1>1 DEF TypeOK
  <2>2. SameDeadline(p) \in 0 .. Budget
    BY <1>2, <2>1 DEF SameDeadline, Budget
  <2> QED BY <1>1, <2>1, <2>2
<1>6. \A q \in Peers : ObserverAgrees(q)'
  <2>1. Replaced(p)'
    BY <1>0, <1>1 DEF Replaced, Dialed
  <2>2. ASSUME NEW q \in Peers \ {p} PROVE ObserverAgrees(q)'
    <3>1. ~Replaced(q) /\ ~Replaced(q)'
      BY <1>0, <1>1 DEF Replaced, Dialed
    <3>2. \A a, b \in Told : Report(p, a) # Report(q, b)
      BY OutgoingIsReport
    <3> QED BY <1>1, <1>2, <1>3, <1>4, <3>1, <3>2, ObserverKept
  <2> QED BY <1>4, <2>1, <2>2 DEF ObserverAgrees
<1>7. listener' = "accepting" => \A i \in Inbounds : InboundAgrees(i)'
  <2>1. \A i : \A a, b \in Told : Report(p, a) # InboundReport(i, b)
    BY OutgoingIsNotIncoming
  <2> QED BY <1>1, <1>2, <1>3, <2>1, InboundKept
<1>8. \A q \in Peers : RowAgrees(q)' /\ ShownAgrees(q)'
  <2>1. \A q : Taking(q) => Taking(q)'
    BY <1>1 DEF Taking, Dialed
  <2> QED BY <1>1, <1>2, <2>1, RowKept
<1> QED BY <1>1, <1>3, <1>4, <1>5, <1>6, <1>7, <1>8 DEF MacInvariant, TypeOK

\* The dial starts, or fails at once, with a new generation.
LEMMA ConnectDialsKeeps ==
  ASSUME MacSessionsAssumption, MacInvariant, NEW ok \in BOOLEAN, ConnectDials(ok)
  PROVE  MacInvariant'
<1>0. PICK p \in Peers : p = Dialed
  BY MacTypes DEF ConnectDials, MacInvariant
<1>1. /\ TypeOK /\ Running /\ joining /\ connecting # Nobody /\ queue' = Outdated(p) /\ elapsed' = elapsed
      /\ \/ /\ state' = [state EXCEPT ![p] = "Connecting"] /\ Completes("Connecting")
            /\ out' = [out EXCEPT ![p] = [task |-> "dialing", ident |-> connecting.ident]]
         \/ state' = [state EXCEPT ![p] = "Failed"] /\ out' = out /\ Completes("Failed")
  BY <1>0 DEF ConnectDials, MacInvariant, TypeOK
<1>2. /\ \A q \in Peers : ObserverAgrees(q) /\ RowAgrees(q) /\ ShownAgrees(q)
      /\ listener = "accepting" => \A i \in Inbounds : InboundAgrees(i)
      /\ p \in Peers /\ queue \in Seq(Reports) /\ connecting.ident \in Identities
  BY <1>1, MacTypes DEF MacInvariant
<1>3. out[p].task = "none"
  BY <1>0, <1>1, <1>2 DEF ObserverAgrees, Replaced
<1>4. /\ state \in [Peers -> Phases]
      /\ out \in [Peers -> [task : Observing, ident : Identities \cup {"none"}]]
  BY <1>1 DEF TypeOK
<1>5. /\ \A q \in Peers \ {p} : state'[q] = state[q] /\ out'[q] = out[q]
      /\ state' \in [Peers -> Phases]
      /\ out' \in [Peers -> [task : Observing, ident : Identities \cup {"none"}]]
      /\ \/ state'[p] = "Connecting" /\ out'[p].task = "dialing" /\ Completes("Connecting")
         \/ state'[p] = "Failed" /\ out'[p].task = "none" /\ Completes("Failed")
  <2>1. CASE /\ state' = [state EXCEPT ![p] = "Connecting"] /\ Completes("Connecting")
             /\ out' = [out EXCEPT ![p] = [task |-> "dialing", ident |-> connecting.ident]]
    <3>1. "Connecting" \in Phases /\ "dialing" \in Observing
      BY DEF Phases, Observing
    <3> QED BY <1>2, <1>4, <2>1, <3>1
  <2>2. CASE state' = [state EXCEPT ![p] = "Failed"] /\ out' = out /\ Completes("Failed")
    <3>1. "Failed" \in Phases
      BY DEF Phases
    <3> QED BY <1>2, <1>3, <1>4, <2>2, <3>1
  <2> QED BY <1>1, <2>1, <2>2
<1>6. /\ row' \in [Peers -> Rows] /\ shown' \in [Peers -> [discovered : BOOLEAN, session : Phases]]
      /\ \A q \in Peers : RowAgrees(q)' /\ ShownAgrees(q)'
      /\ connecting' = Nobody /\ joining' = FALSE
      /\ UNCHANGED <<phase, reg, screens, known, inbound, listener>>
  BY <1>0, <1>1, <1>2, <1>5, CompletesRow
<1>7. \A q \in Peers : ObserverAgrees(q)'
  <2>1. \A q : ~Replaced(q)'
    BY <1>6 DEF Replaced
  <2>2. StateLags(p, queue', out'[p].task, state'[p])
    <3>1. \A a \in Told : ~Says(queue', Outgoing(p), a)
      BY <1>1, <1>2, OutdatedReports
    <3>2. Orderly(queue', Outgoing(p), out'[p].task)
      BY <3>1, SilenceIsOrderly
    <3> QED BY <1>5, <3>2 DEF StateLags
  <2>3. ASSUME NEW q \in Peers \ {p} PROVE StateLags(q, queue', out'[q].task, state'[q])
    <3>1. ~Replaced(q)
      BY <1>0, <1>1 DEF Replaced
    <3>2. StateLags(q, queue, out[q].task, state[q])
      BY <1>2, <3>1 DEF ObserverAgrees
    <3>3. StateLags(q, queue', out[q].task, state[q])
      BY <1>1, <1>2, <3>2, OutdatedReports
    <3> QED BY <1>5, <3>3
  <2> QED BY <2>1, <2>2, <2>3 DEF ObserverAgrees
<1>8. listener' = "accepting" => \A i \in Inbounds : InboundAgrees(i)'
  BY <1>1, <1>2, <1>6, OutdatedReports DEF InboundAgrees
<1>9. queue' \in Seq(Reports) /\ Len(queue') <= QueueCap
  BY <1>1, <1>2, OutdatedReports DEF TypeOK
<1> QED BY <1>1, <1>5, <1>6, <1>7, <1>8, <1>9 DEF MacInvariant, TypeOK

\* A step of an observer, with what it tells.
LEMMA ObservesKeeps ==
  ASSUME MacSessionsAssumption, MacInvariant, NEW p \in Peers, NEW from, NEW to \in Observing,
         Observes(p, from, to), from \notin {"none", "done"},
         \/ from = "dialing" /\ to \in {"up", "failed"} /\ queue' = queue
         \/ from = "live" /\ to = "down" /\ queue' = queue
         \/ \E what \in Told : /\ Tells(from, what, to) /\ from # "refused" /\ Room
                               /\ queue' = Append(queue, Report(p, what))
  PROVE  MacInvariant'
<1>1. /\ out[p].task = from /\ out' = [out EXCEPT ![p].task = to]
      /\ UNCHANGED <<phase, reg, screens, row, shown, state, elapsed, connecting, joining, known,
                     inbound, listener>>
  BY DEF Observes, netVars, rowVars, keptVars, inVars
<1>2. TypeOK /\ queue \in Seq(Reports)
  BY MacTypes DEF MacInvariant
<1>3. /\ out' \in [Peers -> [task : Observing, ident : Identities \cup {"none"}]]
      /\ out'[p].task = to /\ \A q \in Peers \ {p} : out'[q] = out[q]
  <2>1. out \in [Peers -> [task : Observing, ident : Identities \cup {"none"}]]
    BY <1>2 DEF TypeOK
  <2> QED BY <1>1, <2>1
<1>4. /\ queue' \in Seq(Reports) /\ Len(queue') <= QueueCap
      /\ \/ queue' = queue
         \/ \E a \in Told : Report(p, a) \in Reports /\ queue' = Append(queue, Report(p, a))
  <2>1. ASSUME NEW what \in Told, Room, queue' = Append(queue, Report(p, what))
        PROVE  queue' \in Seq(Reports) /\ Len(queue') <= QueueCap /\ Report(p, what) \in Reports
    <3>1. Report(p, what) \in Reports
      BY OutgoingIsReport
    <3>2. queue' \in Seq(Reports) /\ Len(queue') = Len(queue) + 1 /\ Len(queue) \in Nat
      BY <1>2, <2>1, <3>1, AppendAdds
    <3> QED BY <2>1, <3>1, <3>2 DEF Room, MacSessionsAssumption
  <2> QED BY <1>2, <2>1 DEF TypeOK
<1>5. TypeOK'
  BY <1>1, <1>2, <1>3, <1>4 DEF TypeOK
<1>6. ASSUME Running
      PROVE  \A q \in Peers : ObserverAgrees(q)' /\ RowAgrees(q)' /\ ShownAgrees(q)'
  <2>1. \A q \in Peers : ObserverAgrees(q) /\ RowAgrees(q) /\ ShownAgrees(q)
    BY <1>6 DEF MacInvariant
  <2>2. \A q : (Replaced(q)' <=> Replaced(q)) /\ (Taking(q)' <=> Taking(q))
    BY <1>1 DEF Replaced, Taking, Dialed
  <2>3. ObserverAgrees(p)'
    <3>1. ~Replaced(p) /\ StateLags(p, queue, from, state[p])
      BY <1>1, <2>1 DEF ObserverAgrees
    <3>2. StateLags(p, queue', to, state[p])
      <4>1. ASSUME NEW what \in Told, Tells(from, what, to), from # "refused",
                   queue' = Append(queue, Report(p, what))
            PROVE  StateLags(p, queue', to, state[p])
        BY <1>2, <3>1, <4>1, StateTold
      <4>2. CASE /\ (from = "dialing" /\ to \in {"up", "failed"}) \/ (from = "live" /\ to = "down")
                 /\ queue' = queue
        <5>1. Orderly(queue, Outgoing(p), to)
          BY <3>1, <4>2, QuietStep DEF StateLags
        <5> QED BY <3>1, <4>2, <5>1 DEF StateLags
      <4> QED BY <4>1, <4>2
    <3> QED BY <1>1, <1>3, <2>2, <3>1, <3>2 DEF ObserverAgrees
  <2>4. ASSUME NEW q \in Peers \ {p} PROVE ObserverAgrees(q)'
    <3>1. \A a, b \in Told : Report(p, a) # Report(q, b)
      BY OutgoingIsReport
    <3> QED BY <1>1, <1>2, <1>3, <1>4, <2>1, <2>2, <3>1, ObserverKept
  <2>5. \A q \in Peers : RowAgrees(q)' /\ ShownAgrees(q)'
    BY <1>1, <2>1, <2>2, RowKept
  <2> QED BY <2>3, <2>4, <2>5
<1>7. ASSUME Running, listener = "accepting"
      PROVE  \A i \in Inbounds : InboundAgrees(i)'
  <2>1. \A i \in Inbounds : InboundAgrees(i)
    BY <1>7 DEF MacInvariant
  <2>2. \A i : \A a, b \in Told : Report(p, a) # InboundReport(i, b)
    BY OutgoingIsNotIncoming
  <2> QED BY <1>1, <1>2, <1>4, <2>1, <2>2, InboundKept
<1>8. (Running' <=> Running) /\ listener' = listener
  BY <1>1 DEF Running
<1> QED BY <1>5, <1>6, <1>7, <1>8 DEF MacInvariant

\* Time passes for a dial.
LEMMA TimeKeeps ==
  ASSUME MacSessionsAssumption, MacInvariant, NEW p \in Peers, TimePasses(p)
  PROVE  MacInvariant'
<1>1. /\ elapsed' = [elapsed EXCEPT ![p] = elapsed[p] + 1] /\ elapsed[p] # Budget
      /\ UNCHANGED <<phase, reg, screens, row, shown, state, out, connecting, joining, known,
                     inbound, listener, queue>>
  BY DEF TimePasses, Late, netVars, rowVars, keptVars, inVars
<1>2. TypeOK
  BY DEF MacInvariant
<1>3. elapsed' \in [Peers -> 0 .. Budget]
  <2>1. elapsed \in [Peers -> 0 .. Budget]
    BY <1>2 DEF TypeOK
  <2>2. elapsed[p] + 1 \in 0 .. Budget
    BY <1>1, <2>1 DEF Budget
  <2> QED BY <1>1, <2>1, <2>2
<1>4. \A q \in Peers : /\ ObserverAgrees(q) => ObserverAgrees(q)'
                       /\ RowAgrees(q) => RowAgrees(q)'
                       /\ ShownAgrees(q) => ShownAgrees(q)'
  BY <1>1 DEF ObserverAgrees, RowAgrees, ShownAgrees, Replaced, Taking, Dialed
<1>5. \A i \in Inbounds : InboundAgrees(i) => InboundAgrees(i)'
  BY <1>1 DEF InboundAgrees
<1>6. TypeOK'
  BY <1>1, <1>2, <1>3 DEF TypeOK
<1> QED BY <1>1, <1>4, <1>5, <1>6 DEF MacInvariant, Running

\* Every step of an observer.
LEMMA MacObserverKeeps ==
  ASSUME MacSessionsAssumption, MacInvariant, NEW p \in Peers, Observer(p)
  PROVE  MacInvariant'
<1>1. {"up", "live", "down", "failed", "done"} \subseteq Observing
  BY DEF Observing
<1>2. CASE Establishes(p) \/ SetupFails(p) \/ Closes(p) \/ TimesOut(p)
  <2>1. /\ queue' = queue
        /\ \/ Observes(p, "dialing", "up") \/ Observes(p, "dialing", "failed")
           \/ Observes(p, "live", "down")
    BY <1>2 DEF Establishes, SetupFails, Closes, TimesOut
  <2>2. CASE Observes(p, "dialing", "up")
    BY <1>1, <2>1, <2>2, ObservesKeeps
  <2>3. CASE Observes(p, "dialing", "failed")
    BY <1>1, <2>1, <2>3, ObservesKeeps
  <2>4. CASE Observes(p, "live", "down")
    BY <1>1, <2>1, <2>4, ObservesKeeps
  <2> QED BY <2>1, <2>2, <2>3, <2>4
<1>3. CASE TimePasses(p)
  BY <1>3, TimeKeeps
<1>4. CASE ObserverReports(p)
  <2>1. Room
    BY <1>4 DEF ObserverReports
  <2>2. CASE Observes(p, "up", "live") /\ queue' = Append(queue, Report(p, "Connected"))
    <3>1. Tells("up", "Connected", "live") /\ "Connected" \in Told
      BY DEF Tells, Told
    <3> QED BY <1>1, <2>1, <2>2, <3>1, ObservesKeeps
  <2>3. CASE Observes(p, "down", "done") /\ queue' = Append(queue, Report(p, "Disconnected"))
    <3>1. Tells("down", "Disconnected", "done") /\ "Disconnected" \in Told
      BY DEF Tells, Told
    <3> QED BY <1>1, <2>1, <2>3, <3>1, ObservesKeeps
  <2>4. CASE Observes(p, "failed", "done") /\ queue' = Append(queue, Report(p, "Failed"))
    <3>1. Tells("failed", "Failed", "done") /\ "Failed" \in Told
      BY DEF Tells, Told
    <3> QED BY <1>1, <2>1, <2>4, <3>1, ObservesKeeps
  <2> QED BY <1>4, <2>2, <2>3, <2>4 DEF ObserverReports
<1> QED BY <1>2, <1>3, <1>4 DEF Observer

\* A step of the listener or of an inbound session: what is left is its own part.
LEMMA InputKeeps ==
  ASSUME MacSessionsAssumption, MacInvariant,
         UNCHANGED <<netVars, rowVars, dialVars, keptVars, known>>,
         inbound' \in [Inbounds -> Tasks], listener' \in {"accepting", "stopped", "done"},
         \/ queue' = queue
         \/ \E e \in Reports : e.from # "outbound" /\ Room /\ queue' = Append(queue, e),
         Running /\ listener' = "accepting" => \A i \in Inbounds : InboundAgrees(i)'
  PROVE  MacInvariant'
<1>1. UNCHANGED <<phase, reg, screens, row, shown, state, out, elapsed, connecting, joining, known>>
  BY DEF netVars, rowVars, dialVars, keptVars
<1>2. TypeOK /\ queue \in Seq(Reports)
  BY MacTypes DEF MacInvariant
<1>3. queue' \in Seq(Reports) /\ Len(queue') <= QueueCap
  <2>1. ASSUME NEW e \in Reports, Room, queue' = Append(queue, e)
        PROVE  queue' \in Seq(Reports) /\ Len(queue') <= QueueCap
    <3>1. queue' \in Seq(Reports) /\ Len(queue') = Len(queue) + 1 /\ Len(queue) \in Nat
      BY <1>2, <2>1, AppendAdds
    <3> QED BY <2>1, <3>1 DEF Room, MacSessionsAssumption
  <2> QED BY <1>2, <2>1 DEF TypeOK
<1>4. TypeOK'
  BY <1>1, <1>2, <1>3 DEF TypeOK
<1>5. ASSUME Running
      PROVE  \A p \in Peers : ObserverAgrees(p)' /\ RowAgrees(p)' /\ ShownAgrees(p)'
  <2>1. \A p \in Peers : ObserverAgrees(p) /\ RowAgrees(p) /\ ShownAgrees(p)
    BY <1>5 DEF MacInvariant
  <2>2. \A p : (Replaced(p)' <=> Replaced(p)) /\ (Taking(p)' <=> Taking(p))
    BY <1>1 DEF Replaced, Taking, Dialed
  <2>3. \A p \in Peers : ObserverAgrees(p)'
    <3>1. \A p : \A a \in Told : Report(p, a).from = "outbound"
      BY DEF Report
    <3>2. \/ queue' = queue
          \/ \E e \in Reports : (\A p : \A a \in Told : e # Report(p, a)) /\ queue' = Append(queue, e)
      BY <3>1
    <3> QED BY <1>1, <1>2, <2>1, <2>2, <3>2, ObserverKept
  <2>4. \A p \in Peers : RowAgrees(p)' /\ ShownAgrees(p)'
    BY <1>1, <2>1, <2>2, RowKept
  <2> QED BY <2>3, <2>4
<1> QED BY <1>1, <1>4, <1>5 DEF MacInvariant, Running

\* A step of an inbound session, with what it tells.
LEMMA ServesKeeps ==
  ASSUME MacSessionsAssumption, MacInvariant, NEW i \in Inbounds, NEW from, NEW to \in Tasks,
         Serves(i, from, to), from # "done",
         \/ from \notin {"live", "down"} /\ to # "done" /\ to \notin {"live", "down"} /\ queue' = queue
         \/ from = "live" /\ to = "down" /\ queue' = queue
         \/ \E what \in Told : /\ Tells(from, what, to) /\ Room
                               /\ queue' = Append(queue, InboundReport(i, what))
  PROVE  MacInvariant'
<1>1. /\ inbound[i] = from /\ inbound' = [inbound EXCEPT ![i] = to]
      /\ UNCHANGED <<netVars, rowVars, dialVars, keptVars, known, listener>>
  BY DEF Serves
<1>2. TypeOK /\ queue \in Seq(Reports) /\ inbound \in [Inbounds -> Tasks]
      /\ listener \in {"accepting", "stopped", "done"}
  BY MacTypes DEF MacInvariant, TypeOK
<1>3. /\ inbound' \in [Inbounds -> Tasks] /\ inbound'[i] = to
      /\ \A j \in Inbounds \ {i} : inbound'[j] = inbound[j]
  BY <1>1, <1>2
<1>4. \/ queue' = queue
      \/ \E a \in Told : /\ InboundReport(i, a) \in Reports /\ InboundReport(i, a).from # "outbound"
                         /\ Room /\ queue' = Append(queue, InboundReport(i, a))
  BY IncomingIsReport
<1>5. ASSUME Running, listener = "accepting"
      PROVE  \A j \in Inbounds : InboundAgrees(j)'
  <2>1. \A j \in Inbounds : InboundAgrees(j)
    BY <1>5 DEF MacInvariant
  <2>2. InboundAgrees(i)'
    <3>1. KnownLags(i, queue, from, known)
      BY <1>1, <2>1 DEF InboundAgrees
    <3>2. KnownLags(i, queue', to, known)
      <4>1. ASSUME NEW what \in Told, Tells(from, what, to), queue' = Append(queue, InboundReport(i, what))
            PROVE  KnownLags(i, queue', to, known)
        BY <1>2, <3>1, <4>1, KnownTold
      <4>2. ASSUME queue' = queue, to # "done", from \in {"live", "down"} <=> to \in {"live", "down"}
            PROVE  KnownLags(i, queue', to, known)
        <5>1. Orderly(queue, Incoming(i), to)
          BY <3>1, <4>2, QuietStep DEF KnownLags
        <5> QED BY <3>1, <4>2, <5>1 DEF KnownLags
      <4> QED BY <4>1, <4>2
    <3> QED BY <1>1, <1>3, <3>2 DEF InboundAgrees
  <2>3. ASSUME NEW j \in Inbounds \ {i} PROVE InboundAgrees(j)'
    <3>1. \A a, b \in Told : InboundReport(i, a) # InboundReport(j, b)
      BY IncomingIsReport
    <3> QED BY <1>1, <1>2, <1>3, <1>4, <2>1, <3>1, InboundKept
  <2> QED BY <2>2, <2>3
<1>6. listener' = listener
  BY <1>1
<1>7. \/ queue' = queue
      \/ \E e \in Reports : e.from # "outbound" /\ Room /\ queue' = Append(queue, e)
  BY <1>4
<1> QED BY <1>1, <1>2, <1>3, <1>5, <1>6, <1>7, InputKeeps

\* Every step of an inbound session.
LEMMA MacInboundKeeps ==
  ASSUME MacSessionsAssumption, MacInvariant, NEW i \in Inbounds,
         Accepts(i) \/ Authorizes(i) \/ InboundEnds(i) \/ InboundReports(i)
  PROVE  MacInvariant'
<1>1. {"accepting", "up", "live", "down", "refused", "done"} \subseteq Tasks
  BY DEF Tasks
<1>2. CASE Accepts(i)
  <2>1. Serves(i, "idle", "accepting") /\ queue' = queue
    BY <1>2 DEF Accepts
  <2> QED BY <1>1, <2>1, ServesKeeps
<1>3. CASE Authorizes(i)
  <2>1. queue' = queue /\ (Serves(i, "accepting", "up") \/ Serves(i, "accepting", "refused"))
    BY <1>3 DEF Authorizes
  <2>2. CASE Serves(i, "accepting", "up")
    BY <1>1, <2>1, <2>2, ServesKeeps
  <2>3. CASE Serves(i, "accepting", "refused")
    BY <1>1, <2>1, <2>3, ServesKeeps
  <2> QED BY <2>1, <2>2, <2>3
<1>4. CASE InboundEnds(i)
  <2>1. Serves(i, "live", "down") /\ queue' = queue
    BY <1>4 DEF InboundEnds
  <2> QED BY <1>1, <2>1, ServesKeeps
<1>5. CASE InboundReports(i)
  <2>1. Room
    BY <1>5 DEF InboundReports
  <2>2. CASE Serves(i, "up", "live") /\ queue' = Append(queue, InboundReport(i, "Connected"))
    <3>1. Tells("up", "Connected", "live") /\ "Connected" \in Told
      BY DEF Tells, Told
    <3> QED BY <1>1, <2>1, <2>2, <3>1, ServesKeeps
  <2>3. CASE Serves(i, "down", "done") /\ queue' = Append(queue, InboundReport(i, "Disconnected"))
    <3>1. Tells("down", "Disconnected", "done") /\ "Disconnected" \in Told
      BY DEF Tells, Told
    <3> QED BY <1>1, <2>1, <2>3, <3>1, ServesKeeps
  <2>4. CASE Serves(i, "refused", "done") /\ queue' = Append(queue, InboundReport(i, "Failed"))
    <3>1. Tells("refused", "Failed", "done") /\ "Failed" \in Told
      BY DEF Tells, Told
    <3> QED BY <1>1, <2>1, <2>4, <3>1, ServesKeeps
  <2> QED BY <1>5, <2>2, <2>3, <2>4 DEF InboundReports
<1> QED BY <1>2, <1>3, <1>4, <1>5

\* Every step of the listener.
LEMMA MacListenerKeeps ==
  ASSUME MacSessionsAssumption, MacInvariant, Listener
  PROVE  MacInvariant'
<1>1. TypeOK /\ inbound \in [Inbounds -> Tasks] /\ "done" \in Tasks
  BY DEF MacInvariant, TypeOK, Tasks
<1>2. CASE ListenerEnds \/ ListenerShutDown
  <2>1. /\ inbound' = [j \in Inbounds |-> "done"] /\ listener' \in {"stopped", "done"} /\ queue' = queue
        /\ UNCHANGED <<netVars, rowVars, dialVars, keptVars, known>>
    BY <1>2 DEF ListenerEnds, ListenerShutDown, Listens, AllAborted
  <2>2. inbound' \in [Inbounds -> Tasks]
    BY <1>1, <2>1
  <2> QED BY <2>1, <2>2, InputKeeps
<1>3. CASE ListenerReports
  <2>1. /\ Room /\ listener' = "done" /\ inbound' = inbound /\ queue' = Append(queue, ListenerStopped)
        /\ UNCHANGED <<netVars, rowVars, dialVars, keptVars, known>>
    BY <1>3 DEF ListenerReports, Listens
  <2>2. ListenerStopped \in Reports /\ ListenerStopped.from # "outbound"
    BY DEF ListenerStopped, Reports
  <2> QED BY <1>1, <2>1, <2>2, InputKeeps
<1>4. CASE \E i \in Inbounds : Accepts(i) \/ Authorizes(i) \/ InboundEnds(i) \/ InboundReports(i)
  BY <1>4, MacInboundKeeps
<1> QED BY <1>2, <1>3, <1>4 DEF Listener

-----------------------------------------------------------------------------
(* The loop of macOS takes a report.                                       *)

\* A current report says what its peer has come to, and the row follows it.
LEMMA CurrentReportKeeps ==
  ASSUME MacSessionsAssumption, MacInvariant, Idle, NEW p \in Peers, NEW a \in Told, queue # <<>>,
         Head(queue) = Report(p, a), queue' = Tail(queue), state' = [state EXCEPT ![p] = a],
         IF ~row[p].current THEN UNCHANGED rowVars
         ELSE IF row[p].discovered \/ Active(a) THEN Put(p, [row[p] EXCEPT !.session = a])
              ELSE Remove(p, a),
         UNCHANGED <<netVars, out, elapsed, keptVars, inVars>>
  PROVE  MacInvariant'
<1>1. /\ TypeOK /\ Running /\ connecting = Nobody /\ ~joining /\ queue \in Seq(Reports)
      /\ UNCHANGED <<phase, reg, screens, out, elapsed, connecting, joining, known, inbound, listener>>
  BY MacTypes DEF Idle, MacInvariant, netVars, keptVars, inVars
<1>2. /\ \A q \in Peers : ObserverAgrees(q) /\ RowAgrees(q) /\ ShownAgrees(q)
      /\ listener = "accepting" => \A i \in Inbounds : InboundAgrees(i)
  BY <1>1 DEF MacInvariant
<1>3. \A q : ~Replaced(q) /\ ~Replaced(q)' /\ ~Taking(q)
  BY <1>1 DEF Replaced, Taking
<1>4. a \in Phases /\ (Active(a) <=> a = "Connected")
  BY DEF Told, Phases, Active
<1>5. state' \in [Peers -> Phases] /\ state'[p] = a /\ \A q \in Peers \ {p} : state'[q] = state[q]
  <2>1. state \in [Peers -> Phases]
    BY <1>1 DEF TypeOK
  <2> QED BY <1>4, <2>1
<1>6. \A q \in Peers : ObserverAgrees(q)'
  <2>1. StateLags(p, queue', out[p].task, a)
    <3>1. StateLags(p, queue, out[p].task, state[p])
      BY <1>2, <1>3 DEF ObserverAgrees
    <3> QED BY <1>1, <3>1, StateRead
  <2>2. ASSUME NEW q \in Peers \ {p} PROVE StateLags(q, queue', out[q].task, state[q])
    <3>1. StateLags(q, queue, out[q].task, state[q])
      BY <1>2, <1>3 DEF ObserverAgrees
    <3>2. \A b \in Told : Head(queue) # Report(q, b)
      BY OutgoingIsReport
    <3> QED BY <1>1, <3>1, <3>2, StateUnread
  <2> QED BY <1>1, <1>3, <1>5, <2>1, <2>2 DEF ObserverAgrees
<1>7. listener' = "accepting" => \A i \in Inbounds : InboundAgrees(i)'
  <2>1. ASSUME NEW i \in Inbounds, InboundAgrees(i) PROVE InboundAgrees(i)'
    <3>1. \A b \in Told : Head(queue) # InboundReport(i, b)
      BY OutgoingIsNotIncoming
    <3>2. KnownLags(i, queue, inbound[i], known)
      BY <2>1 DEF InboundAgrees
    <3>3. KnownLags(i, queue', inbound[i], known)
      BY <1>1, <3>1, <3>2, KnownUnread
    <3> QED BY <1>1, <3>3 DEF InboundAgrees
  <2> QED BY <1>1, <1>2, <2>1
<1> DEFINE Typed == /\ row' \in [Peers -> Rows]
                    /\ shown' \in [Peers -> [discovered : BOOLEAN, session : Phases]]
<1>8. Typed /\ \A q \in Peers : RowAgrees(q)' /\ ShownAgrees(q)'
  <2>1. row[p] \in Rows /\ RowAgrees(p) /\ ShownAgrees(p)
    BY <1>1, <1>2, MacTypes
  <2>2. CASE ~row[p].current
    <3>1. row' = row /\ shown' = shown
      BY <2>2 DEF rowVars
    <3>2. RowAgrees(p)' /\ ShownAgrees(p)'
      <4>1. RowAgrees(p)'
        BY <1>1, <1>3, <2>1, <2>2, <3>1 DEF RowAgrees, Active, Visible, NoRow
      <4> QED BY <1>1, <2>1, <3>1, <4>1 DEF ShownAgrees, Visible, Active, NoRow, NoShown
    <3>3. \A q \in Peers \ {p} : RowAgrees(q)' /\ ShownAgrees(q)'
      BY <1>1, <1>2, <1>3, <1>5, <3>1, RowKept
    <3> QED BY <1>1, <3>1, <3>2, <3>3 DEF TypeOK
  <2>3. CASE row[p].current /\ (row[p].discovered \/ Active(a))
    <3> DEFINE r == [row[p] EXCEPT !.session = a]
    <3>1. /\ r \in Rows /\ r.discovered = row[p].discovered /\ r.session = a /\ r.current
      BY <1>4, <2>1, <2>3 DEF Rows
    <3>2. Put(p, r)
      BY <2>3
    <3> HIDE DEF r
    <3>3. /\ row' \in [Peers -> Rows] /\ row'[p] = r /\ ShownAgrees(p)'
          /\ shown' \in [Peers -> [discovered : BOOLEAN, session : Phases]]
          /\ \A q \in Peers \ {p} : row'[q] = row[q] /\ shown'[q] = shown[q]
      BY <1>1, <3>1, <3>2, PutRow
    <3>4. RowAgrees(p)'
      BY <1>1, <1>3, <1>5, <2>1, <2>3, <3>1, <3>3 DEF RowAgrees, Visible
    <3>5. \A q \in Peers \ {p} : RowAgrees(q)' /\ ShownAgrees(q)'
      BY <1>1, <1>2, <1>3, <1>5, <3>3, RowKept
    <3> QED BY <3>3, <3>4, <3>5
  <2>4. CASE row[p].current /\ ~(row[p].discovered \/ Active(a))
    <3>1. Remove(p, a)
      BY <2>4
    <3>2. /\ row' \in [Peers -> Rows] /\ row'[p] = NoRow /\ ShownAgrees(p)'
          /\ shown' \in [Peers -> [discovered : BOOLEAN, session : Phases]]
          /\ \A q \in Peers \ {p} : row'[q] = row[q] /\ shown'[q] = shown[q]
      BY <1>1, <1>4, <2>4, <3>1, RemoveRow
    <3>3. RowAgrees(p)'
      BY <1>1, <1>3, <2>1, <2>4, <3>2 DEF RowAgrees, Active, NoRow
    <3>4. \A q \in Peers \ {p} : RowAgrees(q)' /\ ShownAgrees(q)'
      BY <1>1, <1>2, <1>3, <1>5, <3>2, RowKept
    <3> QED BY <3>2, <3>3, <3>4
  <2> QED BY <2>2, <2>3, <2>4
<1>9. queue' \in Seq(Reports) /\ Len(queue') <= QueueCap
  BY <1>1, TailShifts DEF TypeOK, MacSessionsAssumption
<1> QED BY <1>1, <1>5, <1>6, <1>7, <1>8, <1>9 DEF MacInvariant, TypeOK

\* Any other report leaves the peers alone.
LEMMA OtherReportKeeps ==
  ASSUME MacSessionsAssumption, MacInvariant, Idle, queue # <<>>, queue' = Tail(queue),
         \A p \in Peers, a \in Told : Head(queue) # Report(p, a),
         UNCHANGED <<netVars, rowVars, state, out, elapsed, keptVars, inbound, listener>>,
         known' \subseteq Inbounds, \A i \in Inbounds : InboundAgrees(i) => InboundAgrees(i)'
  PROVE  MacInvariant'
<1>1. /\ TypeOK /\ Running /\ ~joining /\ queue \in Seq(Reports)
      /\ UNCHANGED <<phase, reg, screens, row, shown, state, out, elapsed, connecting, joining,
                     inbound, listener>>
  BY MacTypes DEF Idle, MacInvariant, netVars, rowVars, keptVars
<1>2. /\ \A q \in Peers : ObserverAgrees(q) /\ RowAgrees(q) /\ ShownAgrees(q)
      /\ listener = "accepting" => \A i \in Inbounds : InboundAgrees(i)
  BY <1>1 DEF MacInvariant
<1>3. ASSUME NEW q \in Peers PROVE ObserverAgrees(q)'
  <2>1. StateLags(q, queue, out[q].task, state[q])
    BY <1>1, <1>2 DEF ObserverAgrees, Replaced
  <2>2. StateLags(q, queue', out[q].task, state[q])
    BY <1>1, <2>1, StateUnread
  <2> QED BY <1>1, <2>2 DEF ObserverAgrees, Replaced
<1>4. \A q \in Peers : RowAgrees(q)' /\ ShownAgrees(q)'
  <2>1. \A q : Taking(q)' <=> Taking(q)
    BY <1>1 DEF Taking, Dialed
  <2> QED BY <1>1, <1>2, <2>1, RowKept
<1>5. queue' \in Seq(Reports) /\ Len(queue') <= QueueCap
  BY <1>1, TailShifts DEF TypeOK, MacSessionsAssumption
<1> QED BY <1>1, <1>2, <1>3, <1>4, <1>5 DEF MacInvariant, TypeOK

\* The loop takes the report at the head of the queue.
LEMMA MacReceiveKeeps ==
  ASSUME MacSessionsAssumption, MacInvariant, Receive
  PROVE  MacInvariant'
<1> DEFINE e == Head(queue)
<1>1. /\ TypeOK /\ Idle /\ queue # <<>> /\ queue' = Tail(queue) /\ queue \in Seq(Reports)
      /\ UNCHANGED <<netVars, out, elapsed, keptVars, inbound, listener>>
      /\ OnOutbound(e) \/ OnInbound(e) \/ OnListenerStopped(e)
  BY MacTypes DEF Receive, MacInvariant
<1>2. e \in Reports
  BY <1>1, TailShifts
<1>3. known \subseteq Inbounds
  BY <1>1 DEF TypeOK
<1> HIDE DEF e
<1>4. ASSUME NEW i \in Inbounds, InboundAgrees(i), \A b \in Told : e # InboundReport(i, b),
             i \in known' <=> i \in known
      PROVE  InboundAgrees(i)'
  <2>1. KnownLags(i, queue, inbound[i], known)
    BY <1>4 DEF InboundAgrees
  <2>2. KnownLags(i, queue', inbound[i], known)
    BY <1>1, <1>4, <2>1, KnownUnread DEF e
  <2> QED BY <1>1, <1>4, <2>2 DEF InboundAgrees, KnownLags
<1>5. CASE OnOutbound(e) /\ e.current
  <2>1. e.peer \in Peers /\ e.phase \in Told /\ e = Report(e.peer, e.phase)
    BY <1>2, <1>5, KindsOfInput DEF OnOutbound
  <2>2. PICK p \in Peers, a \in Told : p = e.peer /\ a = e.phase /\ e = Report(p, a)
    BY <2>1
  <2>3. /\ state' = [state EXCEPT ![p] = a] /\ known' = known
        /\ IF ~row[p].current THEN UNCHANGED rowVars
           ELSE IF row[p].discovered \/ Active(a) THEN Put(p, [row[p] EXCEPT !.session = a])
                ELSE Remove(p, a)
    BY <1>5, <2>2 DEF OnOutbound
  <2>4. UNCHANGED <<netVars, out, elapsed, keptVars, inVars>>
    BY <1>1, <2>3 DEF inVars
  <2> QED BY <1>1, <2>2, <2>3, <2>4, CurrentReportKeeps DEF e
<1>6. CASE (OnOutbound(e) /\ ~e.current) \/ OnListenerStopped(e)
  <2>1. known' = known /\ UNCHANGED <<state, rowVars>> /\ e.from \in {"outbound", "listener"}
    BY <1>6 DEF OnOutbound, OnListenerStopped
  <2>2. \A p \in Peers, a \in Told : e # Report(p, a)
    BY <1>6 DEF Report, OnListenerStopped
  <2>3. \A i : \A b \in Told : e # InboundReport(i, b)
    BY <2>1 DEF InboundReport
  <2> QED BY <1>1, <1>3, <1>4, <2>1, <2>2, <2>3, OtherReportKeeps DEF e
<1>7. CASE OnInbound(e)
  <2>1. e.id \in Inbounds /\ e.phase \in Told /\ e = InboundReport(e.id, e.phase)
    BY <1>2, <1>7, KindsOfInput DEF OnInbound
  <2>2. PICK i \in Inbounds, a \in Told : i = e.id /\ a = e.phase /\ e = InboundReport(i, a)
    BY <2>1
  <2>3. /\ known' = IF a = "Connected" THEN known \cup {i} ELSE known \ {i}
        /\ UNCHANGED <<state, rowVars>>
    BY <1>7, <2>2 DEF OnInbound
  <2>4. \A p \in Peers, b \in Told : e # Report(p, b)
    BY <2>2, OutgoingIsNotIncoming
  <2>5. ASSUME InboundAgrees(i) PROVE InboundAgrees(i)'
    <3>1. KnownLags(i, queue, inbound[i], known)
      BY <2>5 DEF InboundAgrees
    <3>2. KnownLags(i, queue', inbound[i], known')
      BY <1>1, <2>2, <2>3, <3>1, KnownRead DEF e
    <3> QED BY <1>1, <3>2 DEF InboundAgrees
  <2>6. ASSUME NEW j \in Inbounds \ {i}, InboundAgrees(j) PROVE InboundAgrees(j)'
    <3>1. \A b \in Told : e # InboundReport(j, b)
      BY <2>2, IncomingIsReport
    <3> QED BY <1>4, <2>3, <2>6, <3>1
  <2> QED BY <1>1, <1>3, <2>3, <2>4, <2>5, <2>6, OtherReportKeeps DEF e
<1> QED BY <1>1, <1>5, <1>6, <1>7

-----------------------------------------------------------------------------
(* The end of the services of macOS.                                       *)

\* Once they stop, only the types are kept.
LEMMA MacStopKeeps ==
  ASSUME MacSessionsAssumption, MacInvariant, Stop \/ DropConnecting \/ Closed
  PROVE  MacInvariant'
<1>1. TypeOK
  BY DEF MacInvariant
<1>2. ~Running'
  BY DEF Running, Stop, DropConnecting, Closed, netVars
<1>3. CASE Stop
  BY <1>1, <1>2, <1>3 DEF Stop, TypeOK, MacInvariant, rowVars, dialVars, keptVars, inVars
<1>4. CASE DropConnecting
  BY <1>1, <1>2, <1>4 DEF DropConnecting, TypeOK, MacInvariant, netVars, rowVars, dialVars, inVars
<1>5. CASE Closed
  <2>1. /\ phase' = "closed" /\ queue' = <<>> /\ known' = {}
        /\ shown' = [p \in Peers |-> NoShown] /\ screens' = [p \in Peers |-> "none"]
        /\ UNCHANGED <<reg, row, state, out, elapsed, connecting, joining, inbound, listener>>
    BY <1>5 DEF Closed, dialVars, keptVars
  <2>2. NoShown \in [discovered : BOOLEAN, session : Phases]
    BY DEF NoShown, Phases
  <2>3. queue' \in Seq(Reports) /\ Len(queue') <= QueueCap
    BY <2>1 DEF MacSessionsAssumption
  <2>4. /\ shown' \in [Peers -> [discovered : BOOLEAN, session : Phases]]
        /\ screens' \in [Peers -> {"none", "Available", "Withdrawn"}]
    BY <2>1, <2>2
  <2> QED BY <1>1, <1>2, <2>1, <2>3, <2>4 DEF TypeOK, MacInvariant
<1> QED BY <1>3, <1>4, <1>5

\* The shutdown takes a connection down.
LEMMA MacStopOutboundKeeps ==
  ASSUME MacSessionsAssumption, MacInvariant, NEW p \in Peers, StopOutbound(p)
  PROVE  MacInvariant'
<1>1. /\ TypeOK /\ queue \in Seq(Reports) /\ ~Running' /\ ObserverAborted(p)
      /\ out' = [out EXCEPT ![p] = NoOut] /\ state' = [state EXCEPT ![p] = "none"]
      /\ UNCHANGED <<phase, reg, screens, row, shown, elapsed, connecting, joining, known, inbound,
                     listener>>
  BY MacTypes DEF MacInvariant, StopOutbound, Running, netVars, rowVars, keptVars, inVars
<1>2. queue' \in Seq(Reports) /\ Len(queue') <= QueueCap
  BY <1>1, AbortedSays DEF TypeOK, MacSessionsAssumption
<1>3. /\ out' \in [Peers -> [task : Observing, ident : Identities \cup {"none"}]]
      /\ state' \in [Peers -> Phases]
  <2>1. NoOut \in [task : Observing, ident : Identities \cup {"none"}] /\ "none" \in Phases
    BY DEF NoOut, Observing, Phases
  <2>2. /\ out \in [Peers -> [task : Observing, ident : Identities \cup {"none"}]]
        /\ state \in [Peers -> Phases]
    BY <1>1 DEF TypeOK
  <2> QED BY <1>1, <2>1, <2>2
<1> QED BY <1>1, <1>2, <1>3 DEF MacInvariant, TypeOK

-----------------------------------------------------------------------------
(* The invariant of macOS, and what follows from it.                       *)

\* The invariant holds at the start.
LEMMA MacInit ==
  ASSUME MacSessionsAssumption, Init
  PROVE  MacInvariant
<1>1. /\ \A a : \A says : ~Says(queue, says, a)
      /\ queue = <<>> /\ queue \in Seq(Reports) /\ Len(queue) = 0 /\ Len(queue) <= QueueCap
  BY DEF Init, Says, MacSessionsAssumption
<1>2. TypeOK
  <2>1. NoRow \in Rows /\ NoShown \in [discovered : BOOLEAN, session : Phases] /\ "none" \in Phases
    BY DEF NoRow, NoShown, Rows, Phases
  <2>2. NoOut \in [task : Observing, ident : Identities \cup {"none"}] /\ "idle" \in Tasks
    BY DEF NoOut, Observing, Tasks
  <2>3. 0 \in 0 .. Budget
    BY DEF Budget
  <2> QED BY <1>1, <2>1, <2>2, <2>3 DEF Init, TypeOK
<1>3. ASSUME NEW p \in Peers PROVE ObserverAgrees(p) /\ RowAgrees(p) /\ ShownAgrees(p)
  <2>1. out[p].task = "none" /\ state[p] = "none" /\ ~Replaced(p)
    BY DEF Init, NoOut, Replaced
  <2>2. StateLags(p, queue, "none", "none")
    <3>1. Orderly(queue, Outgoing(p), "none")
      BY <1>1, SilenceIsOrderly
    <3> QED BY <3>1 DEF StateLags
  <2>3. ObserverAgrees(p)
    BY <2>1, <2>2 DEF ObserverAgrees
  <2>4. row[p] = NoRow /\ shown[p] = NoShown /\ reg[p] = "none"
    BY DEF Init
  <2> QED BY <2>3, <2>4 DEF RowAgrees, ShownAgrees, NoRow, Active
<1>4. ASSUME NEW i \in Inbounds PROVE InboundAgrees(i)
  <2>1. inbound[i] = "idle" /\ known = {}
    BY DEF Init
  <2>2. Orderly(queue, Incoming(i), "idle")
    BY <1>1, SilenceIsOrderly
  <2> QED BY <2>1, <2>2 DEF InboundAgrees, KnownLags
<1> QED BY <1>2, <1>3, <1>4 DEF MacInvariant

\* Nothing moves.
LEMMA MacStays ==
  ASSUME MacInvariant, UNCHANGED vars
  PROVE  MacInvariant'
<1>1. UNCHANGED <<phase, reg, screens, row, shown, state, out, elapsed, connecting, joining, known,
                  inbound, listener, queue>>
  BY DEF vars, netVars, rowVars, dialVars, keptVars, inVars
<1>2. TypeOK'
  BY <1>1 DEF MacInvariant, TypeOK
<1>3. \A p \in Peers : /\ ObserverAgrees(p) => ObserverAgrees(p)'
                       /\ RowAgrees(p) => RowAgrees(p)'
                       /\ ShownAgrees(p) => ShownAgrees(p)'
  BY <1>1 DEF ObserverAgrees, RowAgrees, ShownAgrees, Replaced, Taking, Dialed
<1>4. \A i \in Inbounds : InboundAgrees(i) => InboundAgrees(i)'
  BY <1>1 DEF InboundAgrees
<1> QED BY <1>1, <1>2, <1>3, <1>4 DEF MacInvariant, Running

\* Every step of the macOS sessions keeps the invariant.
LEMMA MacKeeps ==
  ASSUME MacSessionsAssumption, MacInvariant, [Next]_vars
  PROVE  MacInvariant'
<1>1. ASSUME NEW p \in Peers, Network(p) \/ Observer(p) \/ StopOutbound(p) PROVE MacInvariant'
  BY <1>1, NetworkKeeps, MacObserverKeeps, MacStopOutboundKeeps
<1>2. ASSUME Connect PROVE MacInvariant'
  BY <1>2, ConnectKeptKeeps, ConnectReplacesKeeps, ConnectDialsKeeps DEF Connect
<1>3. ASSUME Listener PROVE MacInvariant'
  BY <1>3, MacListenerKeeps
<1>4. ASSUME Receive PROVE MacInvariant'
  BY <1>4, MacReceiveKeeps
<1>5. ASSUME Stop \/ DropConnecting \/ Closed PROVE MacInvariant'
  BY <1>5, MacStopKeeps
<1>6. ASSUME UNCHANGED vars PROVE MacInvariant'
  BY <1>6, MacStays
<1> QED BY <1>1, <1>2, <1>3, <1>4, <1>5, <1>6 DEF Next

\* What the invariant says of the records of a device.
LEMMA MacRowsFollow ==
  ASSUME MacSessionsAssumption, MacInvariant
  PROVE  RowsFollowTransport
<1>1. TypeOK
  BY DEF MacInvariant
<1>2. ASSUME Running, NEW p \in Peers
      PROVE  /\ row[p].current => \/ row[p].session = state[p]
                                  \/ row[p].session = "Connecting" /\ state[p] = "Connected"
             /\ Active(row[p].session) => row[p].current /\ Driven(p)
             /\ IF row[p] # NoRow
                THEN shown[p] = [discovered |-> row[p].discovered, session |-> row[p].session]
                ELSE shown[p] # NoShown => screens[p] = "Available" /\ ~shown[p].discovered
             /\ reg[p] # "none" /\ connecting.peer # p => row[p].discovered
  <2>1. ObserverAgrees(p) /\ RowAgrees(p) /\ ShownAgrees(p)
    BY <1>2 DEF MacInvariant
  <2>2. ASSUME Active(row[p].session) PROVE row[p].current /\ Driven(p)
    <3>1. row[p].current /\ state[p] \in {"Connecting", "Connected"}
      BY <2>1, <2>2 DEF RowAgrees, Active
    <3>2. CASE Replaced(p)
      BY <3>1, <3>2 DEF Replaced, Driven
    <3>3. CASE ~Replaced(p) /\ out[p].task = "done"
      <4>1. StateLags(p, queue, "done", state[p])
        BY <2>1, <3>3 DEF ObserverAgrees
      <4>2. \E a \in Told : Says(queue, Outgoing(p), a)
        BY <3>1, <4>1 DEF StateLags, Told
      <4>3. PICK a \in Told, i \in 1 .. Len(queue) : queue[i] = Outgoing(p)[a]
        BY <4>2 DEF Says
      <4>4. queue[i] = Report(p, a) /\ a \in Phases
        BY <4>3, OutgoingIsReport DEF Told, Phases
      <4> QED BY <3>1, <4>4 DEF Driven
    <3>4. CASE ~Replaced(p) /\ out[p].task # "done"
      <4>1. StateLags(p, queue, out[p].task, state[p]) /\ out[p].task \in Observing
        BY <1>1, <2>1, <3>4, MacTypes DEF ObserverAgrees
      <4>2. out[p].task # "none"
        BY <3>1, <4>1 DEF StateLags
      <4> QED BY <3>1, <3>4, <4>1, <4>2 DEF Driven, Observing
    <3> QED BY <3>2, <3>3, <3>4
  <2>3. reg[p] # "none" /\ connecting.peer # p => row[p].discovered
    BY <2>1 DEF RowAgrees, Taking, Dialed
  <2> QED BY <2>1, <2>2, <2>3 DEF RowAgrees, ShownAgrees, Visible
<1>3. ASSUME Running, queue = <<>>, listener = "accepting"
      PROVE  known = {i \in Inbounds : Serving(i)}
  <2>1. \A i, a : ~Says(queue, Incoming(i), a)
    BY <1>3 DEF Says
  <2>2. ASSUME NEW i \in Inbounds PROVE i \in known <=> Serving(i)
    <3>1. KnownLags(i, queue, inbound[i], known)
      BY <1>3 DEF MacInvariant, InboundAgrees
    <3> QED BY <2>1, <3>1 DEF KnownLags, Serving
  <2>3. known \subseteq Inbounds
    BY <1>1 DEF TypeOK
  <2> QED BY <2>2, <2>3
<1> QED BY <1>1, <1>2, <1>3 DEF RowsFollowTransport

\* The invariant holds in every state that the macOS sessions reach.
THEOREM MacInvariantHolds ==
  ASSUME MacSessionsAssumption
  PROVE  Spec => []MacInvariant
<1>1. Init => MacInvariant
  BY MacInit
<1>2. MacInvariant /\ [Next]_vars => MacInvariant'
  BY MacKeeps
<1> QED BY <1>1, <1>2, PTL DEF Spec

\* The rows of macOS follow the transport (RowsFollowTransport), whatever the
\* network, the observers, a full queue and a shutdown do.
THEOREM MacRowsFollowTransport ==
  ASSUME MacSessionsAssumption
  PROVE  Spec => []RowsFollowTransport
<1>1. MacInvariant => RowsFollowTransport
  BY MacRowsFollow
<1> QED BY <1>1, MacInvariantHolds, PTL

-----------------------------------------------------------------------------
(* macOS with steady identities: the row of a peer says what its state is. *)

\* What a step has to leave of a peer so that its row still agrees: what it sends
\* is no new Connected of that peer.
LEMMA SteadyKept ==
  ASSUME NEW p, SteadyRow(p), row'[p] = row[p], state'[p] = state[p],
         p \notin Dials => out'[p].task = "none",
         Taking(p)' => Taking(p), Replaced(p) => Replaced(p)',
         \/ Replaced(p)'
         \/ Says(queue', Outgoing(p), "Connected") => Says(queue, Outgoing(p), "Connected")
  PROVE  SteadyRow(p)'
<1>1. Outgoing(p)' = Outgoing(p)
  BY DEF Outgoing
<1> QED BY <1>1 DEF SteadyRow, Active

\* A queue to which a report was sent that does not say Connected of the peer.
LEMMA NotConnectedSaid ==
  ASSUME NEW p, queue \in Seq(Reports),
         \/ queue' = queue
         \/ \E e \in Reports : e # Report(p, "Connected") /\ queue' = Append(queue, e)
  PROVE  Says(queue', Outgoing(p), "Connected") <=> Says(queue, Outgoing(p), "Connected")
<1>1. Outgoing(p)["Connected"] = Report(p, "Connected")
  BY OutgoingIsReport DEF Told
<1>2. ASSUME NEW e \in Reports, e # Report(p, "Connected"), queue' = Append(queue, e)
      PROVE  Says(queue', Outgoing(p), "Connected") <=> Says(queue, Outgoing(p), "Connected")
  BY <1>1, <1>2, SaysAfterSend
<1> QED BY <1>2

\* What is known where the services run.
LEMMA SteadyParts ==
  ASSUME MacSessionsAssumption, MacInvariant, Running
  PROVE  /\ TypeOK /\ queue \in Seq(Reports)
         /\ \A q \in Peers : /\ ObserverAgrees(q) /\ RowAgrees(q) /\ row[q] \in Rows
                             /\ state[q] \in Phases /\ row[q].session \in Phases
         /\ connecting # Nobody => Dialed \in Dials /\ Dialed \in Peers
  BY MacTypes DEF MacInvariant, Rows, TypeOK, Dialed, MacSessionsAssumption

\* Advertisements and screens.  A dial is asked for where there is no session, or
\* one that is still to come up.
LEMMA SteadyNetwork ==
  ASSUME MacSessionsAssumption, MacInvariant, Running, \A q \in Peers : SteadyRow(q),
         \A q \in Peers : reg[q] \in {"none", "a"} /\ reg'[q] \in {"none", "a"},
         NEW p \in Peers, Network(p)
  PROVE  \A q \in Peers : SteadyRow(q)'
<1>1. Idle /\ UNCHANGED <<phase, dialVars, joining, inVars, queue>>
  BY DEF Network, Lost, Screen, Found, keptVars
<1>2. /\ TypeOK /\ connecting = Nobody /\ ~joining /\ UNCHANGED <<state, out, joining, queue>>
      /\ row[p] \in Rows /\ RowAgrees(p) /\ SteadyRow(p)
      /\ StateLags(p, queue, out[p].task, state[p])
      /\ reg \in [Peers -> Identities \cup {"none"}]
  BY <1>1, SteadyParts DEF Idle, dialVars, TypeOK, ObserverAgrees, Replaced
<1>3. \A q : ~Taking(q) /\ ~Replaced(q) /\ ~Replaced(q)'
  BY <1>2 DEF Taking, Replaced
<1>4. ASSUME NEW q \in Peers, row'[q] = row[q], ~Taking(q)' PROVE SteadyRow(q)'
  BY <1>2, <1>3, <1>4, SteadyKept DEF SteadyRow
<1>5. ASSUME row'[p].current => row'[p].session = state[p], Active(state[p]) => row'[p].current,
             Taking(p)' => state[p] # "Connected"
      PROVE  SteadyRow(p)'
  <2>1. Outgoing(p)' = Outgoing(p)
    BY DEF Outgoing
  <2> QED BY <1>2, <1>3, <1>5, <2>1 DEF SteadyRow, Active
<1>6. ASSUME NEW r \in Rows, Put(p, r), connecting' = connecting,
             r.current => r.session = state[p], Active(state[p]) => r.current
      PROVE  \A q \in Peers : SteadyRow(q)'
  <2>1. row'[p] = r /\ \A q \in Peers \ {p} : row'[q] = row[q]
    BY <1>2, <1>6, PutRow
  <2>2. \A q : ~Taking(q)'
    BY <1>2, <1>6 DEF Taking
  <2> QED BY <1>4, <1>5, <1>6, <2>1, <2>2
<1>7. CASE Lost(p)
  <2>1. connecting' = connecting
    BY <1>7 DEF Lost, keptVars
  <2>2. CASE Active(row[p].session)
    <3> DEFINE r == [row[p] EXCEPT !.discovered = FALSE]
    <3>1. r \in Rows /\ r.session = row[p].session /\ r.current = row[p].current
      BY <1>2 DEF Rows
    <3>2. Put(p, r)
      BY <1>7, <2>2 DEF Lost
    <3> HIDE DEF r
    <3> QED BY <1>2, <1>6, <2>1, <3>1, <3>2 DEF SteadyRow
  <2>3. CASE ~Active(row[p].session)
    <3>1. Remove(p, row[p].session)
      BY <1>7, <2>3 DEF Lost
    <3>2. row'[p] = NoRow /\ \A q \in Peers \ {p} : row'[q] = row[q]
      BY <1>2, <3>1, RemoveRow DEF Rows
    <3>3. ~Active(state[p])
      BY <1>2, <2>3 DEF SteadyRow
    <3>4. \A q : ~Taking(q)'
      BY <1>2, <2>1 DEF Taking
    <3> QED BY <1>4, <1>5, <3>2, <3>3, <3>4 DEF NoRow
  <2> QED BY <2>2, <2>3
<1>8. ASSUME NEW to, Screen(p, to) PROVE \A q \in Peers : SteadyRow(q)'
  <2>1. row' = row /\ connecting' = connecting
    BY <1>8 DEF Screen, keptVars
  <2>2. \A q : ~Taking(q)'
    BY <1>2, <2>1 DEF Taking
  <2> QED BY <1>4, <2>1, <2>2
<1>9. ASSUME NEW id \in Identities, NEW merged \in BOOLEAN, Found(p, id, merged)
      PROVE  \A q \in Peers : SteadyRow(q)'
  <2>1. reg' = [reg EXCEPT ![p] = id] /\ id # "none"
    BY <1>9 DEF Found, MacSessionsAssumption
  <2>2. id = "a" /\ reg[p] \in {"none", id}
    <3>1. reg'[p] = id
      BY <1>2, <2>1
    <3> QED BY <2>1, <3>1
  <2>3. CASE p \notin Dials
    <3> DEFINE r == [discovered |-> TRUE, session |-> "Waiting", current |-> FALSE]
    <3>1. r \in Rows /\ ~r.current
      BY DEF Rows, Phases
    <3>2. Put(p, r) /\ connecting' = connecting
      BY <1>9, <2>3 DEF Found
    <3>3. ~Active(state[p])
      BY <1>2, <2>3 DEF SteadyRow, StateLags, Active
    <3> QED BY <1>6, <3>1, <3>2, <3>3
  <2>4. CASE p \in Dials /\ ShouldConnect(p, id, merged)
    <3>1. connecting' = [peer |-> p, ident |-> id] /\ row' = row
      BY <1>9, <2>4 DEF Found, rowVars
    <3>2. state[p] # "Connected"
      BY <1>2, <2>2, <2>4 DEF ShouldConnect, SteadyRow, RowAgrees, Active
    <3>3. \A q \in Peers \ {p} : ~Taking(q)'
      BY <3>1 DEF Taking, Dialed
    <3> QED BY <1>2, <1>4, <1>5, <3>1, <3>2, <3>3 DEF SteadyRow
  <2>5. CASE p \in Dials /\ ~ShouldConnect(p, id, merged)
    <3> DEFINE r == [row[p] EXCEPT !.discovered = TRUE]
    <3>1. r \in Rows /\ r.session = row[p].session /\ r.current = row[p].current
      BY <1>2 DEF Rows
    <3>2. Put(p, r) /\ connecting' = connecting
      BY <1>9, <2>5 DEF Found
    <3> HIDE DEF r
    <3> QED BY <1>2, <1>6, <3>1, <3>2 DEF SteadyRow
  <2> QED BY <2>3, <2>4, <2>5
<1> QED BY <1>7, <1>8, <1>9 DEF Network

\* The steps of a connect: the row says Connecting where the state does.
LEMMA SteadyConnect ==
  ASSUME MacSessionsAssumption, MacInvariant, Running, \A q \in Peers : SteadyRow(q), Connect
  PROVE  \A q \in Peers : SteadyRow(q)'
<1>0. connecting # Nobody
  BY DEF Connect, ConnectKept, ConnectReplaces, ConnectDials, MacInvariant, TypeOK
<1>1. PICK p \in Peers : p = Dialed /\ p \in Dials
  BY <1>0, SteadyParts
<1>2. /\ TypeOK /\ queue \in Seq(Reports)
      /\ SteadyRow(p) /\ ObserverAgrees(p) /\ Taking(p) /\ state[p] # "Connected"
      /\ out \in [Peers -> [task : Observing, ident : Identities \cup {"none"}]]
      /\ state \in [Peers -> Phases]
  BY <1>0, <1>1, SteadyParts DEF SteadyRow, Taking, TypeOK
<1>3. \A q \in Peers \ {p} : ~Taking(q) /\ ~Replaced(q)
  BY <1>1 DEF Taking, Replaced
<1>4. ASSUME NEW session \in {"Connecting", "Failed"}, Completes(session)
      PROVE  /\ connecting' = Nobody /\ joining' = FALSE
             /\ row'[p].session = session /\ (row'[p].current <=> session = "Connecting")
             /\ \A q \in Peers \ {p} : row'[q] = row[q]
             /\ \A q : ~Taking(q)' /\ ~Replaced(q)'
  <2> DEFINE r == [discovered |-> TRUE, session |-> session, current |-> session = "Connecting"]
  <2>1. connecting' = Nobody /\ joining' = FALSE /\ Put(p, r)
    BY <1>1, <1>4 DEF Completes
  <2>2. r \in Rows /\ r.session = session /\ (r.current <=> session = "Connecting")
    BY DEF Rows, Phases
  <2> HIDE DEF r
  <2>3. row'[p] = r /\ \A q \in Peers \ {p} : row'[q] = row[q]
    BY <1>2, <2>1, <2>2, PutRow
  <2>4. \A q : ~Taking(q)' /\ ~Replaced(q)'
    BY <2>1 DEF Taking, Replaced
  <2> QED BY <2>1, <2>2, <2>3, <2>4
<1>5. ASSUME NEW fresh \in BOOLEAN, ConnectKept(fresh) PROVE \A q \in Peers : SteadyRow(q)'
  <2>1. /\ ~joining /\ Kept(fresh) /\ Completes("Connecting")
        /\ UNCHANGED <<state, out, elapsed, queue>>
    BY <1>5 DEF ConnectKept, dialVars
  <2>2. state[p] = "Connecting"
    <3>1. StateLags(p, queue, out[p].task, state[p])
      BY <1>2, <2>1 DEF ObserverAgrees, Replaced
    <3> QED BY <1>1, <1>2, <2>1, <3>1 DEF Kept, LinkUp, StateLags
  <2>3. SteadyRow(p)'
    <3>1. p \in Dials /\ state' = state
      BY <1>1, <2>1
    <3> QED BY <1>4, <2>1, <2>2, <3>1 DEF SteadyRow, Active
  <2>4. ASSUME NEW q \in Peers \ {p} PROVE SteadyRow(q)'
    BY <1>3, <1>4, <2>1, SteadyKept DEF SteadyRow
  <2> QED BY <2>3, <2>4
<1>6. ASSUME NEW fresh \in BOOLEAN, ConnectReplaces(fresh) PROVE \A q \in Peers : SteadyRow(q)'
  <2>1. /\ joining' = TRUE /\ out' = [out EXCEPT ![p] = NoOut] /\ ObserverAborted(p)
        /\ UNCHANGED <<row, state, connecting>>
    BY <1>1, <1>6 DEF ConnectReplaces, rowVars
  <2>2. /\ Replaced(p)' /\ \A q : Taking(q)' <=> Taking(q)
        /\ \A q \in Peers \ {p} : ~Replaced(q)' /\ out'[q] = out[q]
    BY <1>1, <1>2, <2>1 DEF Replaced, Taking, Dialed
  <2>3. SteadyRow(p)'
    BY <1>1, <1>2, <2>1, <2>2, SteadyKept
  <2>4. ASSUME NEW q \in Peers \ {p} PROVE SteadyRow(q)'
    <3>1. \/ queue' = queue
          \/ \E e \in Reports : e # Report(q, "Connected") /\ queue' = Append(queue, e)
      <4>1. \/ queue' = queue
            \/ \E a \in Told : Report(p, a) \in Reports /\ queue' = Append(queue, Report(p, a))
        BY <1>2, <2>1, AbortedSays DEF TypeOK, MacSessionsAssumption
      <4>2. \A a \in Told : Report(p, a) # Report(q, "Connected")
        BY OutgoingIsReport DEF Told
      <4> QED BY <4>1, <4>2
    <3>2. Says(queue', Outgoing(q), "Connected") <=> Says(queue, Outgoing(q), "Connected")
      BY <1>2, <3>1, NotConnectedSaid
    <3> QED BY <1>3, <2>1, <2>2, <3>2, SteadyKept DEF SteadyRow
  <2> QED BY <2>3, <2>4
<1>7. ASSUME NEW ok \in BOOLEAN, ConnectDials(ok) PROVE \A q \in Peers : SteadyRow(q)'
  <2>1. queue' = Outdated(p) /\ joining
    BY <1>1, <1>7 DEF ConnectDials
  <2>2. /\ \A q \in Peers \ {p} : state'[q] = state[q] /\ out'[q] = out[q]
        /\ \/ state'[p] = "Connecting" /\ Completes("Connecting")
           \/ state'[p] = "Failed" /\ Completes("Failed")
    BY <1>1, <1>2, <1>7 DEF ConnectDials
  <2>3. ~Says(queue', Outgoing(p), "Connected")
    BY <1>2, <2>1, OutdatedReports DEF Told
  <2>4. SteadyRow(p)'
    <3>1. Outgoing(p)' = Outgoing(p)
      BY DEF Outgoing
    <3> QED BY <1>1, <1>4, <2>2, <2>3, <3>1 DEF SteadyRow, Active
  <2>5. ASSUME NEW q \in Peers \ {p} PROVE SteadyRow(q)'
    <3>1. Says(queue', Outgoing(q), "Connected") => Says(queue, Outgoing(q), "Connected")
      BY <1>2, <2>1, OutdatedReports DEF Told
    <3>2. row'[q] = row[q] /\ ~Taking(q)'
      BY <1>4, <2>2
    <3>3. state'[q] = state[q] /\ out'[q] = out[q] /\ ~Replaced(q) /\ SteadyRow(q)
      BY <1>3, <2>2
    <3> QED BY <3>1, <3>2, <3>3, SteadyKept DEF SteadyRow
  <2> QED BY <2>4, <2>5
<1> QED BY <1>5, <1>6, <1>7 DEF Connect

\* The steps of an observer: only what came up says Connected, and its state is
\* Connecting until that is read.
LEMMA SteadyObserver ==
  ASSUME MacSessionsAssumption, MacInvariant, Running, \A q \in Peers : SteadyRow(q),
         NEW p \in Peers, Observer(p)
  PROVE  \A q \in Peers : SteadyRow(q)'
<1>1. /\ TypeOK /\ queue \in Seq(Reports) /\ SteadyRow(p) /\ ObserverAgrees(p)
      /\ out \in [Peers -> [task : Observing, ident : Identities \cup {"none"}]]
  BY SteadyParts DEF TypeOK
<1>2. CASE TimePasses(p)
  <2>1. UNCHANGED <<row, state, out, connecting, joining, queue>>
    BY <1>2 DEF TimePasses, rowVars, keptVars
  <2>2. \A q : (Taking(q)' <=> Taking(q)) /\ (Replaced(q)' <=> Replaced(q))
    BY <2>1 DEF Taking, Replaced, Dialed
  <2> QED BY <2>1, <2>2, SteadyKept DEF SteadyRow
<1>3. ASSUME NEW from, NEW to, Observes(p, from, to), from # "none",
             \/ queue' = queue
             \/ \E a \in Told : /\ queue' = Append(queue, Report(p, a))
                                /\ a = "Connected" => from = "up"
      PROVE  \A q \in Peers : SteadyRow(q)'
  <2>1. /\ out[p].task = from /\ out' = [out EXCEPT ![p].task = to]
        /\ UNCHANGED <<row, state, connecting, joining>>
    BY <1>3 DEF Observes, rowVars, keptVars
  <2>2. \A q : (Taking(q)' <=> Taking(q)) /\ (Replaced(q)' <=> Replaced(q))
    BY <2>1 DEF Taking, Replaced, Dialed
  <2>3. p \in Dials /\ ~Replaced(p)
    BY <1>1, <1>3, <2>1 DEF SteadyRow, ObserverAgrees
  <2>4. \A a \in Told : Report(p, a) \in Reports
    BY OutgoingIsReport
  <2>5. SteadyRow(p)'
    <3>1. CASE from = "up"
      <4>1. state[p] = "Connecting"
        BY <1>1, <2>1, <2>3, <3>1 DEF ObserverAgrees, StateLags
      <4> QED BY <1>1, <2>1, <2>2, <2>3, <4>1 DEF SteadyRow, Active
    <3>2. CASE from # "up"
      <4>1. ASSUME NEW a \in Told, a # "Connected" PROVE Report(p, a) # Report(p, "Connected")
        BY <4>1 DEF Report
      <4>2. \/ queue' = queue
            \/ \E e \in Reports : e # Report(p, "Connected") /\ queue' = Append(queue, e)
        BY <1>3, <2>4, <3>2, <4>1
      <4>3. Says(queue', Outgoing(p), "Connected") <=> Says(queue, Outgoing(p), "Connected")
        BY <1>1, <4>2, NotConnectedSaid
      <4> QED BY <1>1, <2>1, <2>2, <2>3, <4>3, SteadyKept
    <3> QED BY <3>1, <3>2
  <2>6. ASSUME NEW q \in Peers \ {p} PROVE SteadyRow(q)'
    <3>1. \A a \in Told : Report(p, a) # Report(q, "Connected")
      BY OutgoingIsReport DEF Told
    <3>2. Says(queue', Outgoing(q), "Connected") <=> Says(queue, Outgoing(q), "Connected")
      BY <1>1, <1>3, <2>4, <3>1, NotConnectedSaid
    <3>3. out'[q] = out[q] /\ SteadyRow(q)
      BY <1>1, <2>1
    <3> QED BY <2>1, <2>2, <3>2, <3>3, SteadyKept DEF SteadyRow
  <2> QED BY <2>5, <2>6
<1>4. CASE Establishes(p) \/ SetupFails(p) \/ Closes(p) \/ TimesOut(p)
  <2>1. /\ queue' = queue
        /\ \/ Observes(p, "dialing", "up") \/ Observes(p, "dialing", "failed")
           \/ Observes(p, "live", "down")
    BY <1>4 DEF Establishes, SetupFails, Closes, TimesOut
  <2> QED BY <1>3, <2>1
<1>5. CASE ObserverReports(p)
  BY <1>3, <1>5 DEF ObserverReports, Told
<1> QED BY <1>2, <1>4, <1>5 DEF Observer

\* The steps of the listener and of the sessions that come in.
LEMMA SteadyListener ==
  ASSUME MacSessionsAssumption, MacInvariant, Running, \A q \in Peers : SteadyRow(q), Listener
  PROVE  \A q \in Peers : SteadyRow(q)'
<1>1. UNCHANGED <<row, state, out, connecting, joining>>
  BY DEF Listener, ListenerEnds, ListenerReports, ListenerShutDown, Listens, Accepts, Authorizes,
     InboundEnds, InboundReports, Serves, rowVars, dialVars, keptVars
<1>2. \/ queue' = queue \/ queue' = Append(queue, ListenerStopped)
      \/ \E i \in Inbounds, a \in Told : queue' = Append(queue, InboundReport(i, a))
  BY DEF Listener, ListenerEnds, ListenerReports, ListenerShutDown, Accepts, Authorizes,
     InboundEnds, InboundReports, Told
<1>3. \A q : (Taking(q)' <=> Taking(q)) /\ (Replaced(q)' <=> Replaced(q))
  BY <1>1 DEF Taking, Replaced, Dialed
<1>4. ASSUME NEW q \in Peers PROVE SteadyRow(q)'
  <2>1. queue \in Seq(Reports) /\ SteadyRow(q)
    BY SteadyParts
  <2>2. /\ ListenerStopped \in Reports /\ ListenerStopped # Report(q, "Connected")
        /\ \A i \in Inbounds, a \in Told : /\ InboundReport(i, a) \in Reports
                                           /\ InboundReport(i, a) # Report(q, "Connected")
    BY IncomingIsReport DEF ListenerStopped, Reports, Report, InboundReport
  <2>3. \/ queue' = queue
        \/ \E e \in Reports : e # Report(q, "Connected") /\ queue' = Append(queue, e)
    BY <1>2, <2>2
  <2>4. Says(queue', Outgoing(q), "Connected") <=> Says(queue, Outgoing(q), "Connected")
    BY <2>1, <2>3, NotConnectedSaid
  <2> QED BY <1>1, <1>3, <2>1, <2>4, SteadyKept DEF SteadyRow
<1> QED BY <1>4

\* The loop takes a report: the row and the state go the same way.
LEMMA SteadyReceive ==
  ASSUME MacSessionsAssumption, MacInvariant, Running, \A q \in Peers : SteadyRow(q), Receive
  PROVE  \A q \in Peers : SteadyRow(q)'
<1> DEFINE e == Head(queue)
<1>1. /\ Idle /\ queue # <<>> /\ queue' = Tail(queue) /\ UNCHANGED <<out, connecting, joining>>
      /\ OnOutbound(e) \/ OnInbound(e) \/ OnListenerStopped(e)
  BY DEF Receive, keptVars
<1>2. /\ TypeOK /\ queue \in Seq(Reports) /\ e \in Reports /\ ~joining
      /\ \A q : ~Taking(q)' /\ ~Replaced(q) /\ ~Replaced(q)'
  BY <1>1, SteadyParts, TailShifts DEF Idle, MacInvariant, TypeOK, Taking, Replaced, Nobody
<1>3. \A q : Says(queue', Outgoing(q), "Connected") => Says(queue, Outgoing(q), "Connected")
  BY <1>1, <1>2, SaysAfterRead
<1> HIDE DEF e
<1>4. ASSUME NEW q \in Peers, row'[q] = row[q], state'[q] = state[q] PROVE SteadyRow(q)'
  BY <1>1, <1>2, <1>3, <1>4, SteadyKept DEF SteadyRow
<1>5. CASE OnInbound(e) \/ OnListenerStopped(e) \/ (OnOutbound(e) /\ ~e.current)
  <2>1. row' = row /\ state' = state
    BY <1>5 DEF OnInbound, OnListenerStopped, OnOutbound, rowVars
  <2> QED BY <1>4, <2>1
<1>6. CASE OnOutbound(e) /\ e.current
  <2>1. PICK p \in Peers, a \in Told : p = e.peer /\ a = e.phase /\ e = Report(p, a)
    BY <1>2, <1>6, KindsOfInput DEF OnOutbound
  <2>2. /\ state' = [state EXCEPT ![p] = a]
        /\ IF ~row[p].current THEN UNCHANGED rowVars
           ELSE IF row[p].discovered \/ Active(a) THEN Put(p, [row[p] EXCEPT !.session = a])
                ELSE Remove(p, a)
    BY <1>6, <2>1 DEF OnOutbound
  <2>3. /\ row[p] \in Rows /\ SteadyRow(p) /\ a \in Phases /\ (Active(a) <=> a = "Connected")
        /\ state'[p] = a /\ \A q \in Peers \ {p} : state'[q] = state[q]
    BY <1>2, <2>2, SteadyParts DEF Told, Phases, Active, TypeOK
  <2>4. a = "Connected" => row[p].current
    <3>1. ASSUME a = "Connected" PROVE state[p] = "Connecting"
      <4>1. e = Outgoing(p)["Connected"]
        BY <2>1, <3>1, OutgoingIsReport
      <4>2. Says(queue, Outgoing(p), "Connected")
        BY <1>1, <1>2, <4>1, SaysAfterRead DEF e
      <4> QED BY <1>2, <2>3, <4>2 DEF SteadyRow
    <3> QED BY <2>3, <3>1 DEF SteadyRow, Active
  <2>5. ~Says(queue', Outgoing(p), "Connected")
    <3>1. Orderly(queue, Outgoing(p), out[p].task)
      BY <1>2, SteadyParts DEF ObserverAgrees, StateLags
    <3>2. e = Outgoing(p)[a] /\ "Connected" \in Told
      BY <2>1, OutgoingIsReport DEF Told
    <3> QED BY <1>1, <1>2, <3>1, <3>2, ReadIsOrderly DEF e
  <2>6. /\ \A q \in Peers \ {p} : row'[q] = row[q]
        /\ \/ ~row[p].current /\ row'[p] = row[p]
           \/ row'[p].current /\ row'[p].session = a
           \/ row'[p] = NoRow /\ ~Active(a)
    <3>1. CASE ~row[p].current
      BY <2>2, <3>1 DEF rowVars
    <3>2. CASE row[p].current /\ (row[p].discovered \/ Active(a))
      <4> DEFINE r == [row[p] EXCEPT !.session = a]
      <4>1. r \in Rows /\ r.session = a /\ r.current
        BY <2>3, <3>2 DEF Rows
      <4>2. Put(p, r)
        BY <2>2, <3>2
      <4> HIDE DEF r
      <4> QED BY <1>2, <4>1, <4>2, PutRow
    <3>3. CASE row[p].current /\ ~(row[p].discovered \/ Active(a))
      <4>1. Remove(p, a)
        BY <2>2, <3>3
      <4> QED BY <1>2, <2>3, <3>3, <4>1, RemoveRow
    <3> QED BY <3>1, <3>2, <3>3
  <2>7. SteadyRow(p)'
    <3>1. Outgoing(p)' = Outgoing(p)
      BY DEF Outgoing
    <3>2. /\ row'[p].current => row'[p].session = a
          /\ Active(a) => row'[p].current
      BY <2>3, <2>4, <2>6 DEF NoRow
    <3> QED BY <1>1, <1>2, <2>3, <2>5, <3>1, <3>2 DEF SteadyRow, Active
  <2> QED BY <1>4, <2>3, <2>6, <2>7
<1> QED BY <1>1, <1>5, <1>6

\* Every step keeps the invariant of steady identities.
LEMMA SteadyKeeps ==
  ASSUME MacSessionsAssumption, MacInvariant, SteadyInvariant,
         (Next /\ SteadyIdentity) \/ UNCHANGED vars
  PROVE  SteadyInvariant'
<1>1. \A p \in Peers : reg[p] \in {"none", "a"} /\ reg'[p] \in {"none", "a"}
  BY DEF SteadyInvariant, SteadyIdentity, vars, netVars
<1>2. ASSUME Running', Running, Next PROVE \A p \in Peers : SteadyRow(p)'
  <2>1. \A p \in Peers : SteadyRow(p)
    BY <1>2 DEF SteadyInvariant
  <2>2. ~(Stop \/ DropConnecting \/ Closed) /\ \A p \in Peers : ~StopOutbound(p)
    BY <1>2 DEF Stop, DropConnecting, Closed, StopOutbound, Running
  <2>3. ASSUME NEW p \in Peers, Network(p) PROVE \A q \in Peers : SteadyRow(q)'
    BY <1>1, <1>2, <2>1, <2>3, SteadyNetwork
  <2>4. ASSUME NEW p \in Peers, Observer(p) PROVE \A q \in Peers : SteadyRow(q)'
    BY <1>2, <2>1, <2>4, SteadyObserver
  <2>5. ASSUME Connect PROVE \A q \in Peers : SteadyRow(q)'
    BY <1>2, <2>1, <2>5, SteadyConnect
  <2>6. ASSUME Listener PROVE \A q \in Peers : SteadyRow(q)'
    BY <1>2, <2>1, <2>6, SteadyListener
  <2>7. ASSUME Receive PROVE \A q \in Peers : SteadyRow(q)'
    BY <1>2, <2>1, <2>7, SteadyReceive
  <2> QED BY <1>2, <2>2, <2>3, <2>4, <2>5, <2>6, <2>7 DEF Next
<1>3. ASSUME Running', UNCHANGED vars PROVE \A p \in Peers : SteadyRow(p)'
  <2>1. Running /\ UNCHANGED <<row, state, out, connecting, joining, queue>>
    BY <1>3 DEF vars, netVars, rowVars, dialVars, keptVars, Running
  <2>2. \A q : (Taking(q)' <=> Taking(q)) /\ (Replaced(q)' <=> Replaced(q))
    BY <2>1 DEF Taking, Replaced, Dialed
  <2>3. \A p \in Peers : SteadyRow(p)
    BY <2>1 DEF SteadyInvariant
  <2> QED BY <2>1, <2>2, <2>3, SteadyKept DEF SteadyRow
<1>4. Running' /\ Next => Running
  <2>1. ASSUME Next, phase # "running" PROVE phase' # "running"
    <3>1. CASE Stop \/ DropConnecting \/ Closed
      BY <3>1 DEF Stop, DropConnecting, Closed, Running, netVars
    <3>2. ASSUME NEW p \in Peers, Network(p) \/ Observer(p) \/ StopOutbound(p) PROVE phase' = phase
      BY <3>2 DEF Network, Lost, Screen, Found, Observer, Establishes, SetupFails, Closes,
         TimePasses, TimesOut, ObserverReports, Observes, StopOutbound, netVars
    <3>3. Connect \/ Listener \/ Receive => phase' = phase
      BY DEF Connect, ConnectKept, ConnectReplaces, ConnectDials, Completes, Listener, ListenerEnds,
         ListenerReports, ListenerShutDown, Listens, Accepts, Authorizes, InboundEnds,
         InboundReports, Serves, Receive, netVars
    <3> QED BY <2>1, <3>1, <3>2, <3>3 DEF Next
  <2> QED BY <2>1 DEF Running
<1> QED BY <1>1, <1>2, <1>3, <1>4 DEF SteadyInvariant

\* It holds at the start.
LEMMA SteadyInit ==
  ASSUME Init
  PROVE  SteadyInvariant
<1>1. queue = <<>> /\ connecting = Nobody /\ joining = FALSE
  BY DEF Init
<1>2. \A p : ~Says(queue, Outgoing(p), "Connected") /\ ~Taking(p)
  BY <1>1 DEF Says, Taking
<1> QED BY <1>2 DEF Init, SteadyInvariant, SteadyRow, NoRow, NoOut, Active

-----------------------------------------------------------------------------
(* The composition: the build that runs takes its own steps, and what the  *)
(* others hold stays as it started.                                        *)

\* Every step of the composition is a step of each build, or leaves it alone.
LEMMA StepsOfBuilds ==
  ASSUME [AnyNext]_<<build, linuxVars, windowsVars, vars>>
  PROVE  /\ [Linux!Next]_(Linux!vars) /\ [Windows!Next]_(Windows!vars) /\ [Next]_vars
         /\ SteadyRuns' => SteadyRuns /\ ((Next /\ SteadyIdentity) \/ UNCHANGED vars)
<1>1. UNCHANGED linuxVars => UNCHANGED Linux!vars
  BY DEF linuxVars, Linux!vars
<1>2. UNCHANGED windowsVars => UNCHANGED Windows!vars
  BY DEF windowsVars, Windows!vars
<1>3. CASE build = "linux" /\ Linux!Next /\ UNCHANGED <<build, windowsVars, vars>>
  BY <1>2, <1>3 DEF SteadyRuns
<1>4. CASE build = "windows" /\ Windows!Next /\ UNCHANGED <<build, linuxVars, vars>>
  BY <1>1, <1>4 DEF SteadyRuns
<1>5. CASE build = "mac" /\ Next /\ UNCHANGED <<build, linuxVars, windowsVars>>
  BY <1>1, <1>2, <1>5 DEF SteadyRuns
<1>6. CASE build = "mac, steady" /\ Next /\ SteadyIdentity /\ UNCHANGED <<build, linuxVars, windowsVars>>
  BY <1>1, <1>2, <1>6 DEF SteadyRuns
<1>7. CASE UNCHANGED <<build, linuxVars, windowsVars, vars>>
  BY <1>1, <1>2, <1>7 DEF SteadyRuns
<1> QED BY <1>3, <1>4, <1>5, <1>6, <1>7 DEF AnyNext

AnyInvariant ==
  /\ Linux!InboundInvariant /\ Windows!SessionsInvariant /\ MacInvariant
  /\ SteadyRuns => SteadyInvariant

\* The invariants of the three hold together.
LEMMA AnyInvariantHolds == AnySpec => []AnyInvariant
<1>1. Linux!InboundAssumption /\ Windows!SessionsAssumption /\ MacSessionsAssumption
  BY BuildsAssumption
<1>2. AnyInit => AnyInvariant
  <2> SUFFICES ASSUME Linux!Init, Windows!Init, Init PROVE AnyInvariant
    BY DEF AnyInit
  <2>1. Linux!InboundInvariant /\ Windows!SessionsInvariant
    BY <1>1, InboundInit, Windows!WindowsInit
  <2>2. MacInvariant /\ SteadyInvariant
    BY <1>1, MacInit, SteadyInit
  <2> QED BY <2>1, <2>2 DEF AnyInvariant
<1>3. AnyInvariant /\ [AnyNext]_<<build, linuxVars, windowsVars, vars>> => AnyInvariant'
  <2> SUFFICES ASSUME AnyInvariant, [AnyNext]_<<build, linuxVars, windowsVars, vars>>
               PROVE  AnyInvariant'
    OBVIOUS
  <2>1. [Linux!Next]_(Linux!vars) /\ [Windows!Next]_(Windows!vars) /\ [Next]_vars
    BY StepsOfBuilds
  <2>2. Linux!InboundInvariant'
    BY <1>1, <2>1, InboundKeeps DEF AnyInvariant
  <2>3. Windows!SessionsInvariant'
    BY <1>1, <2>1, Windows!WindowsKeeps DEF AnyInvariant
  <2>4. MacInvariant'
    BY <1>1, <2>1, MacKeeps DEF AnyInvariant
  <2>5. SteadyRuns' => SteadyInvariant'
    BY <1>1, StepsOfBuilds, SteadyKeeps DEF AnyInvariant
  <2> QED BY <2>2, <2>3, <2>4, <2>5 DEF AnyInvariant
<1> QED BY <1>2, <1>3, PTL DEF AnySpec

\* Whichever build runs, its rows follow its sessions (RowsFollowSessions).
THEOREM RowsAlwaysFollow == AnySpec => []RowsFollowSessions
<1>1. SteadyInvariant => ConnectingIsPending
  BY DEF SteadyInvariant, SteadyRow, ConnectingIsPending
<1>2. AnyInvariant => RowsFollowSessions
  BY <1>1, BuildsAssumption, Windows!WindowsDrivesRows, MacRowsFollow
     DEF AnyInvariant, RowsFollowSessions
<1> QED BY <1>2, AnyInvariantHolds, PTL

\* Whichever build runs, what it counts and shows of the sessions that come in is
\* so (InboundIsTrue).
THEOREM InboundIsAlwaysTrue == AnySpec => []InboundIsTrue
<1>1. AnyInvariant => InboundIsTrue
  <2> SUFFICES ASSUME AnyInvariant PROVE InboundIsTrue
    OBVIOUS
  <2>1. Linux!OwnedAndQuiet /\ Linux!CountIsTrue
    BY DEF AnyInvariant, Linux!InboundInvariant
  <2>2. Windows!SnapshotIsTrue
    BY BuildsAssumption, Windows!WindowsShowsPeers DEF AnyInvariant
  <2> QED BY <2>1, <2>2 DEF InboundIsTrue
<1> QED BY <1>1, AnyInvariantHolds, PTL
=============================================================================
