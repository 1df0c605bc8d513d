------------------------ MODULE WindowsSessionsProofs ------------------------
(***************************************************************************)
(* Proofs about WindowsSessions: its invariant is inductive, for any       *)
(* devices, inbound sessions, queue and number of dials.                   *)
(***************************************************************************)
EXTENDS WindowsSessions, QueueLemmas, FiniteSetTheorems

-----------------------------------------------------------------------------
(* Reports and the queue.                                                  *)

\* The three kinds of report.
LEMMA KindsOfReport ==
  ASSUME NEW e \in Reports
  PROVE  \/ /\ e.from = "outbound" /\ e.peer \in Peers /\ e.gen \in Nat /\ e.phase \in Told
            /\ e = Report(e.peer, e.gen, e.phase)
         \/ /\ e.from = "inbound" /\ e.id \in Inbounds /\ e.phase \in Told
            /\ e = InboundReport(e.id, e.phase)
         \/ e.from = "listener" /\ e = ListenerStopped
<1>1. CASE e \in [from : {"outbound"}, peer : Peers, gen : Nat, phase : Told]
  BY <1>1 DEF Report
<1>2. CASE e \in [from : {"inbound"}, id : Inbounds, phase : Told]
  BY <1>2 DEF InboundReport
<1>3. CASE e = ListenerStopped
  BY <1>3 DEF ListenerStopped
<1> QED BY <1>1, <1>2, <1>3 DEF Reports

\* What is sent is a report.
LEMMA SentAreReports ==
  /\ \A p \in Peers, g \in Nat, to \in Told :
       /\ Report(p, g, to) \in Reports
       /\ Report(p, g, to).from = "outbound" /\ Report(p, g, to).peer = p
       /\ Report(p, g, to).gen = g /\ Report(p, g, to).phase = to
  /\ \A id \in Inbounds, to \in Told :
       InboundReport(id, to) \in Reports /\ InboundReport(id, to).from = "inbound"
  /\ ListenerStopped \in Reports /\ ListenerStopped.from = "listener"
  BY DEF Reports, Report, InboundReport, ListenerStopped

\* What the proofs take from the type of each peer's state.
LEMMA Numbers ==
  ASSUME TypeOK, NEW p \in Peers
  PROVE  /\ state[p].gen \in Nat /\ state[p].phase \in Phases
         /\ out[p].gen \in Nat /\ out[p].task \in Observing
         /\ row[p] \in Rows
         /\ queue \in Seq(Reports) /\ Len(queue) \in Nat
         /\ state[p] = [gen |-> state[p].gen, phase |-> state[p].phase]
  BY DEF TypeOK

\* A report that is sent leaves the places before it alone.
LEMMA PlacesAfterSend ==
  ASSUME queue \in Seq(Reports), NEW e \in Reports, queue' = Append(queue, e),
         NEW p, state'[p].gen = state[p].gen
  PROVE  /\ queue' \in Seq(Reports) /\ Len(queue) \in Nat /\ Len(queue') = Len(queue) + 1
         /\ queue'[Len(queue) + 1] = e
         /\ \A i \in 1 .. Len(queue) :
              /\ i \in 1 .. Len(queue') /\ queue'[i] = queue[i]
              /\ Current(i, p)' <=> Current(i, p)
              /\ Ends(i, p)' <=> Ends(i, p)
         /\ \A i \in 1 .. Len(queue') : i = Len(queue) + 1 \/ i \in 1 .. Len(queue)
<1>1. /\ Append(queue, e) \in Seq(Reports) /\ Len(queue) \in Nat
      /\ Len(Append(queue, e)) = Len(queue) + 1
      /\ \A i \in 1 .. Len(queue) :
           Append(queue, e)[i] = queue[i] /\ i \in 1 .. Len(Append(queue, e))
      /\ Append(queue, e)[Len(queue) + 1] = e
      /\ \A i \in 1 .. Len(Append(queue, e)) : i = Len(queue) + 1 \/ i \in 1 .. Len(queue)
  BY AppendAdds
<1>2. \A i \in 1 .. Len(queue) : queue'[i] = queue[i]
  BY <1>1
<1>3. \A i \in 1 .. Len(queue) : (Current(i, p)' <=> Current(i, p)) /\ (Ends(i, p)' <=> Ends(i, p))
  BY <1>2 DEF Current, Ends
<1> QED BY <1>1, <1>3

\* The queue behind a report that was taken.
LEMMA PlacesAfterReceive ==
  ASSUME queue \in Seq(Reports), queue # <<>>, queue' = Tail(queue),
         NEW p, state'[p].gen = state[p].gen
  PROVE  /\ queue' \in Seq(Reports) /\ Len(queue) \in Nat /\ Len(queue') = Len(queue) - 1
         /\ Head(queue) = queue[1] /\ Head(queue) \in Reports /\ 1 \in 1 .. Len(queue)
         /\ \A i \in 1 .. Len(queue') :
              /\ i + 1 \in 1 .. Len(queue) /\ queue'[i] = queue[i + 1]
              /\ Current(i, p)' <=> Current(i + 1, p)
              /\ Ends(i, p)' <=> Ends(i + 1, p)
         /\ \A i \in 1 .. Len(queue) : i = 1 \/ i - 1 \in 1 .. Len(queue')
<1>1. /\ Tail(queue) \in Seq(Reports) /\ Len(queue) \in Nat /\ Len(Tail(queue)) = Len(queue) - 1
      /\ \A i \in 1 .. Len(Tail(queue)) : Tail(queue)[i] = queue[i + 1] /\ i + 1 \in 1 .. Len(queue)
      /\ \A i \in 1 .. Len(queue) : i = 1 \/ i - 1 \in 1 .. Len(Tail(queue))
      /\ Head(queue) = queue[1] /\ Head(queue) \in Reports /\ 1 \in 1 .. Len(queue)
  BY TailShifts
<1>2. \A i \in 1 .. Len(queue') : queue'[i] = queue[i + 1]
  BY <1>1
<1>3. \A i \in 1 .. Len(queue') :
        (Current(i, p)' <=> Current(i + 1, p)) /\ (Ends(i, p)' <=> Ends(i + 1, p))
  BY <1>2 DEF Current, Ends
<1> QED BY <1>1, <1>3

-----------------------------------------------------------------------------
(* Observers and their reports.                                            *)

\* Nothing that an observer says is touched.
LEMMA ObserverUntouched ==
  ASSUME TypeOK, NEW p \in Peers, ObserverAgrees(p),
         queue' = queue, state'[p] = state[p], out'[p].task = out[p].task, out'[p].gen = out[p].gen
  PROVE  ObserverAgrees(p)'
<1>1. \A i \in 1 .. Len(queue) : (Current(i, p)' <=> Current(i, p)) /\ (Ends(i, p)' <=> Ends(i, p))
  BY DEF Current, Ends
<1>2. \A i \in 1 .. Len(queue) : \A j \in i .. Len(queue) : j \in 1 .. Len(queue)
  BY Numbers
<1> QED BY <1>1, <1>2 DEF ObserverAgrees

\* A report of someone else, or of another dial, is sent.
LEMMA OthersSend ==
  ASSUME TypeOK, NEW p \in Peers, ObserverAgrees(p),
         NEW e \in Reports, queue' = Append(queue, e),
         ~(e.from = "outbound" /\ e.peer = p /\ e.gen = state[p].gen),
         state'[p] = state[p], out'[p] = out[p]
  PROVE  ObserverAgrees(p)'
<1>1. /\ Len(queue) \in Nat /\ Len(queue') = Len(queue) + 1 /\ queue'[Len(queue) + 1] = e
      /\ \A i \in 1 .. Len(queue) :
           /\ i \in 1 .. Len(queue')
           /\ Current(i, p)' <=> Current(i, p)
           /\ Ends(i, p)' <=> Ends(i, p)
      /\ \A i \in 1 .. Len(queue') : i = Len(queue) + 1 \/ i \in 1 .. Len(queue)
  BY Numbers, PlacesAfterSend
<1>2. \A i \in 1 .. Len(queue') : i = Len(queue) + 1 => ~Current(i, p)' /\ ~Ends(i, p)'
  BY <1>1 DEF Current, Ends
<1>3. \A i \in 1 .. Len(queue) : \A j \in i .. Len(queue) :
        j \in 1 .. Len(queue) /\ j \in i .. Len(queue')
  BY <1>1
<1> QED BY <1>1, <1>2, <1>3 DEF ObserverAgrees

\* A report of someone else, or of another dial, is taken.
LEMMA OthersAreRead ==
  ASSUME TypeOK, NEW p \in Peers, ObserverAgrees(p), queue # <<>>, queue' = Tail(queue),
         ~Current(1, p), state'[p] = state[p], out'[p] = out[p]
  PROVE  ObserverAgrees(p)'
<1>1. /\ Len(queue) \in Nat /\ Len(queue') = Len(queue) - 1
      /\ \A i \in 1 .. Len(queue') :
           /\ i + 1 \in 1 .. Len(queue)
           /\ Current(i, p)' <=> Current(i + 1, p)
           /\ Ends(i, p)' <=> Ends(i + 1, p)
      /\ \A i \in 1 .. Len(queue) : i = 1 \/ i - 1 \in 1 .. Len(queue')
  BY Numbers, PlacesAfterReceive
<1>2. ~Ends(1, p)
  BY DEF Ends
<1>3. ASSUME NEW i \in 1 .. Len(queue), Ends(i, p)
      PROVE  i - 1 \in 1 .. Len(queue') /\ Ends(i - 1, p)'
  <2>1. i # 1 /\ i - 1 \in 1 .. Len(queue')
    BY <1>1, <1>2, <1>3
  <2>2. (i - 1) + 1 = i
    BY <1>1
  <2> QED BY <1>1, <1>3, <2>1, <2>2
<1>4. (\E i \in 1 .. Len(queue) : Ends(i, p)) => \E i \in 1 .. Len(queue') : Ends(i, p)'
  BY <1>3
<1>5. ASSUME \A i \in 1 .. Len(queue) : Current(i, p) => \E j \in i .. Len(queue) : Ends(j, p),
             NEW i \in 1 .. Len(queue'), Current(i, p)'
      PROVE  \E j \in i .. Len(queue') : Ends(j, p)'
  <2>1. PICK j \in (i + 1) .. Len(queue) : Ends(j, p)
    BY <1>1, <1>5
  <2>2. j \in 1 .. Len(queue) /\ j - 1 \in i .. Len(queue')
    BY <1>1, <2>1
  <2> QED BY <1>3, <2>1, <2>2
<1> QED BY <1>1, <1>4, <1>5 DEF ObserverAgrees

\* A dial that is replaced, or an observer that is stopped: the generation
\* rises above every report, the last one of the observer included.
LEMMA NewGenerationAgrees ==
  ASSUME TypeOK, ReportsArePast, \A q \in Peers : ObserverAgrees(q),
         NEW p \in Peers, NEW s, NEW o, ObserverAborted(p),
         state' = [state EXCEPT ![p] = s], out' = [out EXCEPT ![p] = o],
         s.gen = state[p].gen + 1,
         \/ o.task = "dialing" /\ o.gen = s.gen /\ s.phase = "Connecting"
         \/ o.task = "none" /\ s.phase \notin {"Connecting", "Connected"}
  PROVE  ReportsArePast' /\ (\A q \in Peers : ObserverAgrees(q)') /\ queue' \in Seq(Reports)
<1>0. /\ \A q \in Peers : state[q].gen \in Nat /\ out[q].gen \in Nat
      /\ queue \in Seq(Reports) /\ Len(queue) \in Nat
      /\ s.gen \in Nat /\ s.gen > state[p].gen
  <2>1. \A q \in Peers : state[q].gen \in Nat /\ out[q].gen \in Nat
    BY Numbers
  <2>2. queue \in Seq(Reports) /\ Len(queue) \in Nat
    BY Numbers
  <2> QED BY <2>1, <2>2
<1>1. \/ queue' = queue
      \/ \E e \in Reports : /\ queue' = Append(queue, e)
                            /\ e.from = "outbound" /\ e.peer = p /\ e.gen = out[p].gen
                            /\ out[p].task # "none"
  <2>1. \A e \in Unsent(p) : /\ e \in Reports /\ e.from = "outbound" /\ e.peer = p
                             /\ e.gen = out[p].gen /\ out[p].task # "none"
    <3>1. \A to \in Told : /\ Report(p, out[p].gen, to) \in Reports
                          /\ Report(p, out[p].gen, to).from = "outbound"
                          /\ Report(p, out[p].gen, to).peer = p
                          /\ Report(p, out[p].gen, to).gen = out[p].gen
      BY <1>0, SentAreReports
    <3>2. \A e \in Unsent(p) : \E to \in Told : e = Report(p, out[p].gen, to)
      BY DEF Unsent, Told
    <3>3. Unsent(p) # {} => out[p].task # "none"
      BY DEF Unsent
    <3> QED BY <3>1, <3>2, <3>3
  <2> QED BY <2>1 DEF ObserverAborted
<1>2. /\ state'[p] = s /\ out'[p] = o
      /\ \A q \in Peers \ {p} : state'[q] = state[q] /\ out'[q] = out[q]
  BY DEF TypeOK
<1>3. out[p].task # "none" => out[p].gen = state[p].gen
  BY DEF ObserverAgrees
<1>4. CASE queue' = queue
  <2>1. ReportsArePast'
    <3> SUFFICES ASSUME NEW i \in 1 .. Len(queue), queue[i].from = "outbound"
                 PROVE  queue[i].gen <= state'[queue[i].peer].gen
      BY <1>4 DEF ReportsArePast
    <3>1. queue[i] \in Reports
      BY <1>0, PlacesAreTyped
    <3>2. queue[i].peer \in Peers /\ queue[i].gen \in Nat
      BY <3>1, KindsOfReport
    <3>3. queue[i].gen <= state[queue[i].peer].gen
      BY DEF ReportsArePast
    <3> QED BY <1>2, <3>2, <3>3, <1>0
  <2>2. \A i \in 1 .. Len(queue') : ~Current(i, p)'
    <3> SUFFICES ASSUME NEW i \in 1 .. Len(queue), queue[i].from = "outbound", queue[i].peer = p
                 PROVE  queue[i].gen # s.gen
      BY <1>2, <1>4 DEF Current
    <3>1. queue[i].gen <= state[p].gen /\ queue[i].gen \in Nat
      <4>1. queue[i] \in Reports
        BY <1>0, PlacesAreTyped
      <4> QED BY <4>1, KindsOfReport DEF ReportsArePast
    <3> QED BY <3>1, <1>0
  <2>3. ObserverAgrees(p)'
    BY <1>2, <2>2, <1>0 DEF ObserverAgrees
  <2>4. \A q \in Peers \ {p} : ObserverAgrees(q)'
    BY <1>2, <1>4, ObserverUntouched
  <2> QED BY <1>4, <2>1, <2>3, <2>4, <1>0
<1>5. ASSUME NEW e \in Reports, queue' = Append(queue, e),
             e.from = "outbound", e.peer = p, e.gen = out[p].gen, out[p].task # "none"
      PROVE  ReportsArePast' /\ (\A q \in Peers : ObserverAgrees(q)') /\ queue' \in Seq(Reports)
  <2>1. /\ queue' \in Seq(Reports) /\ Len(queue) \in Nat /\ queue'[Len(queue) + 1] = e
        /\ \A i \in 1 .. Len(queue) : queue'[i] = queue[i]
        /\ \A i \in 1 .. Len(queue') : i = Len(queue) + 1 \/ i \in 1 .. Len(queue)
    <3>1. /\ Append(queue, e) \in Seq(Reports) /\ Len(queue) \in Nat
          /\ Append(queue, e)[Len(queue) + 1] = e
          /\ \A i \in 1 .. Len(queue) : Append(queue, e)[i] = queue[i]
          /\ \A i \in 1 .. Len(Append(queue, e)) : i = Len(queue) + 1 \/ i \in 1 .. Len(queue)
      BY <1>0, AppendAdds
    <3> QED BY <1>5, <3>1
  <2>2. ASSUME NEW i \in 1 .. Len(queue'), queue'[i].from = "outbound"
        PROVE  /\ queue'[i].gen <= state'[queue'[i].peer].gen
               /\ queue'[i].peer = p => queue'[i].gen # s.gen
    <3>1. queue'[i] \in Reports
      BY <2>1, PlacesAreTyped
    <3>2. queue'[i].peer \in Peers /\ queue'[i].gen \in Nat
      BY <2>2, <3>1, KindsOfReport
    <3>3. queue'[i].gen <= state[queue'[i].peer].gen
      <4>1. CASE i = Len(queue) + 1
        BY <1>3, <1>5, <2>1, <3>2, <4>1, <1>0
      <4>2. CASE i \in 1 .. Len(queue)
        BY <2>1, <2>2, <4>2 DEF ReportsArePast
      <4> QED BY <2>1, <4>1, <4>2
    <3> QED BY <1>2, <3>2, <3>3, <1>0
  <2>3. ReportsArePast'
    BY <2>2 DEF ReportsArePast
  <2>4. \A i \in 1 .. Len(queue') : ~Current(i, p)'
    BY <1>2, <2>2 DEF Current
  <2>5. ObserverAgrees(p)'
    BY <1>2, <2>4, <1>0 DEF ObserverAgrees
  <2>6. \A q \in Peers \ {p} : ObserverAgrees(q)'
    BY <1>2, <1>5, OthersSend
  <2> QED BY <2>1, <2>3, <2>5, <2>6
<1> QED BY <1>1, <1>4, <1>5

\* A report that is sent is of a dial that there has been.
LEMMA PastAfterSend ==
  ASSUME TypeOK, ReportsArePast, NEW e \in Reports, queue' = Append(queue, e), state' = state,
         e.from = "outbound" => e.gen <= state[e.peer].gen
  PROVE  ReportsArePast' /\ queue' \in Seq(Reports)
<1>1. queue \in Seq(Reports)
  BY DEF TypeOK
<1>2. /\ Append(queue, e) \in Seq(Reports) /\ Append(queue, e)[Len(queue) + 1] = e
      /\ \A i \in 1 .. Len(queue) : Append(queue, e)[i] = queue[i]
      /\ \A i \in 1 .. Len(Append(queue, e)) : i = Len(queue) + 1 \/ i \in 1 .. Len(queue)
  BY <1>1, AppendAdds
<1>3. ASSUME NEW i \in 1 .. Len(queue'), queue'[i].from = "outbound"
      PROVE  queue'[i].gen <= state'[queue'[i].peer].gen
  <2>1. CASE i = Len(queue) + 1
    BY <1>2, <1>3, <2>1
  <2>2. CASE i \in 1 .. Len(queue)
    BY <1>2, <1>3, <2>2 DEF ReportsArePast
  <2> QED BY <1>2, <2>1, <2>2
<1> QED BY <1>2, <1>3 DEF ReportsArePast

\* The observers do not notice what the listener and its sessions send.
LEMMA ObserversUnaware ==
  ASSUME TypeOK, ReportsArePast, \A p \in Peers : ObserverAgrees(p), UNCHANGED <<state, out>>,
         queue' = queue \/ \E e \in Reports : e.from # "outbound" /\ queue' = Append(queue, e)
  PROVE  ReportsArePast' /\ (\A p \in Peers : ObserverAgrees(p)') /\ queue' \in Seq(Reports)
<1>1. CASE queue' = queue
  <2>1. \A p \in Peers : ObserverAgrees(p)'
    BY <1>1, ObserverUntouched
  <2> QED BY <1>1, <2>1 DEF ReportsArePast, TypeOK
<1>2. ASSUME NEW e \in Reports, e.from # "outbound", queue' = Append(queue, e)
      PROVE  ReportsArePast' /\ (\A p \in Peers : ObserverAgrees(p)') /\ queue' \in Seq(Reports)
  BY <1>2, PastAfterSend, OthersSend
<1> QED BY <1>1, <1>2

\* An observer sends what it has come to.
LEMMA ObserverSends ==
  ASSUME TypeOK, ReportsArePast, \A q \in Peers : ObserverAgrees(q),
         NEW p \in Peers, ObserverReports(p)
  PROVE  ReportsArePast' /\ (\A q \in Peers : ObserverAgrees(q)') /\ queue' \in Seq(Reports)
<1>1. PICK to \in Told :
        /\ queue' = Append(queue, Report(p, out[p].gen, to))
        /\ out[p].task \in {"up", "down", "failed"}
        /\ out' = [out EXCEPT ![p].task = IF out[p].task = "up" THEN "live" ELSE "done"]
        /\ to = "Connected" <=> out[p].task = "up"
        /\ state' = state
  <2>1. ObserverReports(p) => \E to \in Told :
          /\ queue' = Append(queue, Report(p, out[p].gen, to))
          /\ out[p].task \in {"up", "down", "failed"}
          /\ out' = [out EXCEPT ![p].task = IF out[p].task = "up" THEN "live" ELSE "done"]
          /\ to = "Connected" <=> out[p].task = "up"
          /\ state' = state
    BY DEF ObserverReports, Observes, Told
  <2> QED BY <2>1
<1> DEFINE e == Report(p, out[p].gen, to)
<1>2. /\ e \in Reports /\ e.from = "outbound" /\ e.peer = p /\ e.gen = out[p].gen /\ e.phase = to
      /\ out[p].gen = state[p].gen /\ state[p].gen > 0 /\ state[p].gen \in Nat
  <2>1. out[p].gen \in Nat /\ state[p].gen \in Nat
    BY Numbers
  <2>2. out[p].gen = state[p].gen /\ state[p].gen > 0
    BY <1>1 DEF ObserverAgrees
  <2> QED BY <2>1, <2>2, SentAreReports
<1> HIDE DEF e
<1>3. ReportsArePast' /\ queue' \in Seq(Reports)
  BY <1>1, <1>2, PastAfterSend DEF e
<1>4. \A q \in Peers \ {p} : ObserverAgrees(q)'
  <2> SUFFICES ASSUME NEW q \in Peers \ {p}
               PROVE  ObserverAgrees(q)'
    OBVIOUS
  <2>1. out'[q] = out[q]
    BY <1>1 DEF TypeOK
  <2> QED BY <1>1, <1>2, <2>1, OthersSend DEF e
<1>5. /\ Len(queue) \in Nat /\ Len(queue') = Len(queue) + 1 /\ queue'[Len(queue) + 1] = e
      /\ \A i \in 1 .. Len(queue) :
           /\ i \in 1 .. Len(queue')
           /\ Current(i, p)' <=> Current(i, p)
           /\ Ends(i, p)' <=> Ends(i, p)
      /\ \A i \in 1 .. Len(queue') : i = Len(queue) + 1 \/ i \in 1 .. Len(queue)
  BY <1>1, <1>2, Numbers, PlacesAfterSend DEF e
<1>6. \A i \in 1 .. Len(queue') :
        i = Len(queue) + 1 => Current(i, p)' /\ (Ends(i, p)' <=> to # "Connected")
  BY <1>1, <1>2, <1>5 DEF Current, Ends
<1>7. out'[p].task = (IF out[p].task = "up" THEN "live" ELSE "done") /\ out'[p].gen = out[p].gen
  BY <1>1 DEF TypeOK
<1>8. Len(queue) + 1 \in 1 .. Len(queue') /\ \A i \in 1 .. Len(queue') : Len(queue) + 1 \in i .. Len(queue')
  BY <1>5
<1>9. ObserverAgrees(p)'
  <2>1. CASE out[p].task = "up"
    <3>1. \A i \in 1 .. Len(queue') : ~Ends(i, p)'
      BY <1>1, <1>5, <1>6, <2>1 DEF ObserverAgrees, Ends
    <3> QED BY <1>1, <1>2, <1>7, <2>1, <3>1 DEF ObserverAgrees
  <2>2. CASE out[p].task # "up"
    <3>1. PICK k \in 1 .. Len(queue') : Ends(k, p)' /\ \A i \in 1 .. Len(queue') : k \in i .. Len(queue')
      BY <1>1, <1>6, <1>8, <2>2
    <3> QED BY <1>1, <1>2, <1>7, <2>2, <3>1 DEF ObserverAgrees
  <2> QED BY <2>1, <2>2
<1> QED BY <1>3, <1>4, <1>9

\* The loop reads a report, which moves the state if it is of the current dial.
LEMMA ReportIsRead ==
  ASSUME TypeOK, ReportsArePast, \A p \in Peers : ObserverAgrees(p),
         queue # <<>>, queue' = Tail(queue), out' = out,
         \/ /\ queue[1].from = "outbound" /\ CurrentTransition(queue[1])
            /\ state' = [state EXCEPT ![queue[1].peer].phase = queue[1].phase]
         \/ ~(queue[1].from = "outbound" /\ CurrentTransition(queue[1])) /\ state' = state
  PROVE  ReportsArePast' /\ (\A p \in Peers : ObserverAgrees(p)') /\ queue' \in Seq(Reports)
<1>1. queue \in Seq(Reports)
  BY DEF TypeOK
<1>2. queue[1] \in Reports /\ queue' \in Seq(Reports) /\ 1 \in 1 .. Len(queue)
      /\ \A i \in 1 .. Len(queue') : queue'[i] = queue[i + 1] /\ i + 1 \in 1 .. Len(queue)
  BY <1>1, TailShifts
<1>3. queue[1].from = "outbound" => queue[1].peer \in Peers /\ queue[1].phase \in Told
  BY <1>2, KindsOfReport
<1>4. \A p \in Peers : state'[p].gen = state[p].gen
  <2>1. CASE state' = state
    BY <2>1
  <2>2. CASE /\ queue[1].peer \in Peers
             /\ state' = [state EXCEPT ![queue[1].peer].phase = queue[1].phase]
    <3>1. \A p \in Peers : state[p] = [gen |-> state[p].gen, phase |-> state[p].phase]
      BY Numbers
    <3>2. \A p \in Peers : state'[p] = IF p = queue[1].peer
                                      THEN [state[p] EXCEPT !.phase = queue[1].phase] ELSE state[p]
      BY <2>2 DEF TypeOK
    <3> QED BY <3>1, <3>2
  <2> QED BY <1>3, <2>1, <2>2
<1>5. ReportsArePast'
  <2> SUFFICES ASSUME NEW i \in 1 .. Len(queue'), queue'[i].from = "outbound"
               PROVE  queue'[i].gen <= state'[queue'[i].peer].gen
    BY DEF ReportsArePast
  <2>1. queue'[i] \in Reports
    BY <1>2, PlacesAreTyped
  <2>2. queue'[i].peer \in Peers
    BY <2>1, KindsOfReport
  <2>3. queue'[i].gen <= state[queue'[i].peer].gen
    BY <1>2 DEF ReportsArePast
  <2> QED BY <1>4, <2>2, <2>3
<1>6. ASSUME NEW p \in Peers, ~Current(1, p)
      PROVE  ObserverAgrees(p)'
  <2>1. state'[p] = state[p]
    <3>1. ~(queue[1].from = "outbound" /\ queue[1].peer = p /\ CurrentTransition(queue[1]))
      BY <1>6 DEF Current, CurrentTransition
    <3> QED BY <1>3, <3>1 DEF TypeOK
  <2> QED BY <1>6, <2>1, OthersAreRead
<1>7. ASSUME NEW p \in Peers, Current(1, p)
      PROVE  ObserverAgrees(p)'
  <2>1. state'[p].phase = queue[1].phase
    BY <1>7 DEF Current, CurrentTransition, TypeOK
  <2>2. /\ Len(queue) \in Nat /\ Len(queue') = Len(queue) - 1
        /\ \A i \in 1 .. Len(queue') :
             /\ i + 1 \in 1 .. Len(queue)
             /\ Current(i, p)' <=> Current(i + 1, p)
             /\ Ends(i, p)' <=> Ends(i + 1, p)
        /\ \A i \in 1 .. Len(queue) : i = 1 \/ i - 1 \in 1 .. Len(queue')
    BY <1>1, <1>4, PlacesAfterReceive
  <2>3. out[p].task \in {"live", "down", "done"} /\ out[p].task # "none"
    BY <1>2, <1>7, Numbers DEF ObserverAgrees, Observing
  <2>4. CASE out[p].task \in {"live", "down"}
    <3>1. queue[1].phase = "Connected"
      BY <1>2, <1>7, <2>4 DEF ObserverAgrees, Ends
    <3>2. \A i \in 1 .. Len(queue') : ~Ends(i, p)'
      BY <2>2, <2>4 DEF ObserverAgrees
    <3> QED BY <1>4, <2>1, <2>4, <3>1, <3>2 DEF ObserverAgrees
  <2>5. CASE out[p].task = "done"
    <3>1. ASSUME NEW i \in 1 .. Len(queue), i # 1, Ends(i, p)
          PROVE  i - 1 \in 1 .. Len(queue') /\ Ends(i - 1, p)'
      <4>1. i - 1 \in 1 .. Len(queue') /\ (i - 1) + 1 = i
        BY <2>2, <3>1
      <4> QED BY <2>2, <3>1, <4>1
    <3>2. state'[p].phase \in {"Connecting", "Connected"} => \E i \in 1 .. Len(queue') : Ends(i, p)'
      <4> SUFFICES ASSUME queue[1].phase = "Connected"
                   PROVE  \E i \in 1 .. Len(queue') : Ends(i, p)'
        BY <1>3, <1>7, <2>1 DEF Told, Current
      <4>1. PICK j \in 1 .. Len(queue) : Ends(j, p)
        BY <1>2, <1>7, <2>5 DEF ObserverAgrees
      <4>2. j # 1
        BY <4>1 DEF Ends
      <4> QED BY <3>1, <4>1, <4>2
    <3>3. ASSUME NEW i \in 1 .. Len(queue'), Current(i, p)'
          PROVE  \E j \in i .. Len(queue') : Ends(j, p)'
      <4>1. PICK j \in (i + 1) .. Len(queue) : Ends(j, p)
        BY <2>2, <2>5, <3>3 DEF ObserverAgrees
      <4>2. j \in 1 .. Len(queue) /\ j # 1 /\ j - 1 \in i .. Len(queue')
        BY <2>2, <4>1
      <4> QED BY <3>1, <4>1, <4>2
    <3> QED BY <1>4, <2>5, <3>2, <3>3 DEF ObserverAgrees
  <2> QED BY <2>3, <2>4, <2>5
<1> QED BY <1>2, <1>5, <1>6, <1>7

-----------------------------------------------------------------------------
(* Rows.                                                                   *)

\* A row that no one writes, of a peer whose state and advertisement stay.
LEMMA RowUntouched ==
  ASSUME NEW p \in Peers, RowHolds(p), row'[p] = row[p], screens'[p] = screens[p],
         p \in adv' <=> p \in adv, state'[p] = state[p]
  PROVE  RowHolds(p)'
  BY DEF RowHolds, Shows, Follows, Visible, NoRow

\* What PutRow needs to know of a row that it writes.
LEMMA PutRowHolds ==
  ASSUME TypeOK, NEW p \in Peers, NEW r \in Rows, PutRow(p, r), Follows(r, state'[p]),
         state'[p].gen \in Nat, r.present <=> p \in adv',
         screens[p] = "Available" <=> r.screen = "Available"
  PROVE  /\ RowHolds(p)'
         /\ \A q \in Peers \ {p} : row'[q] = row[q] /\ screens'[q] = screens[q]
         /\ row' \in [Peers -> Rows] /\ screens' \in [Peers -> {"none", "Available", "Withdrawn"}]
<1>1. NoRow \in Rows /\ ~Visible(NoRow)
  BY DEF NoRow, Rows, Phases, Visible
<1>2. CASE Visible(r)
  <2>1. row' = [row EXCEPT ![p] = r] /\ screens' = screens
    BY <1>2 DEF PutRow
  <2>2. row'[p] = r
    BY <2>1 DEF TypeOK
  <2>3. RowHolds(p)'
    BY <1>2, <2>1, <2>2 DEF RowHolds, Shows, Follows, Visible
  <2> QED BY <2>1, <2>3 DEF TypeOK
<1>3. CASE ~Visible(r)
  <2>1. row' = [row EXCEPT ![p] = NoRow] /\ screens' = [screens EXCEPT ![p] = "none"]
    BY <1>3 DEF PutRow
  <2>2. row'[p] = NoRow /\ screens'[p] = "none"
    BY <2>1 DEF TypeOK
  <2>3. p \notin adv'
    BY <1>3 DEF Visible, Rows
  <2>4. RowHolds(p)'
    BY <2>2, <2>3 DEF RowHolds, Shows, Follows, NoRow
  <2> QED BY <1>1, <2>1, <2>4 DEF TypeOK
<1> QED BY <1>2, <1>3

\* The row of a peer that advertises is present and otherwise what it was.
LEMMA UpsertedRow ==
  ASSUME TypeOK, NEW p \in Peers, RowHolds(p)
  PROVE  /\ Upserted(p) \in Rows /\ Upserted(p).present
         /\ Upserted(p).gen = row[p].gen /\ Upserted(p).phase = row[p].phase
         /\ screens[p] = "Available" <=> Upserted(p).screen = "Available"
<1>1. row[p] \in Rows /\ screens[p] \in {"none", "Available", "Withdrawn"}
  BY DEF TypeOK
<1>2. CASE p \in adv
  BY <1>1, <1>2 DEF Upserted, RowHolds, Shows
<1>3. CASE p \notin adv
  <2>1. Upserted(p) = [row[p] EXCEPT !.present = TRUE, !.screen = screens[p]]
    BY <1>3 DEF Upserted
  <2> QED BY <1>1, <2>1 DEF Rows
<1> QED BY <1>2, <1>3

\* A dial begins: the row is one of the current dial, or of the next.
LEMMA BegunRow ==
  ASSUME TypeOK, NEW p \in Peers, RowHolds(p), MayConnect(p)
  PROVE  /\ Begun(p) \in Rows /\ Begun(p).present /\ Begun(p) # NoRow
         /\ Begun(p).phase = "Connecting" /\ Begun(p).gen <= state[p].gen + 1
         /\ screens[p] = "Available" <=> Begun(p).screen = "Available"
         /\ Kept(p, TRUE) \/ Kept(p, FALSE) =>
              (ObserverAgrees(p) =>
                 /\ Begun(p).gen <= state[p].gen
                 /\ state[p].phase \in {"Connecting", "Connected"})
<1> DEFINE r == Upserted(p)
<1>1. /\ r \in Rows /\ r.present /\ r.gen = row[p].gen /\ r.phase = row[p].phase
      /\ screens[p] = "Available" <=> r.screen = "Available"
  BY UpsertedRow
<1>2. /\ r.gen \in Nat /\ state[p].gen \in Nat /\ Follows(r, state[p])
      /\ r.phase \in {"Waiting", "Connecting", "Failed", "Disconnected"}
  <2>1. row[p].gen \in Nat /\ state[p].gen \in Nat
    BY DEF TypeOK, Rows
  <2> QED BY <1>1, <2>1 DEF RowHolds, Follows, MayConnect
<1>3. Begun(p) = IF r.phase = "Connecting" THEN r
                 ELSE [r EXCEPT !.gen = r.gen + 1, !.phase = "Connecting"]
  BY DEF Begun
<1> HIDE DEF r
<1>4. /\ Begun(p) \in Rows /\ Begun(p).present /\ Begun(p).phase = "Connecting"
      /\ Begun(p).gen = (IF r.phase = "Connecting" THEN r.gen ELSE r.gen + 1)
      /\ Begun(p).screen = r.screen
  <2>1. CASE r.phase = "Connecting"
    BY <1>1, <1>3, <2>1
  <2>2. CASE r.phase # "Connecting"
    <3>1. Begun(p) = [r EXCEPT !.gen = r.gen + 1, !.phase = "Connecting"]
      BY <1>3, <2>2
    <3>2. r = [present |-> r.present, gen |-> r.gen, phase |-> r.phase, screen |-> r.screen]
          /\ r.present \in BOOLEAN /\ r.screen \in {"none", "Available", "Withdrawn"}
      BY <1>1 DEF Rows
    <3>3. Begun(p) = [present |-> r.present, gen |-> r.gen + 1, phase |-> "Connecting",
                      screen |-> r.screen]
      BY <3>1, <3>2
    <3> QED BY <1>1, <1>2, <2>2, <3>2, <3>3 DEF Rows, Phases
  <2> QED BY <2>1, <2>2
<1>5. Begun(p) # NoRow
  BY <1>4 DEF NoRow
<1>6. Begun(p).gen <= state[p].gen + 1
  BY <1>2, <1>4 DEF Follows
<1>7. ASSUME Kept(p, TRUE) \/ Kept(p, FALSE), ObserverAgrees(p)
      PROVE  Begun(p).gen <= state[p].gen /\ state[p].phase \in {"Connecting", "Connected"}
  <2>1. state[p].phase \in {"Connecting", "Connected"} /\ state[p].gen > 0
    BY <1>7 DEF Kept, LinkUp, ObserverAgrees
  <2>2. r.phase # "Connecting" => r.gen # state[p].gen
    BY <1>2, <2>1 DEF Follows
  <2> QED BY <1>2, <1>4, <2>1, <2>2 DEF Follows
<1> QED BY <1>1, <1>4, <1>5, <1>6, <1>7

-----------------------------------------------------------------------------
(* Inbound sessions and their reports.                                     *)

\* Who was heard after a report was sent.
LEMMA HeardAfterSend ==
  ASSUME queue \in Seq(Reports), NEW e \in Reports, queue' = Append(queue, e), NEW id
  PROVE  /\ Len(queue) \in Nat /\ Len(queue') = Len(queue) + 1
         /\ \A i \in 1 .. Len(queue) : \A a \in Told : Says(i, id, a)' <=> Says(i, id, a)
         /\ \A i \in 1 .. Len(queue') : i = Len(queue) + 1 \/ i \in 1 .. Len(queue)
         /\ \A i \in 1 .. Len(queue') : i = Len(queue) + 1 =>
              \A a \in Told : Says(i, id, a)' <=> e = InboundReport(id, a)
         /\ \A a \in Told : Heard(id, a)' <=> Heard(id, a) \/ e = InboundReport(id, a)
<1>1. /\ Len(queue) \in Nat /\ Len(Append(queue, e)) = Len(queue) + 1
      /\ \A i \in 1 .. Len(queue) :
           Append(queue, e)[i] = queue[i] /\ i \in 1 .. Len(Append(queue, e))
      /\ Append(queue, e)[Len(queue) + 1] = e /\ Len(queue) + 1 \in 1 .. Len(Append(queue, e))
      /\ \A i \in 1 .. Len(Append(queue, e)) : i = Len(queue) + 1 \/ i \in 1 .. Len(queue)
  BY AppendAdds
<1>2. /\ \A i \in 1 .. Len(queue) : queue'[i] = queue[i] /\ i \in 1 .. Len(queue')
      /\ queue'[Len(queue) + 1] = e /\ Len(queue) + 1 \in 1 .. Len(queue')
      /\ \A i \in 1 .. Len(queue') : i = Len(queue) + 1 \/ i \in 1 .. Len(queue)
  BY <1>1
<1>3. ASSUME NEW r
      PROVE  (\E i \in 1 .. Len(queue') : queue'[i] = r) <=> (\E i \in 1 .. Len(queue) : queue[i] = r) \/ e = r
  BY <1>2
<1>4. \A a \in Told : Heard(id, a)' <=> Heard(id, a) \/ e = InboundReport(id, a)
  BY <1>3 DEF Heard, Queued
<1>5. \A i \in 1 .. Len(queue) : \A a \in Told : Says(i, id, a)' <=> Says(i, id, a)
  BY <1>2 DEF Says
<1>6. \A i \in 1 .. Len(queue') : i = Len(queue) + 1 =>
        \A a \in Told : Says(i, id, a)' <=> e = InboundReport(id, a)
  BY <1>2 DEF Says
<1> QED BY <1>1, <1>2, <1>4, <1>5, <1>6

\* Who is still to be heard after a report was read.
LEMMA HeardAfterReceive ==
  ASSUME queue \in Seq(Reports), queue # <<>>, queue' = Tail(queue), NEW id
  PROVE  /\ Len(queue) \in Nat /\ Len(queue') = Len(queue) - 1
         /\ queue[1] \in Reports /\ Head(queue) = queue[1] /\ 1 \in 1 .. Len(queue)
         /\ \A i \in 1 .. Len(queue') : /\ i + 1 \in 1 .. Len(queue)
                                        /\ \A a \in Told : Says(i, id, a)' <=> Says(i + 1, id, a)
         /\ \A a \in Told : /\ Heard(id, a)' => \E i \in 1 .. Len(queue) : i # 1 /\ Says(i, id, a)
                            /\ Heard(id, a) => Heard(id, a)' \/ queue[1] = InboundReport(id, a)
                            /\ Heard(id, a)' => Heard(id, a)
<1>1. /\ Len(queue) \in Nat /\ Len(Tail(queue)) = Len(queue) - 1
      /\ \A i \in 1 .. Len(Tail(queue)) : Tail(queue)[i] = queue[i + 1] /\ i + 1 \in 1 .. Len(queue)
      /\ Head(queue) = queue[1] /\ Head(queue) \in Reports /\ 1 \in 1 .. Len(queue)
  BY TailShifts
<1>2. \A i \in 1 .. Len(queue) : i # 1 => i - 1 \in 1 .. Len(queue') /\ queue'[i - 1] = queue[i]
  BY TailKeepsTheRest
<1>3. \A i \in 1 .. Len(queue') : /\ i + 1 \in 1 .. Len(queue) /\ i + 1 # 1
                                  /\ queue'[i] = queue[i + 1]
  BY <1>1
<1>4. \A i \in 1 .. Len(queue') : \A a \in Told : Says(i, id, a)' <=> Says(i + 1, id, a)
  BY <1>3 DEF Says
<1>5. ASSUME NEW a \in Told
      PROVE  /\ Heard(id, a)' => \E i \in 1 .. Len(queue) : i # 1 /\ Says(i, id, a)
             /\ Heard(id, a) => Heard(id, a)' \/ queue[1] = InboundReport(id, a)
             /\ Heard(id, a)' => Heard(id, a)
  <2>1. Heard(id, a)' <=> \E i \in 1 .. Len(queue') : queue'[i] = InboundReport(id, a)
    BY DEF Heard, Queued
  <2>2. Heard(id, a) <=> \E i \in 1 .. Len(queue) : queue[i] = InboundReport(id, a)
    BY DEF Heard, Queued
  <2>3. ASSUME Heard(id, a)'
        PROVE  \E i \in 1 .. Len(queue) : i # 1 /\ queue[i] = InboundReport(id, a)
    <3>1. PICK i \in 1 .. Len(queue') : queue'[i] = InboundReport(id, a)
      BY <2>1, <2>3
    <3> QED BY <1>3, <3>1
  <2>4. ASSUME Heard(id, a)
        PROVE  Heard(id, a)' \/ queue[1] = InboundReport(id, a)
    <3>1. PICK i \in 1 .. Len(queue) : queue[i] = InboundReport(id, a)
      BY <2>2, <2>4
    <3>2. CASE i = 1
      BY <3>1, <3>2
    <3>3. CASE i # 1
      BY <1>2, <2>1, <3>1, <3>3
    <3> QED BY <3>2, <3>3
  <2> QED BY <2>2, <2>3, <2>4 DEF Says
<1> QED BY <1>1, <1>3, <1>4, <1>5

\* Nothing of the inbound sessions is touched.
LEMMA InboundUntouched ==
  ASSUME TypeOK, InboundHolds, listener' = listener, inbound' = inbound,
         Running' => Running /\ count' = count,
         queue' = queue \/ \E e \in Reports : e.from = "outbound" /\ queue' = Append(queue, e)
  PROVE  InboundHolds'
<1>1. ASSUME NEW id
      PROVE  /\ \A a \in Told : Heard(id, a)' <=> Heard(id, a)
             /\ InboundAgrees(id) => InboundAgrees(id)'
  <2>1. CASE queue' = queue
    <3>1. \A i \in 1 .. Len(queue) : \A a \in Told : Says(i, id, a)' <=> Says(i, id, a)
      BY <2>1 DEF Says
    <3>2. \A a \in Told : Heard(id, a)' <=> Heard(id, a)
      BY <2>1 DEF Heard, Queued
    <3> QED BY <2>1, <3>1, <3>2 DEF InboundAgrees, Told
  <2>2. ASSUME NEW e \in Reports, e.from = "outbound", queue' = Append(queue, e)
        PROVE  /\ \A a \in Told : Heard(id, a)' <=> Heard(id, a)
               /\ InboundAgrees(id) => InboundAgrees(id)'
    <3>1. \A a \in Told : e # InboundReport(id, a)
      BY <2>2 DEF InboundReport
    <3>2. /\ Len(queue) \in Nat /\ Len(queue') = Len(queue) + 1
          /\ \A i \in 1 .. Len(queue) : \A a \in Told : Says(i, id, a)' <=> Says(i, id, a)
          /\ \A i \in 1 .. Len(queue') : i = Len(queue) + 1 \/ i \in 1 .. Len(queue)
          /\ \A i \in 1 .. Len(queue') : i = Len(queue) + 1 => \A a \in Told : ~Says(i, id, a)'
          /\ \A a \in Told : Heard(id, a)' <=> Heard(id, a)
      <4>1. queue \in Seq(Reports)
        BY DEF TypeOK
      <4> HIDE DEF Heard, Says
      <4> QED BY <2>2, <3>1, <4>1, HeardAfterSend
    <3> QED BY <3>2 DEF InboundAgrees, Told
  <2> QED BY <2>1, <2>2
<1>2. Counted' = Counted
  BY <1>1 DEF Counted, Told
<1> QED BY <1>1, <1>2 DEF InboundHolds

-----------------------------------------------------------------------------
(* The invariant, action by action.                                        *)

\* The rest of a step that leaves observers, reports and listener alone.
LEMMA RowsOnly ==
  ASSUME SessionsInvariant, UNCHANGED <<phase, state, out, inbound, count, listener, queue>>,
         adv' \in SUBSET Peers, row' \in [Peers -> Rows],
         screens' \in [Peers -> {"none", "Available", "Withdrawn"}],
         Running => \A p \in Peers : RowHolds(p)'
  PROVE  SessionsInvariant'
<1>1. TypeOK /\ ReportsArePast /\ (\A p \in Peers : ObserverAgrees(p)) /\ InboundHolds
  BY DEF SessionsInvariant
<1>2. ReportsArePast' /\ \A p \in Peers : ObserverAgrees(p)'
  BY <1>1, ObserversUnaware
<1>3. InboundHolds'
  BY <1>1, InboundUntouched DEF Running
<1>4. TypeOK'
  BY <1>1 DEF TypeOK
<1> QED BY <1>2, <1>3, <1>4 DEF SessionsInvariant, Running

\* An advertisement that is no reason to dial.
LEMMA FoundOnlyKeeps ==
  ASSUME SessionsInvariant, NEW p \in Peers, FoundOnly(p)
  PROVE  SessionsInvariant'
<1>1. TypeOK /\ \A q \in Peers : RowHolds(q)
  BY DEF SessionsInvariant, FoundOnly, Found
<1>2. /\ Upserted(p) \in Rows /\ Upserted(p).present
      /\ Upserted(p).gen = row[p].gen /\ Upserted(p).phase = row[p].phase
      /\ screens[p] = "Available" <=> Upserted(p).screen = "Available"
  BY <1>1, UpsertedRow
<1>3. /\ row' = [row EXCEPT ![p] = Upserted(p)] /\ adv' = adv \cup {p}
      /\ UNCHANGED <<phase, screens, state, out, inbound, count, listener, queue>>
  BY DEF FoundOnly, Found
<1>4. row'[p] = Upserted(p) /\ \A q \in Peers \ {p} : row'[q] = row[q]
  BY <1>1, <1>3 DEF TypeOK
<1>5. RowHolds(p)'
  <2>1. Follows(Upserted(p), state[p])
    BY <1>1, <1>2 DEF RowHolds, Follows
  <2>2. RowHolds(p)' <=> /\ Follows(row'[p], state'[p])
                         /\ row'[p].present <=> p \in adv'
                         /\ screens'[p] = "Available" <=> row'[p].screen = "Available"
                         /\ row'[p] # NoRow => Visible(row'[p])
    BY DEF RowHolds, Shows, Follows, NoRow, Visible
  <2> QED BY <1>2, <1>3, <1>4, <2>1, <2>2 DEF Visible
<1>6. \A q \in Peers \ {p} : RowHolds(q)'
  BY <1>1, <1>3, <1>4, RowUntouched
<1>7. row' \in [Peers -> Rows] /\ screens' \in [Peers -> {"none", "Available", "Withdrawn"}]
      /\ adv' \in SUBSET Peers
  BY <1>1, <1>2, <1>3 DEF TypeOK
<1> QED BY <1>3, <1>5, <1>6, <1>7, RowsOnly

\* An advertisement that finds a connection worth keeping.
LEMMA FoundKeptKeeps ==
  ASSUME SessionsInvariant, NEW p \in Peers, NEW fresh \in BOOLEAN, FoundKept(p, fresh)
  PROVE  SessionsInvariant'
<1>1. TypeOK /\ (\A q \in Peers : RowHolds(q)) /\ \A q \in Peers : ObserverAgrees(q)
  BY DEF SessionsInvariant, FoundKept, Found
<1> DEFINE r == Applied(Begun(p), state[p].gen, state[p].phase)
<1>2. /\ PutRow(p, r) /\ adv' = adv \cup {p} /\ MayConnect(p) /\ Kept(p, fresh)
      /\ UNCHANGED <<phase, state, out, inbound, count, listener, queue>>
  BY DEF FoundKept, Found
<1>3. /\ Begun(p) \in Rows /\ Begun(p).present /\ Begun(p) # NoRow
      /\ screens[p] = "Available" <=> Begun(p).screen = "Available"
      /\ Begun(p).gen <= state[p].gen /\ state[p].phase \in {"Connecting", "Connected"}
  BY <1>1, <1>2, BegunRow
<1>4. r = [Begun(p) EXCEPT !.gen = state[p].gen, !.phase = state[p].phase]
  BY <1>3 DEF Applied, NotOlder
<1>5. /\ r \in Rows /\ r.present /\ r.gen = state[p].gen /\ r.phase = state[p].phase
      /\ r.screen = Begun(p).screen /\ state[p].gen \in Nat
  BY <1>1, <1>3, <1>4 DEF Rows, TypeOK
<1> HIDE DEF r
<1>6. Follows(r, state[p])
  BY <1>3, <1>5 DEF Follows
<1>7. /\ RowHolds(p)' /\ \A q \in Peers \ {p} : row'[q] = row[q] /\ screens'[q] = screens[q]
      /\ row' \in [Peers -> Rows] /\ screens' \in [Peers -> {"none", "Available", "Withdrawn"}]
  <2>1. r.present <=> p \in adv'
    BY <1>2, <1>5
  <2> QED BY <1>1, <1>2, <1>3, <1>5, <1>6, <2>1, PutRowHolds DEF r
<1>8. \A q \in Peers \ {p} : RowHolds(q)'
  BY <1>1, <1>2, <1>7, RowUntouched
<1> QED BY <1>1, <1>2, <1>7, <1>8, RowsOnly DEF TypeOK

\* A lost advertisement.
LEMMA LostKeeps ==
  ASSUME SessionsInvariant, NEW p \in Peers, Lost(p)
  PROVE  SessionsInvariant'
<1>1. TypeOK /\ \A q \in Peers : RowHolds(q)
  BY DEF SessionsInvariant, Lost
<1> DEFINE r == [row[p] EXCEPT !.present = FALSE]
<1>2. /\ PutRow(p, r) /\ adv' = adv \ {p}
      /\ UNCHANGED <<phase, state, out, inbound, count, listener, queue>>
  BY DEF Lost
<1>3. /\ r \in Rows /\ ~r.present /\ r.gen = row[p].gen /\ r.phase = row[p].phase
      /\ r.screen = row[p].screen /\ state[p].gen \in Nat
  <2>1. row[p] \in Rows /\ state[p].gen \in Nat
    BY <1>1 DEF TypeOK
  <2> QED BY <2>1 DEF Rows
<1> HIDE DEF r
<1>4. /\ RowHolds(p)' /\ \A q \in Peers \ {p} : row'[q] = row[q] /\ screens'[q] = screens[q]
      /\ row' \in [Peers -> Rows] /\ screens' \in [Peers -> {"none", "Available", "Withdrawn"}]
  <2>1. r.present <=> p \in adv'
    BY <1>2, <1>3
  <2>2. Follows(r, state'[p]) /\ (screens[p] = "Available" <=> r.screen = "Available")
    BY <1>1, <1>2, <1>3 DEF RowHolds, Shows, Follows
  <2> QED BY <1>1, <1>2, <1>3, <2>1, <2>2, PutRowHolds DEF r
<1>5. \A q \in Peers \ {p} : RowHolds(q)'
  BY <1>1, <1>2, <1>4, RowUntouched
<1> QED BY <1>1, <1>2, <1>4, <1>5, RowsOnly DEF TypeOK

\* A screen comes or goes.
LEMMA RemoteScreenKeeps ==
  ASSUME SessionsInvariant, NEW p \in Peers, NEW to \in {"Available", "Withdrawn"},
         RemoteScreen(p, to)
  PROVE  SessionsInvariant'
<1>1. TypeOK /\ \A q \in Peers : RowHolds(q)
  BY DEF SessionsInvariant, RemoteScreen
<1> DEFINE r == [row[p] EXCEPT !.screen = to]
<1>2. UNCHANGED <<phase, adv, state, out, inbound, count, listener, queue>>
  BY DEF RemoteScreen
<1>3. /\ r \in Rows /\ r.present = row[p].present /\ r.gen = row[p].gen
      /\ r.phase = row[p].phase /\ r.screen = to /\ row[p] \in Rows
  <2>1. row[p] \in Rows
    BY <1>1 DEF TypeOK
  <2> QED BY <2>1 DEF Rows
<1>4. \/ row[p] = NoRow /\ to = "Withdrawn" /\ screens' = [screens EXCEPT ![p] = to] /\ row' = row
      \/ Visible(r) /\ row' = [row EXCEPT ![p] = r] /\ screens' = [screens EXCEPT ![p] = to]
      \/ ~Visible(r) /\ row' = [row EXCEPT ![p] = NoRow] /\ screens' = [screens EXCEPT ![p] = "none"]
  BY DEF RemoteScreen
<1> HIDE DEF r
<1>5. NoRow \in Rows /\ NoRow.screen = "none" /\ ~NoRow.present /\ NoRow.gen = 0
      /\ NoRow.phase = "Waiting"
  BY DEF NoRow, Rows, Phases
<1>6. /\ Follows(row[p], state[p]) /\ (row[p].present <=> p \in adv) /\ state[p].gen \in Nat
      /\ Follows(r, state[p]) /\ Follows(NoRow, state[p])
  <2>1. state[p].gen \in Nat
    BY <1>1 DEF TypeOK
  <2> QED BY <1>1, <1>3, <1>5, <2>1 DEF RowHolds, Shows, Follows
<1>7. RowHolds(p)' <=> /\ Follows(row'[p], state'[p])
                       /\ row'[p].present <=> p \in adv'
                       /\ screens'[p] = "Available" <=> row'[p].screen = "Available"
                       /\ row'[p] # NoRow => Visible(row'[p])
  BY DEF RowHolds, Shows, Follows, NoRow, Visible
<1>8. /\ row' \in [Peers -> Rows] /\ screens' \in [Peers -> {"none", "Available", "Withdrawn"}]
      /\ \A q \in Peers \ {p} : row'[q] = row[q] /\ screens'[q] = screens[q]
  <2>1. /\ row \in [Peers -> Rows]
        /\ screens \in [Peers -> {"none", "Available", "Withdrawn"}]
    BY <1>1 DEF TypeOK
  <2> QED BY <1>3, <1>4, <1>5, <2>1
<1>9. RowHolds(p)'
  <2>1. CASE row[p] = NoRow /\ to = "Withdrawn" /\ screens' = [screens EXCEPT ![p] = to] /\ row' = row
    <3>1. screens'[p] = "Withdrawn"
      BY <1>1, <2>1 DEF TypeOK
    <3> QED BY <1>2, <1>5, <1>6, <1>7, <2>1, <3>1
  <2>2. CASE Visible(r) /\ row' = [row EXCEPT ![p] = r] /\ screens' = [screens EXCEPT ![p] = to]
    <3>1. screens'[p] = to /\ row'[p] = r
      BY <1>1, <2>2 DEF TypeOK
    <3> QED BY <1>2, <1>3, <1>6, <1>7, <2>2, <3>1
  <2>3. CASE ~Visible(r) /\ row' = [row EXCEPT ![p] = NoRow] /\ screens' = [screens EXCEPT ![p] = "none"]
    <3>1. screens'[p] = "none" /\ row'[p] = NoRow
      BY <1>1, <2>3 DEF TypeOK
    <3>2. ~row[p].present
      BY <1>3, <2>3 DEF Visible, Rows
    <3> QED BY <1>2, <1>5, <1>6, <1>7, <3>1, <3>2
  <2> QED BY <1>4, <2>1, <2>2, <2>3
<1>10. \A q \in Peers \ {p} : RowHolds(q)'
  BY <1>1, <1>2, <1>8, RowUntouched
<1> QED BY <1>1, <1>2, <1>8, <1>9, <1>10, RowsOnly DEF TypeOK

\* The queue as the step of an observer leaves it.
QueueStep(p) ==
  /\ queue' = queue \/ \E e \in Reports : e.from = "outbound" /\ queue' = Append(queue, e)
  /\ Len(queue') <= QueueCap

\* What there is room for fits.
LEMMA SessionsRoom ==
  ASSUME SessionsAssumption, TypeOK, Room, NEW e \in Reports, queue' = Append(queue, e)
  PROVE  Len(queue') <= QueueCap /\ queue' \in Seq(Reports)
<1>1. QueueCap \in Nat /\ queue \in Seq(Reports) /\ Len(queue) \in Nat
  BY Numbers DEF SessionsAssumption, TypeOK
<1>2. Len(Append(queue, e)) = Len(queue) + 1 /\ Append(queue, e) \in Seq(Reports)
  BY <1>1, AppendAdds
<1> QED BY <1>1, <1>2 DEF Room

\* An observer that is aborted sends at most one report.
LEMMA AbortedSends ==
  ASSUME SessionsAssumption, TypeOK, NEW p \in Peers, ObserverAborted(p)
  PROVE  QueueStep(p)
<1>1. CASE queue' = queue
  BY <1>1 DEF QueueStep, TypeOK
<1>2. ASSUME NEW e \in Unsent(p), Room, queue' = Append(queue, e)
      PROVE  QueueStep(p)
  <2>1. out[p].gen \in Nat
    BY Numbers
  <2>2. PICK to \in Told : e = Report(p, out[p].gen, to)
    BY DEF Unsent, Told
  <2>3. e \in Reports /\ e.from = "outbound"
    BY <2>1, <2>2, SentAreReports
  <2> QED BY <1>2, <2>3, SessionsRoom DEF QueueStep
<1> QED BY <1>1, <1>2 DEF ObserverAborted

\* A new dial: the generation rises, and row and state speak of it.
LEMMA FoundDialedKeeps ==
  ASSUME SessionsAssumption, SessionsInvariant, NEW p \in Peers, NEW fresh \in BOOLEAN, NEW ok \in BOOLEAN,
         FoundDialed(p, fresh, ok)
  PROVE  SessionsInvariant'
<1>1. /\ TypeOK /\ ReportsArePast /\ (\A q \in Peers : RowHolds(q))
      /\ (\A q \in Peers : ObserverAgrees(q)) /\ InboundHolds
  BY DEF SessionsInvariant, FoundDialed, Found
<1> DEFINE gen == state[p].gen + 1
           s == [gen |-> gen, phase |-> IF ok THEN "Connecting" ELSE "Failed"]
           o == IF ok THEN [task |-> "dialing", gen |-> gen, late |-> FALSE] ELSE NoOut
           r == IF ok THEN Applied(Begun(p), gen, "Connecting")
                ELSE [Begun(p) EXCEPT !.phase = "Failed"]
<1>2. /\ PutRow(p, r) /\ adv' = adv \cup {p} /\ MayConnect(p) /\ ObserverAborted(p) /\ Running
      /\ state' = [state EXCEPT ![p] = s] /\ out' = [out EXCEPT ![p] = o]
      /\ UNCHANGED <<phase, inbound, count, listener>>
  BY DEF FoundDialed, Found
<1>3. /\ Begun(p) \in Rows /\ Begun(p).present /\ Begun(p) # NoRow
      /\ Begun(p).phase = "Connecting" /\ Begun(p).gen <= gen
      /\ screens[p] = "Available" <=> Begun(p).screen = "Available"
  BY <1>1, <1>2, BegunRow
<1>4. gen \in Nat /\ state[p].gen \in Nat /\ Begun(p).gen \in Nat
  BY <1>1, <1>3 DEF TypeOK, Rows
<1>5. /\ r \in Rows /\ r.present /\ r.screen = Begun(p).screen /\ Follows(r, s)
  <2>1. CASE ok
    <3>1. r = [Begun(p) EXCEPT !.gen = gen, !.phase = "Connecting"]
      BY <1>3, <2>1 DEF Applied, NotOlder
    <3>2. r \in Rows /\ r.present /\ r.screen = Begun(p).screen /\ r.gen = gen /\ r.phase = "Connecting"
      BY <1>3, <1>4, <3>1 DEF Rows, Phases
    <3> QED BY <1>4, <2>1, <3>2 DEF Follows
  <2>2. CASE ~ok
    <3>1. r = [Begun(p) EXCEPT !.phase = "Failed"]
      BY <2>2
    <3>2. /\ r \in Rows /\ r.present /\ r.screen = Begun(p).screen /\ r.gen = Begun(p).gen
          /\ r.phase = "Failed"
      BY <1>3, <3>1 DEF Rows, Phases
    <3> QED BY <1>3, <1>4, <2>2, <3>2 DEF Follows
  <2> QED BY <2>1, <2>2
<1>6. s \in [gen : Nat, phase : Phases] /\ o \in [task : Observing, gen : Nat, late : BOOLEAN]
  BY <1>4 DEF Phases, Observing, NoOut
<1>7. ReportsArePast' /\ (\A q \in Peers : ObserverAgrees(q)') /\ queue' \in Seq(Reports)
  <2>1. \/ o.task = "dialing" /\ o.gen = s.gen /\ s.phase = "Connecting"
        \/ o.task = "none" /\ s.phase \notin {"Connecting", "Connected"}
    BY DEF NoOut
  <2>2. s.gen = state[p].gen + 1
    OBVIOUS
  <2> HIDE DEF s, o
  <2> QED BY <1>1, <1>2, <2>1, <2>2, NewGenerationAgrees
<1> HIDE DEF gen, r, s, o
<1>8. /\ RowHolds(p)' /\ \A q \in Peers \ {p} : row'[q] = row[q] /\ screens'[q] = screens[q]
      /\ row' \in [Peers -> Rows] /\ screens' \in [Peers -> {"none", "Available", "Withdrawn"}]
  <2>1. state'[p] = s /\ s.gen \in Nat
    BY <1>1, <1>2, <1>6 DEF TypeOK
  <2>2. r.present <=> p \in adv'
    BY <1>2, <1>5
  <2> QED BY <1>1, <1>2, <1>3, <1>5, <2>1, <2>2, PutRowHolds
<1>9. \A q \in Peers \ {p} : RowHolds(q)'
  <2>1. \A q \in Peers \ {p} : state'[q] = state[q] /\ (q \in adv' <=> q \in adv)
    BY <1>1, <1>2 DEF TypeOK
  <2> QED BY <1>1, <1>8, <2>1, RowUntouched
<1>10. QueueStep(p)
  BY <1>1, <1>2, AbortedSends
<1>11. InboundHolds' /\ Len(queue') <= QueueCap
  BY <1>1, <1>2, <1>10, InboundUntouched DEF Running, QueueStep
<1>12. TypeOK'
  BY <1>1, <1>2, <1>6, <1>7, <1>8, <1>11 DEF TypeOK
<1> QED BY <1>7, <1>8, <1>9, <1>11, <1>12 DEF SessionsInvariant

\* SessionFoundation::shutdown stops an outbound connection.
LEMMA StopOutboundKeeps ==
  ASSUME SessionsAssumption, SessionsInvariant, NEW p \in Peers, StopOutbound(p)
  PROVE  SessionsInvariant'
<1>1. /\ TypeOK /\ ReportsArePast /\ (\A q \in Peers : ObserverAgrees(q)) /\ InboundHolds
  BY DEF SessionsInvariant
<1> DEFINE s == [gen |-> state[p].gen + 1, phase |-> "Disconnected"]
<1>2. /\ ObserverAborted(p) /\ phase = "stopping"
      /\ state' = [state EXCEPT ![p] = s] /\ out' = [out EXCEPT ![p] = NoOut]
      /\ UNCHANGED <<phase, adv, row, screens, inbound, count, listener>>
  BY DEF StopOutbound
<1>3. /\ s \in [gen : Nat, phase : Phases] /\ NoOut \in [task : Observing, gen : Nat, late : BOOLEAN]
      /\ s.gen = state[p].gen + 1 /\ s.phase = "Disconnected" /\ NoOut.task = "none"
  BY <1>1 DEF Phases, Observing, NoOut, TypeOK
<1> HIDE DEF s
<1>4. ReportsArePast' /\ (\A q \in Peers : ObserverAgrees(q)') /\ queue' \in Seq(Reports)
  BY <1>1, <1>2, <1>3, NewGenerationAgrees
<1>5. QueueStep(p)
  BY <1>1, <1>2, AbortedSends
<1>6. InboundHolds' /\ Len(queue') <= QueueCap
  BY <1>1, <1>2, <1>5, InboundUntouched DEF Running, QueueStep
<1>7. TypeOK'
  BY <1>1, <1>2, <1>3, <1>4, <1>6 DEF TypeOK
<1> QED BY <1>2, <1>4, <1>6, <1>7 DEF SessionsInvariant, Running

\* An observer moves on, or reports.
LEMMA ObserverKeeps ==
  ASSUME SessionsAssumption, SessionsInvariant, NEW p \in Peers, Observer(p)
  PROVE  SessionsInvariant'
<1>1. /\ TypeOK /\ ReportsArePast /\ (\A q \in Peers : ObserverAgrees(q)) /\ InboundHolds
  BY DEF SessionsInvariant
<1>2. UNCHANGED <<phase, adv, row, screens, state, inbound, count, listener>>
  BY DEF Observer, Establishes, SetupFails, Closes, DeadlinePasses, ObserverReports, Observes
<1>3. out' \in [Peers -> [task : Observing, gen : Nat, late : BOOLEAN]]
  <2>1. out[p] \in [task : Observing, gen : Nat, late : BOOLEAN]
    BY <1>1 DEF TypeOK
  <2>2. \/ \E to \in Observing : out' = [out EXCEPT ![p].task = to]
        \/ out' = [out EXCEPT ![p].late = TRUE, ![p].task = "failed"]
    BY DEF Observer, Establishes, SetupFails, Closes, DeadlinePasses, ObserverReports, Observes,
           Observing
  <2>3. \A to \in Observing :
          [out[p] EXCEPT !.task = to] \in [task : Observing, gen : Nat, late : BOOLEAN]
    BY <2>1
  <2>4. [out[p] EXCEPT !.late = TRUE, !.task = "failed"] \in [task : Observing, gen : Nat, late : BOOLEAN]
    BY <2>1 DEF Observing
  <2>5. ASSUME NEW o \in [task : Observing, gen : Nat, late : BOOLEAN], out' = [out EXCEPT ![p] = o]
        PROVE  out' \in [Peers -> [task : Observing, gen : Nat, late : BOOLEAN]]
    BY <1>1, <2>5 DEF TypeOK
  <2>6. CASE \E to \in Observing : out' = [out EXCEPT ![p].task = to]
    BY <2>3, <2>5, <2>6
  <2>7. CASE out' = [out EXCEPT ![p].late = TRUE, ![p].task = "failed"]
    <3>1. out' = [out EXCEPT ![p] = [out[p] EXCEPT !.late = TRUE, !.task = "failed"]]
      BY <1>1, <2>7 DEF TypeOK
    <3> QED BY <2>4, <2>5, <3>1
  <2> QED BY <2>2, <2>6, <2>7
<1>4. CASE ObserverReports(p)
  <2>1. ReportsArePast' /\ (\A q \in Peers : ObserverAgrees(q)') /\ queue' \in Seq(Reports)
    BY <1>1, <1>4, ObserverSends
  <2>2. QueueStep(p)
    <3>1. \E to \in Told : queue' = Append(queue, Report(p, out[p].gen, to)) /\ Room
      BY <1>4 DEF ObserverReports, Told
    <3>2. out[p].gen \in Nat /\ queue \in Seq(Reports) /\ Len(queue) \in Nat
      BY <1>1, Numbers
    <3> QED BY <1>1, <3>1, <3>2, SentAreReports, SessionsRoom DEF QueueStep
  <2>3. InboundHolds' /\ Len(queue') <= QueueCap
    BY <1>1, <1>2, <2>2, InboundUntouched DEF Running, QueueStep
  <2>4. TypeOK'
    BY <1>1, <1>2, <1>3, <2>1, <2>3 DEF TypeOK
  <2>5. Running' => \A q \in Peers : RowHolds(q)'
    BY <1>2, RowUntouched DEF SessionsInvariant, Running
  <2> QED BY <2>1, <2>3, <2>4, <2>5 DEF SessionsInvariant
<1>5. CASE ~ObserverReports(p)
  <2>1. /\ queue' = queue /\ \A q \in Peers \ {p} : out'[q] = out[q]
        /\ out'[p].gen = out[p].gen
        /\ \/ out[p].task = "dialing" /\ out'[p].task \in {"up", "failed"}
           \/ out[p].task = "live" /\ out'[p].task = "down"
    BY <1>1, <1>5 DEF Observer, Establishes, SetupFails, Closes, DeadlinePasses, Observes, Deadline,
                      TypeOK
  <2>2. \A q \in Peers \ {p} : ObserverAgrees(q)'
    BY <1>1, <1>2, <2>1, ObserverUntouched
  <2>3. ObserverAgrees(p)'
    <3>1. \A i \in 1 .. Len(queue) : (Current(i, p)' <=> Current(i, p)) /\ (Ends(i, p)' <=> Ends(i, p))
      BY <1>2, <2>1 DEF Current, Ends
    <3> QED BY <1>1, <1>2, <2>1, <3>1 DEF ObserverAgrees
  <2>4. ReportsArePast'
    BY <1>1, <1>2, <2>1 DEF ReportsArePast
  <2>5. InboundHolds'
    BY <1>1, <1>2, <2>1, InboundUntouched DEF Running
  <2>6. TypeOK'
    BY <1>1, <1>2, <1>3, <2>1 DEF TypeOK
  <2>7. Running' => \A q \in Peers : RowHolds(q)'
    BY <1>2, RowUntouched DEF SessionsInvariant, Running
  <2> QED BY <2>2, <2>3, <2>4, <2>5, <2>6, <2>7 DEF SessionsInvariant
<1> QED BY <1>4, <1>5

\* An inbound session gets on without a report.
LEMMA ServesQuietly ==
  ASSUME SessionsInvariant, NEW id \in Inbounds,
         \E from, to \in Tasks :
           /\ inbound[id] = from /\ inbound' = [inbound EXCEPT ![id] = to]
           /\ \/ from \in {"idle", "accepting"} /\ to \in {"accepting", "up", "refused"}
              \/ from = "live" /\ to = "down",
         UNCHANGED <<phase, adv, row, screens, state, out, count, listener, queue>>
  PROVE  SessionsInvariant'
<1>1. /\ TypeOK /\ ReportsArePast /\ (\A q \in Peers : ObserverAgrees(q)) /\ InboundHolds
  BY DEF SessionsInvariant
<1>2. ReportsArePast' /\ \A q \in Peers : ObserverAgrees(q)'
  BY <1>1, ObserversUnaware
<1>3. Running' => \A q \in Peers : RowHolds(q)'
  BY RowUntouched DEF SessionsInvariant, Running
<1>4. /\ \A k \in Inbounds \ {id} : inbound'[k] = inbound[k]
      /\ \/ inbound[id] \in {"idle", "accepting"} /\ inbound'[id] \in {"accepting", "up", "refused"}
         \/ inbound[id] = "live" /\ inbound'[id] = "down"
      /\ inbound' \in [Inbounds -> Tasks]
  BY <1>1 DEF TypeOK
<1>5. \A k : \A a \in Told : /\ Heard(k, a)' <=> Heard(k, a)
                             /\ \A i \in 1 .. Len(queue) : Says(i, k, a)' <=> Says(i, k, a)
  BY DEF Heard, Queued, Says
<1>6. ASSUME listener = "accepting"
      PROVE  (\A k \in Inbounds : InboundAgrees(k)') /\ Counted' = Counted
  <2>1. \A k \in Inbounds : InboundAgrees(k)
    BY <1>1, <1>6 DEF InboundHolds
  <2>2. \A k \in Inbounds \ {id} : InboundAgrees(k)'
    BY <1>4, <1>5, <2>1 DEF InboundAgrees, Told
  <2>3. InboundAgrees(id)'
    BY <1>4, <1>5, <2>1 DEF InboundAgrees, Told
  <2>4. ASSUME NEW k \in Inbounds
        PROVE  /\ Heard(k, "Connected")' <=> Heard(k, "Connected")
               /\ inbound'[k] \in {"live", "down"} \/ Heard(k, "Disconnected")'
                    <=> inbound[k] \in {"live", "down"} \/ Heard(k, "Disconnected")
    BY <1>4, <1>5 DEF Told
  <2>5. Counted' = Counted
    BY <2>4 DEF Counted
  <2> QED BY <2>2, <2>3, <2>5
<1>7. InboundHolds'
  BY <1>1, <1>6 DEF InboundHolds, Running
<1>8. TypeOK'
  BY <1>1, <1>4 DEF TypeOK
<1> QED BY <1>2, <1>3, <1>7, <1>8 DEF SessionsInvariant

\* An inbound session reports.
LEMMA InboundReportsKeeps ==
  ASSUME SessionsAssumption, SessionsInvariant, NEW id \in Inbounds, InboundReports(id)
  PROVE  SessionsInvariant'
<1>1. /\ TypeOK /\ ReportsArePast /\ (\A q \in Peers : ObserverAgrees(q)) /\ InboundHolds
  BY DEF SessionsInvariant
<1>2. PICK to \in Told :
        /\ queue' = Append(queue, InboundReport(id, to)) /\ Room
        /\ UNCHANGED <<phase, adv, row, screens, state, out, count, listener>>
        /\ \/ to = "Connected" /\ inbound[id] = "up" /\ inbound' = [inbound EXCEPT ![id] = "live"]
           \/ to = "Disconnected" /\ inbound[id] = "down" /\ inbound' = [inbound EXCEPT ![id] = "done"]
           \/ to = "Failed" /\ inbound[id] = "refused" /\ inbound' = [inbound EXCEPT ![id] = "done"]
  BY DEF InboundReports, Serves, Told
<1> DEFINE e == InboundReport(id, to)
<1>3. /\ e \in Reports /\ e.from = "inbound"
      /\ \A k : \A a \in Told : e = InboundReport(k, a) <=> k = id /\ a = to
  BY SentAreReports DEF InboundReport
<1>4. queue' = Append(queue, e) /\ queue \in Seq(Reports)
  BY <1>1, <1>2 DEF TypeOK
<1> HIDE DEF e
<1>5. ReportsArePast' /\ \A q \in Peers : ObserverAgrees(q)'
  BY <1>1, <1>2, <1>3, <1>4, ObserversUnaware
<1>6. Running' => \A q \in Peers : RowHolds(q)'
  BY <1>2, RowUntouched DEF SessionsInvariant, Running
<1>7. /\ \A k \in Inbounds \ {id} : inbound'[k] = inbound[k]
      /\ \/ to = "Connected" /\ inbound[id] = "up" /\ inbound'[id] = "live"
         \/ to = "Disconnected" /\ inbound[id] = "down" /\ inbound'[id] = "done"
         \/ to = "Failed" /\ inbound[id] = "refused" /\ inbound'[id] = "done"
      /\ inbound' \in [Inbounds -> Tasks]
  BY <1>1, <1>2 DEF TypeOK, Tasks
<1>8. ASSUME NEW k
      PROVE  /\ Len(queue) \in Nat /\ Len(queue') = Len(queue) + 1
             /\ \A i \in 1 .. Len(queue) : \A a \in Told : Says(i, k, a)' <=> Says(i, k, a)
             /\ \A i \in 1 .. Len(queue') : i = Len(queue) + 1 \/ i \in 1 .. Len(queue)
             /\ \A i \in 1 .. Len(queue') : i = Len(queue) + 1 =>
                  \A a \in Told : Says(i, k, a)' <=> k = id /\ a = to
             /\ \A a \in Told : Heard(k, a)' <=> Heard(k, a) \/ (k = id /\ a = to)
  <2>1. /\ Len(queue) \in Nat /\ Len(queue') = Len(queue) + 1
        /\ \A i \in 1 .. Len(queue) : \A a \in Told : Says(i, k, a)' <=> Says(i, k, a)
        /\ \A i \in 1 .. Len(queue') : i = Len(queue) + 1 \/ i \in 1 .. Len(queue)
        /\ \A i \in 1 .. Len(queue') : i = Len(queue) + 1 =>
             \A a \in Told : Says(i, k, a)' <=> e = InboundReport(k, a)
        /\ \A a \in Told : Heard(k, a)' <=> Heard(k, a) \/ e = InboundReport(k, a)
    BY <1>3, <1>4, HeardAfterSend
  <2>2. \A a \in Told : e = InboundReport(k, a) <=> k = id /\ a = to
    BY <1>3
  <2> HIDE DEF Heard, Says
  <2> QED BY <2>1, <2>2
<1>9. ASSUME listener = "accepting"
      PROVE  (\A k \in Inbounds : InboundAgrees(k)') /\ Counted' = Counted
  <2>1. \A k \in Inbounds : InboundAgrees(k)
    BY <1>1, <1>9 DEF InboundHolds
  <2>2. ASSUME NEW k \in Inbounds \ {id}
        PROVE  InboundAgrees(k)'
    BY <1>7, <1>8, <2>1 DEF InboundAgrees, Told
  <2>3. InboundAgrees(id)'
    <3>1. \A i \in 1 .. Len(queue) : \A a \in Told : Says(i, id, a) => Heard(id, a)
      BY DEF Says, Heard, Queued
    <3>2. \A a \in Told : Heard(id, a) => a = "Connected" /\ to = "Disconnected"
      BY <1>7, <2>1 DEF InboundAgrees, Told
    <3>3. ASSUME NEW i \in 1 .. Len(queue'), NEW j \in 1 .. Len(queue'), NEW a \in Told, NEW b \in Told,
                 i < j, Says(i, id, a)', Says(j, id, b)'
          PROVE  a = "Connected" /\ b = "Disconnected"
      <4>1. i \in 1 .. Len(queue) /\ Says(i, id, a)
        BY <1>8, <3>3
      <4>2. CASE j \in 1 .. Len(queue)
        BY <1>8, <2>1, <3>3, <4>1, <4>2 DEF InboundAgrees
      <4>3. CASE j = Len(queue) + 1
        BY <1>8, <3>1, <3>2, <3>3, <4>1, <4>3
      <4> QED BY <1>8, <4>2, <4>3
    <3>4. /\ inbound'[id] = "live" => ~Heard(id, "Failed")' /\ ~Heard(id, "Disconnected")'
          /\ inbound'[id] = "done" /\ Heard(id, "Connected")' => Heard(id, "Disconnected")'
      BY <1>7, <1>8, <3>2 DEF Told
    <3> QED BY <1>7, <3>3, <3>4 DEF InboundAgrees
  <2>4. ASSUME NEW k \in Inbounds
        PROVE  k \in Counted' <=> k \in Counted
    <3>1. CASE k # id
      BY <1>7, <1>8, <3>1 DEF Counted, Told
    <3>2. CASE k = id
      <4>1. /\ k \in Counted <=>
                 ~Heard(k, "Connected") /\ (inbound[k] \in {"live", "down"} \/ Heard(k, "Disconnected"))
            /\ k \in Counted' <=>
                 ~Heard(k, "Connected")' /\ (inbound'[k] \in {"live", "down"} \/ Heard(k, "Disconnected")')
        BY DEF Counted
      <4> QED BY <1>7, <1>8, <2>1, <3>2, <4>1 DEF InboundAgrees, Told
    <3> QED BY <3>1, <3>2
  <2>5. Counted' = Counted
    BY <2>4 DEF Counted
  <2> QED BY <2>2, <2>3, <2>5
<1>10. InboundHolds'
  BY <1>1, <1>2, <1>9 DEF InboundHolds, Running
<1>11. TypeOK'
  <2>1. Len(queue') <= QueueCap /\ queue' \in Seq(Reports)
    BY <1>1, <1>2, <1>3, <1>4, SessionsRoom
  <2> QED BY <1>1, <1>2, <1>7, <2>1 DEF TypeOK
<1> QED BY <1>5, <1>6, <1>10, <1>11 DEF SessionsInvariant

\* The listener ends, reports it, or is shut down; and its sessions get on.
LEMMA ListenerKeeps ==
  ASSUME SessionsAssumption, SessionsInvariant, Listener
  PROVE  SessionsInvariant'
<1>1. /\ TypeOK /\ ReportsArePast /\ (\A q \in Peers : ObserverAgrees(q)) /\ InboundHolds
  BY DEF SessionsInvariant
<1>2. CASE ListenerEnds \/ ListenerReports \/ ListenerShutDown
  <2>1. UNCHANGED <<phase, adv, row, screens, state, out, count>>
    BY <1>2 DEF ListenerEnds, ListenerReports, ListenerShutDown
  <2>2. queue' = queue \/ (Room /\ queue' = Append(queue, ListenerStopped))
    BY <1>2 DEF ListenerEnds, ListenerReports, ListenerShutDown
  <2>3. /\ listener' \in {"stopped", "done"} /\ inbound' \in [Inbounds -> Tasks]
    BY <1>1, <1>2 DEF ListenerEnds, ListenerReports, ListenerShutDown, AllAborted, Tasks, TypeOK
  <2>4. ListenerStopped \in Reports /\ ListenerStopped.from = "listener"
    BY SentAreReports
  <2>5. ReportsArePast' /\ (\A q \in Peers : ObserverAgrees(q)') /\ queue' \in Seq(Reports)
    BY <1>1, <2>1, <2>2, <2>4, ObserversUnaware
  <2>6. Len(queue') <= QueueCap
    BY <1>1, <2>2, <2>4, SessionsRoom DEF TypeOK
  <2>7. TypeOK'
    BY <1>1, <2>1, <2>3, <2>5, <2>6 DEF TypeOK
  <2>8. Running' => \A q \in Peers : RowHolds(q)'
    BY <2>1, RowUntouched DEF SessionsInvariant, Running
  <2>9. InboundHolds'
    BY <2>3 DEF InboundHolds
  <2> QED BY <2>5, <2>7, <2>8, <2>9 DEF SessionsInvariant
<1>3. ASSUME NEW id \in Inbounds, Accepts(id) \/ Authorizes(id) \/ InboundEnds(id)
      PROVE  SessionsInvariant'
  BY <1>3, ServesQuietly DEF Accepts, Authorizes, InboundEnds, Serves, Tasks
<1> QED BY <1>2, <1>3, InboundReportsKeeps DEF Listener

\* A report is read: what an inbound session still has in the queue is right.
LEMMA InboundIsRead ==
  ASSUME queue \in Seq(Reports), queue # <<>>, queue' = Tail(queue), inbound' = inbound,
         NEW id, InboundAgrees(id)
  PROVE  /\ InboundAgrees(id)'
         /\ \A a \in Told : queue[1] = InboundReport(id, a) => ~Heard(id, a)'
         /\ queue[1] = InboundReport(id, "Disconnected") => ~Heard(id, "Connected")
<1>1. /\ Len(queue) \in Nat /\ Len(queue') = Len(queue) - 1 /\ 1 \in 1 .. Len(queue)
      /\ \A i \in 1 .. Len(queue') : /\ i + 1 \in 1 .. Len(queue)
                                     /\ \A a \in Told : Says(i, id, a)' <=> Says(i + 1, id, a)
      /\ \A a \in Told : /\ Heard(id, a)' => \E i \in 1 .. Len(queue) : i # 1 /\ Says(i, id, a)
                         /\ Heard(id, a) => Heard(id, a)' \/ queue[1] = InboundReport(id, a)
                         /\ Heard(id, a)' => Heard(id, a)
  BY HeardAfterReceive
<1>2. \A i, j \in 1 .. Len(queue) : \A a, b \in Told :
        i < j /\ Says(i, id, a) /\ Says(j, id, b) => a = "Connected" /\ b = "Disconnected"
  BY DEF InboundAgrees
<1>3. ASSUME NEW a \in Told, NEW b \in Told, queue[1] = InboundReport(id, a), Heard(id, b)'
      PROVE  a = "Connected" /\ b = "Disconnected"
  <2>1. PICK i \in 1 .. Len(queue) : i # 1 /\ Says(i, id, b)
    BY <1>1, <1>3
  <2>2. 1 < i /\ Says(1, id, a)
    BY <1>3, <2>1 DEF Says
  <2> QED BY <1>1, <1>2, <2>1, <2>2
<1>4. \A a \in Told : queue[1] = InboundReport(id, a) => ~Heard(id, a)'
  BY <1>3
<1>5. ASSUME queue[1] = InboundReport(id, "Disconnected")
      PROVE  ~Heard(id, "Connected")
  <2>1. queue[1] # InboundReport(id, "Connected")
    BY <1>5 DEF InboundReport
  <2> QED BY <1>1, <1>3, <1>5, <2>1 DEF Told
<1>6. \A i, j \in 1 .. Len(queue') : \A a, b \in Told :
        i < j /\ Says(i, id, a)' /\ Says(j, id, b)' => a = "Connected" /\ b = "Disconnected"
  <2> SUFFICES ASSUME NEW i \in 1 .. Len(queue'), NEW j \in 1 .. Len(queue'), NEW a \in Told,
                      NEW b \in Told, i < j, Says(i, id, a)', Says(j, id, b)'
               PROVE  a = "Connected" /\ b = "Disconnected"
    OBVIOUS
  <2>1. Says(i + 1, id, a) /\ Says(j + 1, id, b) /\ i + 1 < j + 1
    BY <1>1
  <2> QED BY <1>1, <1>2, <2>1
<1>7. inbound[id] = "done" /\ Heard(id, "Connected")' => Heard(id, "Disconnected")'
  BY <1>1, <1>3 DEF InboundAgrees, Told
<1> QED BY <1>1, <1>4, <1>5, <1>6, <1>7 DEF InboundAgrees, Told

\* The number of viewers goes up and down with what is read.
LEMMA CountIsRead ==
  ASSUME SessionsAssumption, TypeOK, InboundHolds, listener = "accepting", Running,
         queue # <<>>, queue' = Tail(queue), inbound' = inbound,
         count' = IF queue[1].from = "inbound" THEN CountAfter(queue[1]) ELSE count
  PROVE  count' = Cardinality(Counted')
<1>1. /\ queue \in Seq(Reports) /\ \A id \in Inbounds : InboundAgrees(id)
      /\ count = Cardinality(Counted) /\ count \in Nat
  BY DEF TypeOK, InboundHolds
<1>2. \A id \in Inbounds :
        /\ \A a \in Told : queue[1] = InboundReport(id, a) => ~Heard(id, a)'
        /\ queue[1] = InboundReport(id, "Disconnected") => ~Heard(id, "Connected")
  BY <1>1, InboundIsRead
<1>3. ASSUME NEW id
      PROVE  \A a \in Told : queue[1] # InboundReport(id, a) => (Heard(id, a)' <=> Heard(id, a))
  BY <1>1, HeardAfterReceive
<1>4. queue[1] \in Reports
  BY <1>1, HeardAfterReceive
<1>5. ASSUME NEW id \in Inbounds
      PROVE  /\ id \in Counted <=> /\ ~Heard(id, "Connected")
                                   /\ inbound[id] \in {"live", "down"} \/ Heard(id, "Disconnected")
             /\ id \in Counted' <=> /\ ~Heard(id, "Connected")'
                                    /\ inbound[id] \in {"live", "down"} \/ Heard(id, "Disconnected")'
  BY DEF Counted
<1>6. Counted \subseteq Inbounds /\ Counted' \subseteq Inbounds
  BY DEF Counted
<1>7. IsFiniteSet(Counted)
  BY <1>6, FS_Subset DEF SessionsAssumption
<1>8. CASE queue[1].from # "inbound"
  <2>1. \A id : \A a \in Told : queue[1] # InboundReport(id, a)
    BY <1>8 DEF InboundReport
  <2>2. \A id \in Inbounds : id \in Counted' <=> id \in Counted
    BY <1>3, <1>5, <2>1 DEF Told
  <2>3. Counted' = Counted
    BY <1>6, <2>2
  <2> QED BY <1>1, <1>8, <2>3
<1>9. ASSUME NEW id \in Inbounds, NEW to \in Told, queue[1] = InboundReport(id, to)
      PROVE  count' = Cardinality(Counted')
  <2>1. /\ queue[1].from = "inbound" /\ queue[1].phase = to
        /\ \A k : \A a \in Told : queue[1] = InboundReport(k, a) <=> k = id /\ a = to
    BY <1>9 DEF InboundReport
  <2>2. \A k \in Inbounds \ {id} : k \in Counted' <=> k \in Counted
    BY <1>3, <1>5, <2>1 DEF Told
  <2>3. Heard(id, to) /\ ~Heard(id, to)'
    <3>1. 1 \in 1 .. Len(queue)
      BY <1>1, HeardAfterReceive
    <3> QED BY <1>2, <1>9, <3>1 DEF Heard, Queued
  <2>4. inbound[id] \in {"live", "down", "done"}
    <3>1. inbound[id] \in Tasks
      BY DEF TypeOK
    <3> QED BY <1>1, <2>3, <3>1 DEF InboundAgrees, Tasks
  <2>5. CASE to = "Connected"
    <3>1. Heard(id, "Disconnected")' <=> Heard(id, "Disconnected")
      BY <1>3, <2>1, <2>5 DEF Told
    <3>2. id \notin Counted /\ id \in Counted'
      BY <1>1, <1>5, <2>3, <2>4, <2>5, <3>1 DEF InboundAgrees
    <3>3. Counted' = Counted \cup {id}
      BY <1>6, <2>2, <3>2
    <3>4. Cardinality(Counted') = Cardinality(Counted) + 1
      BY <1>7, <3>2, <3>3, FS_AddElement
    <3> QED BY <1>1, <2>1, <2>5, <3>4 DEF CountAfter
  <2>6. CASE to = "Disconnected"
    <3>1. ~Heard(id, "Connected") /\ inbound[id] \notin {"live", "down"}
      BY <1>1, <1>2, <1>9, <2>3, <2>6 DEF InboundAgrees
    <3>2. id \in Counted /\ id \notin Counted'
      BY <1>5, <2>3, <2>6, <3>1
    <3>3. Counted' = Counted \ {id}
      BY <1>6, <2>2, <3>2
    <3>4. /\ Cardinality(Counted) \in Nat /\ Cardinality(Counted') = Cardinality(Counted) - 1
          /\ Cardinality(Counted') \in Nat
      <4>1. Cardinality(Counted') = Cardinality(Counted) - 1 /\ Cardinality(Counted) \in Nat
        BY <1>7, <3>2, <3>3, FS_RemoveElement, FS_CardinalityType
      <4>2. IsFiniteSet(Counted')
        BY <1>6, FS_Subset DEF SessionsAssumption
      <4> QED BY <4>1, <4>2, FS_CardinalityType
    <3> QED BY <1>1, <2>1, <2>6, <3>4 DEF CountAfter, CountedDown
  <2>7. CASE to = "Failed"
    <3>1. \A a \in {"Connected", "Disconnected"} : Heard(id, a)' <=> Heard(id, a)
      BY <1>3, <2>1, <2>7 DEF Told
    <3>2. id \in Counted' <=> id \in Counted
      BY <1>5, <3>1
    <3>3. Counted' = Counted
      BY <1>6, <2>2, <3>2
    <3> QED BY <1>1, <2>1, <2>7, <3>3 DEF CountAfter
  <2> QED BY <2>5, <2>6, <2>7 DEF Told
<1> QED BY <1>4, <1>8, <1>9, KindsOfReport

\* What the inbound side comes to when a report is read.
LEMMA InboundHoldsAfterRead ==
  ASSUME SessionsAssumption, TypeOK, InboundHolds, queue # <<>>, queue' = Tail(queue),
         inbound' = inbound, listener' = listener,
         Running' => Running /\ count' = IF queue[1].from = "inbound" THEN CountAfter(queue[1])
                                         ELSE count
  PROVE  InboundHolds'
<1>1. queue \in Seq(Reports)
  BY DEF TypeOK
<1>2. ASSUME listener = "accepting", NEW id \in Inbounds
      PROVE  InboundAgrees(id)'
  BY <1>1, <1>2, InboundIsRead DEF InboundHolds
<1>3. ASSUME listener = "accepting", Running'
      PROVE  count' = Cardinality(Counted')
  BY <1>3, CountIsRead
<1> QED BY <1>2, <1>3 DEF InboundHolds

\* The row of a transition that is current says what its state says.
LEMMA TransitionIsShown ==
  ASSUME TypeOK, \A q \in Peers : RowHolds(q), NEW e \in Reports, OnOutbound(e)
  PROVE  /\ \A q \in Peers : RowHolds(q)'
         /\ row' \in [Peers -> Rows] /\ screens' \in [Peers -> {"none", "Available", "Withdrawn"}]
         /\ state' \in [Peers -> [gen : Nat, phase : Phases]]
<1>1. e.peer \in Peers /\ e.gen \in Nat /\ e.phase \in Told /\ adv' = adv
  BY KindsOfReport DEF OnOutbound
<1>2. CASE ~CurrentTransition(e)
  <2>1. UNCHANGED <<state, row, screens>>
    BY <1>2 DEF OnOutbound
  <2> QED BY <1>1, <2>1, RowUntouched DEF TypeOK
<1>3. CASE CurrentTransition(e)
  <2> DEFINE p == e.peer
             r == Applied(row[p], e.gen, e.phase)
  <2>1. state' = [state EXCEPT ![p].phase = e.phase] /\ PutRow(p, r) /\ e.gen = state[p].gen
    BY <1>3 DEF OnOutbound, CurrentTransition
  <2>2. /\ state'[p].gen = state[p].gen /\ state'[p].phase = e.phase /\ state[p].gen \in Nat
        /\ \A q \in Peers \ {p} : state'[q] = state[q]
        /\ state' \in [Peers -> [gen : Nat, phase : Phases]]
    <3>1. state \in [Peers -> [gen : Nat, phase : Phases]]
      BY DEF TypeOK
    <3>2. e.phase \in Phases
      BY <1>1 DEF Told, Phases
    <3> QED BY <1>1, <2>1, <3>1, <3>2
  <2>3. row[p] \in Rows /\ RowHolds(p)
    BY <1>1 DEF TypeOK
  <2>4. /\ r \in Rows /\ r.present = row[p].present /\ r.screen = row[p].screen
        /\ Follows(r, state'[p])
    <3>1. CASE row[p] = NoRow
      <4>1. r = NoRow
        BY <3>1 DEF Applied
      <4>2. Follows(NoRow, state'[p])
        <5>1. 0 <= state'[p].gen
          BY <2>2
        <5> QED BY <5>1 DEF Follows, NoRow
      <4> QED BY <2>3, <3>1, <4>1, <4>2
    <3>2. CASE row[p] # NoRow
      <4>1. r = [row[p] EXCEPT !.gen = e.gen, !.phase = e.phase]
        BY <2>1, <2>3, <3>2 DEF Applied, NotOlder, RowHolds, Follows
      <4>2. /\ r \in Rows /\ r.present = row[p].present /\ r.screen = row[p].screen
            /\ r.gen = e.gen /\ r.phase = e.phase
        <5>1. e.phase \in Phases
          BY <1>1 DEF Told, Phases
        <5> QED BY <1>1, <2>3, <4>1, <5>1 DEF Rows
      <4> QED BY <1>1, <2>1, <2>2, <4>2 DEF Follows, Told
    <3> QED BY <3>1, <3>2
  <2>5. (r.present <=> p \in adv') /\ (screens[p] = "Available" <=> r.screen = "Available")
    BY <1>1, <2>3, <2>4 DEF RowHolds, Shows
  <2> HIDE DEF r, p
  <2>6. /\ RowHolds(p)' /\ \A q \in Peers \ {p} : row'[q] = row[q] /\ screens'[q] = screens[q]
        /\ row' \in [Peers -> Rows] /\ screens' \in [Peers -> {"none", "Available", "Withdrawn"}]
    <3>1. p \in Peers /\ state'[p].gen \in Nat
      BY <1>1, <2>2 DEF p
    <3> QED BY <2>1, <2>4, <2>5, <3>1, PutRowHolds
  <2>7. \A q \in Peers \ {p} : RowHolds(q)'
    BY <1>1, <2>2, <2>6, RowUntouched
  <2> QED BY <2>2, <2>6, <2>7
<1> QED BY <1>2, <1>3

\* Pruning finds nothing to prune.
LEMMA NothingToPrune ==
  ASSUME TypeOK, \A q \in Peers : RowHolds(q), NEW e \in Reports, OnInbound(e)
  PROVE  /\ \A q \in Peers : RowHolds(q)'
         /\ row' \in [Peers -> Rows] /\ screens' \in [Peers -> {"none", "Available", "Withdrawn"}]
<1>1. /\ row' = [p \in Peers |-> IF Visible(row[p]) THEN row[p] ELSE NoRow]
      /\ screens' = [p \in Peers |-> IF row[p] = NoRow \/ Visible(row[p]) THEN screens[p] ELSE "none"]
      /\ UNCHANGED <<adv, state>>
  BY DEF OnInbound
<1>2. \A q \in Peers : row[q] = NoRow \/ Visible(row[q])
  BY DEF RowHolds
<1>3. \A q \in Peers : row'[q] = row[q] /\ screens'[q] = screens[q]
  BY <1>1, <1>2
<1>4. \A q \in Peers : RowHolds(q)'
  BY <1>1, <1>3, RowUntouched
<1>5. row' = row /\ screens' = screens
  <2>1. row' = [p \in Peers |-> row[p]] /\ screens' = [p \in Peers |-> screens[p]]
    BY <1>1, <1>2
  <2> QED BY <2>1 DEF TypeOK
<1> QED BY <1>4, <1>5 DEF TypeOK

\* The loop reads a report.
LEMMA ReceiveKeeps ==
  ASSUME SessionsAssumption, SessionsInvariant, Receive
  PROVE  SessionsInvariant'
<1> DEFINE e == queue[1]
<1>1. /\ TypeOK /\ ReportsArePast /\ (\A q \in Peers : ObserverAgrees(q)) /\ InboundHolds
      /\ \A q \in Peers : RowHolds(q)
  BY DEF SessionsInvariant, Receive
<1>2. /\ Running /\ queue # <<>> /\ queue' = Tail(queue) /\ UNCHANGED <<inbound, listener>>
      /\ e \in Reports /\ Len(queue') = Len(queue) - 1 /\ Len(queue) \in Nat
      /\ OnOutbound(e) \/ OnInbound(e) \/ OnListenerStopped(e)
  <2>1. queue \in Seq(Reports)
    BY <1>1 DEF TypeOK
  <2>2. Head(queue) = queue[1] /\ Head(queue) \in Reports /\ Len(Tail(queue)) = Len(queue) - 1
        /\ Len(queue) \in Nat
    BY <2>1, TailShifts DEF Receive
  <2> QED BY <2>2 DEF Receive
<1> HIDE DEF e
<1>3. out' = out /\ adv' = adv
  BY <1>2 DEF OnOutbound, OnInbound, OnListenerStopped
<1>4. ReportsArePast' /\ (\A q \in Peers : ObserverAgrees(q)') /\ queue' \in Seq(Reports)
  <2>1. \/ e.from = "outbound" /\ CurrentTransition(e) /\ state' = [state EXCEPT ![e.peer].phase = e.phase]
        \/ ~(e.from = "outbound" /\ CurrentTransition(e)) /\ state' = state
    BY <1>2 DEF OnOutbound, OnInbound, OnListenerStopped
  <2> QED BY <1>1, <1>2, <1>3, <2>1, ReportIsRead DEF e
<1>5. Running' => phase' = phase /\ count' = IF e.from = "inbound" THEN CountAfter(e) ELSE count
  BY <1>2 DEF OnOutbound, OnInbound, OnListenerStopped, Running
<1>6. InboundHolds'
  <2>1. Running' => Running /\ count' = IF queue[1].from = "inbound" THEN CountAfter(queue[1])
                                        ELSE count
    BY <1>2, <1>5 DEF e
  <2> QED BY <1>1, <1>2, <2>1, InboundHoldsAfterRead
<1>7. /\ Running' => \A q \in Peers : RowHolds(q)'
      /\ row' \in [Peers -> Rows] /\ screens' \in [Peers -> {"none", "Available", "Withdrawn"}]
      /\ state' \in [Peers -> [gen : Nat, phase : Phases]]
      /\ count' \in Nat /\ phase' \in {"running", "stopping", "closed"}
  <2>1. CASE OnOutbound(e)
    <3>1. count' = count /\ phase' = phase
      BY <2>1 DEF OnOutbound
    <3> QED BY <1>1, <1>2, <2>1, <3>1, TransitionIsShown DEF TypeOK
  <2>2. CASE OnInbound(e)
    <3>1. count' = CountAfter(e) /\ phase' = phase /\ state' = state
      BY <2>2 DEF OnInbound
    <3>2. CountAfter(e) \in Nat
      BY <1>1 DEF CountAfter, CountedDown, TypeOK
    <3> QED BY <1>1, <1>2, <2>2, <3>1, <3>2, NothingToPrune DEF TypeOK
  <2>3. CASE OnListenerStopped(e)
    <3>1. /\ phase' = "stopping" /\ count' = 0 /\ state' = state
          /\ row' = [p \in Peers |-> NoRow] /\ screens' = [p \in Peers |-> "none"]
      BY <2>3 DEF OnListenerStopped
    <3>2. NoRow \in Rows
      BY DEF NoRow, Rows, Phases
    <3> QED BY <1>1, <3>1, <3>2 DEF TypeOK, Running
  <2> QED BY <1>2, <2>1, <2>2, <2>3
<1>8. TypeOK'
  <2>1. Len(queue') <= QueueCap
    BY <1>1, <1>2 DEF TypeOK, SessionsAssumption
  <2> QED BY <1>1, <1>2, <1>3, <1>4, <1>7, <2>1 DEF TypeOK
<1> QED BY <1>4, <1>6, <1>7, <1>8 DEF SessionsInvariant

\* The services are told to stop, and are closed in the end.
LEMMA StopKeeps ==
  ASSUME SessionsAssumption, SessionsInvariant, Stop \/ Closed
  PROVE  SessionsInvariant'
<1>1. /\ TypeOK /\ ReportsArePast /\ (\A q \in Peers : ObserverAgrees(q)) /\ InboundHolds
  BY DEF SessionsInvariant
<1>2. /\ phase' \in {"stopping", "closed"} /\ ~Running'
      /\ UNCHANGED <<adv, state, out, inbound, listener>>
  BY DEF Stop, Closed, Running
<1>3. CASE Stop
  <2>1. /\ queue' = queue /\ count' = 0
        /\ row' = [p \in Peers |-> NoRow] /\ screens' = [p \in Peers |-> "none"]
    BY <1>3 DEF Stop
  <2>2. ReportsArePast' /\ (\A q \in Peers : ObserverAgrees(q)')
    BY <1>1, <1>2, <2>1, ObserversUnaware
  <2>3. InboundHolds'
    BY <1>1, <1>2, <2>1, InboundUntouched
  <2>4. NoRow \in Rows
    BY DEF NoRow, Rows, Phases
  <2>5. TypeOK'
    BY <1>1, <1>2, <2>1, <2>4 DEF TypeOK
  <2> QED BY <1>2, <2>2, <2>3, <2>5 DEF SessionsInvariant
<1>4. CASE Closed
  <2>1. /\ queue' = <<>> /\ listener' = "done" /\ \A p \in Peers : out[p].task = "none"
        /\ UNCHANGED <<row, screens, count>>
    BY <1>2, <1>4 DEF Closed
  <2>2. Len(queue') = 0 /\ queue' \in Seq(Reports)
    BY <2>1
  <2>3. ReportsArePast' /\ \A q \in Peers : ObserverAgrees(q)'
    <3>1. ReportsArePast'
      BY <2>2 DEF ReportsArePast
    <3>2. ASSUME NEW q \in Peers
          PROVE  ObserverAgrees(q)'
      BY <1>1, <1>2, <2>1, <2>2 DEF ObserverAgrees
    <3> QED BY <3>1, <3>2
  <2>4. InboundHolds'
    BY <2>1 DEF InboundHolds
  <2>5. TypeOK'
    BY <1>1, <1>2, <2>1, <2>2 DEF TypeOK, SessionsAssumption
  <2> QED BY <1>2, <2>3, <2>4, <2>5 DEF SessionsInvariant
<1> QED BY <1>3, <1>4

-----------------------------------------------------------------------------
(* The theorems.                                                           *)

\* The invariant holds at the start.
LEMMA WindowsInit ==
  ASSUME SessionsAssumption, Init
  PROVE  SessionsInvariant
<1>1. /\ phase = "running" /\ adv = {} /\ row = [p \in Peers |-> NoRow]
      /\ screens = [p \in Peers |-> "none"] /\ state = [p \in Peers |-> NoState]
      /\ out = [p \in Peers |-> NoOut] /\ inbound = [i \in Inbounds |-> "idle"]
      /\ count = 0 /\ listener = "accepting" /\ queue = <<>>
  BY DEF Init
<1>2. queue \in Seq(Reports) /\ Len(queue) = 0
  BY <1>1
<1>3. TypeOK
  <2>1. /\ NoRow \in Rows /\ NoState \in [gen : Nat, phase : Phases]
        /\ NoOut \in [task : Observing, gen : Nat, late : BOOLEAN]
    BY DEF NoRow, Rows, NoState, NoOut, Phases, Observing
  <2>2. "idle" \in Tasks
    BY DEF Tasks
  <2> QED BY <1>1, <1>2, <2>1, <2>2 DEF TypeOK, SessionsAssumption
<1>4. ReportsArePast
  BY <1>2 DEF ReportsArePast
<1>5. \A p \in Peers : ObserverAgrees(p)
  BY <1>1, <1>2 DEF ObserverAgrees, NoOut, NoState
<1>6. \A p \in Peers : RowHolds(p)
  BY <1>1 DEF RowHolds, Follows, Shows, NoRow, NoState
<1>7. \A id \in Inbounds : \A a \in Told : ~Heard(id, a)
  BY <1>2 DEF Heard, Queued
<1>8. InboundHolds
  <2>1. \A id \in Inbounds : InboundAgrees(id)
    BY <1>1, <1>2, <1>7 DEF InboundAgrees
  <2>2. Counted = {}
    BY <1>1, <1>7 DEF Counted, Told
  <2> QED BY <1>1, <2>1, <2>2, FS_EmptySet DEF InboundHolds
<1> QED BY <1>3, <1>4, <1>5, <1>6, <1>8 DEF SessionsInvariant

\* Every step keeps the invariant.
LEMMA WindowsKeeps ==
  ASSUME SessionsAssumption, SessionsInvariant, [Next]_vars
  PROVE  SessionsInvariant'
<1>1. ASSUME NEW p \in Peers, Network(p)
      PROVE  SessionsInvariant'
  BY <1>1, LostKeeps, FoundOnlyKeeps, FoundKeptKeeps, FoundDialedKeeps, RemoteScreenKeeps
     DEF Network
<1>2. ASSUME NEW p \in Peers, Observer(p) \/ StopOutbound(p)
      PROVE  SessionsInvariant'
  BY <1>2, ObserverKeeps, StopOutboundKeeps
<1>3. CASE Listener \/ Receive \/ Stop \/ Closed
  BY <1>3, ListenerKeeps, ReceiveKeeps, StopKeeps
<1>4. CASE UNCHANGED vars
  <2>1. \A p \in Peers : Running => RowHolds(p)
    BY DEF SessionsInvariant
  <2>2. \A p \in Peers : Running => RowHolds(p)'
    BY <1>4, <2>1, RowUntouched DEF vars
  <2> QED BY <1>4, <2>2, RowsOnly DEF vars, SessionsInvariant, TypeOK
<1> QED BY <1>1, <1>2, <1>3, <1>4 DEF Next

\* What it says of the rows.
LEMMA WindowsDrivesRows ==
  ASSUME SessionsAssumption, SessionsInvariant
  PROVE  RowsAreDriven
<1> SUFFICES ASSUME Running, NEW p \in Peers, row[p].phase # "Waiting"
             PROVE  /\ row[p].gen <= state[p].gen
                    /\ row[p].gen = state[p].gen => row[p].phase = state[p].phase
                    /\ row[p].phase \in {"Connecting", "Connected"} =>
                         row[p].gen = state[p].gen /\ Driven(p)
  BY DEF SessionsInvariant, RowsAreDriven
<1>1. TypeOK /\ ObserverAgrees(p) /\ Follows(row[p], state[p])
  BY DEF SessionsInvariant, RowHolds
<1>2. ASSUME row[p].phase \in {"Connecting", "Connected"}
      PROVE  Driven(p)
  <2>1. row[p].gen = state[p].gen /\ state[p].phase \in {"Connecting", "Connected"}
    BY <1>1, <1>2 DEF Follows
  <2>2. out[p].task # "none" /\ out[p].gen = row[p].gen /\ out[p].task \in Observing
    BY <1>1, <2>1, Numbers DEF ObserverAgrees
  <2>3. CASE out[p].task = "done"
    <3>1. PICK i \in 1 .. Len(queue) : Ends(i, p)
      BY <1>1, <2>1, <2>3 DEF ObserverAgrees
    <3>2. queue[i] \in Reports
      BY <1>1, PlacesAreTyped DEF TypeOK
    <3>3. queue[i] = Report(p, row[p].gen, queue[i].phase) /\ queue[i].phase \in Phases
      BY <2>1, <3>1, <3>2, KindsOfReport DEF Ends, Current, Told, Phases
    <3> QED BY <3>3 DEF Driven, Queued
  <2>4. CASE out[p].task # "done"
    BY <2>2, <2>4 DEF Driven, Observing
  <2> QED BY <2>3, <2>4
<1> QED BY <1>1, <1>2 DEF Follows

\* What it says of the snapshot.
LEMMA WindowsShowsPeers ==
  ASSUME SessionsAssumption, SessionsInvariant
  PROVE  SnapshotIsTrue
<1> SUFFICES ASSUME Running
             PROVE  SnapshotIsTrue
  BY DEF SnapshotIsTrue
<1>1. \A p \in Peers : /\ row[p] # NoRow => Visible(row[p])
                       /\ row[p].present <=> p \in adv
                       /\ screens[p] = "Available" <=> row[p].screen = "Available"
  BY DEF SessionsInvariant, RowHolds, Shows
<1>2. ASSUME listener = "accepting", queue = <<>>
      PROVE  count = Cardinality(Live)
  <2>1. \A id \in Inbounds : \A a \in Told : ~Heard(id, a)
    BY <1>2 DEF Heard, Queued
  <2>2. Counted = Live
    BY <2>1 DEF Counted, Live, Told
  <2> QED BY <1>2, <2>2 DEF SessionsInvariant, InboundHolds
<1> QED BY <1>1, <1>2 DEF SnapshotIsTrue

\* The invariant of the Windows sessions: every report is of the dial it is
\* taken for, every row says no more than its state, and the number of viewers
\* is that of the sessions whose beginning was read and whose end was not.
THEOREM SessionsInvariantHolds ==
  ASSUME SessionsAssumption
  PROVE  Spec => []SessionsInvariant
<1>1. Init => SessionsInvariant
  BY WindowsInit
<1>2. SessionsInvariant /\ [Next]_vars => SessionsInvariant'
  BY WindowsKeeps
<1> QED BY <1>1, <1>2, PTL DEF Spec

\* The Windows half of RowsFollowSessions: a row never claims more than its
\* transport, and what it says of a dial or a session is so or is corrected by a
\* report that is queued or still to be sent.
THEOREM WindowsRowsAreDriven ==
  ASSUME SessionsAssumption
  PROVE  Spec => []RowsAreDriven
<1>1. SessionsInvariant => RowsAreDriven
  BY WindowsDrivesRows
<1> QED BY <1>1, SessionsInvariantHolds, PTL

\* The Windows half of InboundIsTrue: rows are exactly the peers worth showing,
\* every advertiser and every watchable screen has its row, and the number of
\* viewers is right once the queue has been read.
THEOREM WindowsSnapshotIsTrue ==
  ASSUME SessionsAssumption
  PROVE  Spec => []SnapshotIsTrue
<1>1. SessionsInvariant => SnapshotIsTrue
  BY WindowsShowsPeers
<1> QED BY <1>1, SessionsInvariantHolds, PTL
=============================================================================
