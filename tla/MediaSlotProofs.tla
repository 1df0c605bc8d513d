--------------------------- MODULE MediaSlotProofs ---------------------------
(***************************************************************************)
(* Proofs about MediaSlot.  First the types, then the inductive invariant  *)
(* behind the exclusive slot and the expects of the handlers, and last     *)
(* that every step of the slot is a step of its MediaLease.                *)
(***************************************************************************)
EXTENDS MediaSlot, TLAPS

-----------------------------------------------------------------------------
(* The queue.                                                              *)

\* Taking the head shifts the rest by one place.
LEMMA TakeShifts ==
  ASSUME opq \in Seq(Events), opq # <<>>, opq' = Tail(opq)
  PROVE  /\ opq' \in Seq(Events) /\ Len(opq') = Len(opq) - 1
         /\ \A i \in 1 .. Len(opq') : opq'[i] = opq[i + 1] /\ i + 1 \in 1 .. Len(opq)
         /\ Head(opq) = opq[1] /\ Head(opq) \in Events /\ 1 \in 1 .. Len(opq)
  OBVIOUS

\* Sending adds one place and leaves the others alone.
LEMMA SendAdds ==
  ASSUME opq \in Seq(Events), NEW e \in Events, Send(e)
  PROVE  /\ opq' \in Seq(Events) /\ Len(opq') = Len(opq) + 1
         /\ \A i \in 1 .. Len(opq) : opq'[i] = opq[i]
         /\ opq'[Len(opq) + 1] = e
  BY DEF Send

-----------------------------------------------------------------------------
(* Types.                                                                  *)

USE DEF loopVars, slotVars, pubVars, viewVars, showVars, dirVars, srcVars

\* Every variable keeps its type, for every set of paths and every capacity.
THEOREM TypeCorrect == Spec => []TypeOK
<1>1. Init => TypeOK
  <2> SUFFICES ASSUME Init PROVE TypeOK
    OBVIOUS
  <2>1. LoopType /\ SlotType /\ DirType /\ SrcType
    BY DEF Init, LoopType, SlotType, DirType, SrcType, Phases, Availability
  <2>2. PubType /\ ViewType /\ ShowType
    <3>1. pubTask \in PubStates /\ viewTask \in ViewStates
      BY DEF Init, PubStates, ViewStates
    <3> QED BY <3>1 DEF Init, PubType, ViewType, ShowType
  <2>3. opq \in Seq(Events)
    BY DEF Init
  <2> QED BY <2>1, <2>2, <2>3 DEF TypeOK
<1>2. TypeOK /\ [Next]_vars => TypeOK'
  <2> SUFFICES ASSUME TypeOK, [Next]_vars PROVE TypeOK'
    OBVIOUS
  <2> USE DEF TypeOK
  <2>1. CASE Command
    <3>1. CASE StartPublish
      <4>1. pubGen' \in Nat /\ pubRun' \in Nat
        BY <3>1 DEF StartPublish, PubType
      <4>2. pubTask' \in PubStates /\ pubHandle' \in BOOLEAN /\ pubCancel' \in BOOLEAN
        BY <3>1 DEF StartPublish, PubStates
      <4>3. LoopType' /\ SlotType' /\ ViewType' /\ ShowType'
        BY <3>1 DEF StartPublish, LoopType, SlotType, ViewType, ShowType, Phases
      <4>4. DirType' /\ SrcType' /\ opq' = opq
        BY <3>1 DEF StartPublish, DirType, SrcType
      <4> QED BY <4>1, <4>2, <4>3, <4>4 DEF PubType
    <3>2. CASE StopPublish
      <4>1. PubType'
        BY <3>2 DEF StopPublish, PubType
      <4>2. LoopType' /\ SlotType' /\ ViewType' /\ ShowType'
        BY <3>2 DEF StopPublish, LoopType, SlotType, ViewType, ShowType, Phases
      <4> QED BY <3>2, <4>1, <4>2 DEF StopPublish, DirType, SrcType
    <3>3. ASSUME NEW p \in Paths, StartView(p) PROVE TypeOK'
      <4>1. viewGen' \in Nat /\ viewRun' \in Nat /\ shown' \in Nat /\ frame' \in Nat
        BY <3>3 DEF StartView, ViewType, ShowType
      <4>2. viewTask' \in ViewStates /\ viewHandle' \in BOOLEAN /\ viewCancel' \in BOOLEAN
        BY <3>3 DEF StartView, ViewStates
      <4>3. LoopType' /\ SlotType' /\ PubType'
        BY <3>3 DEF StartView, LoopType, SlotType, PubType, Phases
      <4>4. DirType' /\ SrcType' /\ opq' = opq
        BY <3>3 DEF StartView, DirType, SrcType
      <4> QED BY <4>1, <4>2, <4>3, <4>4 DEF ViewType, ShowType
    <3>4. CASE StopView
      <4>1. ViewType' /\ PubType' /\ ShowType'
        BY <3>4 DEF StopView, ViewType, PubType, ShowType
      <4>2. LoopType' /\ SlotType'
        BY <3>4 DEF StopView, LoopType, SlotType, Phases
      <4> QED BY <3>4, <4>1, <4>2 DEF StopView, DirType, SrcType
    <3>5. CASE RefreshSources
      BY <3>5 DEF RefreshSources, LoopType, SlotType, PubType, ViewType, ShowType, DirType,
                  SrcType
    <3>6. CASE StopLan
      <4>1. LoopType' /\ SlotType'
        BY <3>6 DEF StopLan, LoopType, SlotType, Phases
      <4> QED BY <3>6, <4>1 DEF StopLan, PubType, ViewType, ShowType, DirType, SrcType
    <3> QED BY <2>1, <3>1, <3>2, <3>3, <3>4, <3>5, <3>6 DEF Command
  <2>2. CASE Resume
    <3>1. CASE StopPublishJoined
      <4>1. LoopType' /\ SlotType' /\ ViewType' /\ ShowType'
        BY <3>1 DEF StopPublishJoined, LoopType, SlotType, ViewType, ShowType, Phases
      <4>2. PubType' /\ DirType' /\ SrcType' /\ opq' = opq
        BY <3>1 DEF StopPublishJoined, ReleasePub, PubType, DirType, SrcType, PubStates
      <4> QED BY <4>1, <4>2
    <3>2. CASE StopViewJoined
      <4>1. LoopType' /\ SlotType' /\ PubType' /\ ShowType'
        BY <3>2 DEF StopViewJoined, ClearViewer, LoopType, SlotType, PubType, ShowType, Phases
      <4>2. ViewType' /\ DirType' /\ SrcType' /\ opq' = opq
        BY <3>2 DEF StopViewJoined, ReleaseView, ViewType, DirType, SrcType, ViewStates
      <4> QED BY <4>1, <4>2
    <3>3. CASE StopLanView
      <4>1. ViewType' /\ PubType' /\ ShowType'
        BY <3>3 DEF StopLanView, ViewType, PubType, ShowType
      <4> QED BY <3>3, <4>1 DEF StopLanView, LoopType, SlotType, DirType, SrcType
    <3>4. CASE StopLanPublish
      <4>1. pubGen' \in Nat
        BY <3>4 DEF StopLanPublish, PubType
      <4>2. PubType'
        BY <3>4, <4>1 DEF StopLanPublish, PubType
      <4>3. ViewType' /\ ShowType'
        BY <3>4 DEF StopLanPublish, ReleaseView, ViewType, ShowType, ViewStates
      <4>4. LoopType' /\ SlotType'
        BY <3>4 DEF StopLanPublish, JoinFailed, LoopType, SlotType
      <4> QED BY <3>4, <4>2, <4>3, <4>4 DEF StopLanPublish, DirType, SrcType
    <3>5. ASSUME NEW f \in BOOLEAN, StopLanDrain(f) PROVE TypeOK'
      <4>1. SrcType'
        BY <3>5 DEF StopLanDrain, SrcType
      <4>2. LoopType' /\ SlotType' /\ ViewType'
        BY <3>5 DEF StopLanDrain, JoinFailed, LoopType, SlotType, ViewType, Phases
      <4>3. PubType' /\ ShowType'
        BY <3>5 DEF StopLanDrain, ReleasePub, ClearViewer, PubType, ShowType, PubStates
      <4>4. DirType'
        BY <3>5 DEF StopLanDrain, DirType, Availability
      <4>5. opq' \in Seq(Events)
        BY <3>5 DEF StopLanDrain, DrainQueue
      <4> QED BY <4>1, <4>2, <4>3, <4>4, <4>5
    <3> QED BY <2>2, <3>1, <3>2, <3>3, <3>4, <3>5 DEF Resume
  <2>3. CASE HandleOperation
    <3>0. opq' \in Seq(Events) /\ Head(opq) \in Events
      BY <2>3, TakeShifts DEF HandleOperation, OnPublishEnded, OnViewStarted, OnViewStatus,
         OnViewEnded, OnScreenAnnouncement, OnSourcesLoaded, OnLan, Receive
    <3>1. CASE OnPublishEnded
      <4>1. PubType'
        BY <3>1 DEF OnPublishEnded, ReleasePub, PubType, PubStates
      <4>2. LoopType' /\ SlotType'
        BY <3>1 DEF OnPublishEnded, LoopType, SlotType, Phases
      <4>3. SrcType' /\ DirType'
        BY <3>1 DEF OnPublishEnded, SrcType, DirType
      <4>4. ViewType' /\ ShowType'
        BY <3>1 DEF OnPublishEnded, ViewType, ShowType
      <4> QED BY <3>0, <4>1, <4>2, <4>3, <4>4
    <3>2. CASE OnViewStarted
      BY <3>0, <3>2 DEF OnViewStarted, LoopType, SlotType, PubType, ViewType, ShowType, DirType,
                        SrcType, Phases
    <3>3. CASE OnViewStatus
      <4>1. Head(opq).gen \in Nat
        BY <3>0, <3>3 DEF OnViewStatus, Receive, Events
      <4>2. ShowType'
        BY <3>3, <4>1 DEF OnViewStatus, ShowType
      <4> QED BY <3>0, <3>3, <4>2 DEF OnViewStatus, LoopType, SlotType, PubType, ViewType,
                                      DirType, SrcType
    <3>4. CASE OnViewEnded
      <4>1. ViewType'
        BY <3>4 DEF OnViewEnded, ReleaseView, ViewType, ViewStates
      <4>2. LoopType' /\ SlotType'
        BY <3>4 DEF OnViewEnded, LoopType, SlotType, Phases
      <4>3. PubType' /\ ShowType'
        BY <3>4 DEF OnViewEnded, ClearViewer, PubType, ShowType
      <4>4. DirType' /\ SrcType'
        BY <3>4 DEF OnViewEnded, DirType, SrcType
      <4> QED BY <3>0, <4>1, <4>2, <4>3, <4>4
    <3>5. CASE OnScreenAnnouncement
      <4>1. Head(opq).path \in Paths
        BY <3>0, <3>5 DEF OnScreenAnnouncement, Receive, Events
      <4>2. DirType'
        BY <3>5, <4>1 DEF OnScreenAnnouncement, RoutesAfter, DirType, Availability
      <4> QED BY <3>0, <3>5, <4>2 DEF OnScreenAnnouncement, LoopType, SlotType, PubType,
                                      ViewType, ShowType, SrcType
    <3>6. CASE OnSourcesLoaded
      <4>1. SrcType'
        BY <3>6 DEF OnSourcesLoaded, SrcType
      <4> QED BY <3>0, <3>6, <4>1 DEF OnSourcesLoaded, LoopType, SlotType, PubType, ViewType,
                                      ShowType, DirType
    <3>7. CASE OnLan
      BY <3>0, <3>7 DEF OnLan, LoopType, SlotType, PubType, ViewType, ShowType, DirType, SrcType
    <3> QED BY <2>3, <3>1, <3>2, <3>3, <3>4, <3>5, <3>6, <3>7 DEF HandleOperation
  <2>4. CASE Task
    <3>0. LoopType' /\ SlotType' /\ DirType' /\ SrcType'
      <4>1. UNCHANGED <<loopVars, slotVars, dirVars, srcVars>>
        BY <2>4 DEF Task, PublishFinishes, PublishReports, PublishGivesUpReport,
           ViewFirstFrame, ViewReportsStarted, ViewReportsStatus, ViewFails, ViewReportsEnd,
           ViewCancelled, TaskPanics, SourcesEnumerated, Announce, LanQueues
      <4> QED BY <4>1 DEF LoopType, SlotType, DirType, SrcType
    <3>1. ASSUME NEW r \in Results, PublishFinishes(r) PROVE TypeOK'
      <4>1. pubTask' \in PubStates
        BY <3>1 DEF PublishFinishes, Joined, Reporting, Results, PubStates
      <4> QED BY <3>0, <3>1, <4>1 DEF PublishFinishes, PubType, ViewType, ShowType
    <3>2. CASE PublishReports
      <4>1. pubTask \in {"reportOk", "reportSource", "reportOther"}
        BY <3>2 DEF PublishReports, ReportResult
      <4>2. ReportResult[pubTask] \in Results
        BY <4>1 DEF ReportResult, Results
      <4>3. [type |-> "PublishEnded", gen |-> pubRun, result |-> ReportResult[pubTask]] \in Events
        BY <4>2 DEF Events, PubType
      <4>4. opq' \in Seq(Events)
        BY <3>2, <4>3, SendAdds DEF PublishReports
      <4>5. pubTask' \in PubStates
        BY <3>2 DEF PublishReports, Joined, PubStates
      <4> QED BY <3>0, <3>2, <4>4, <4>5 DEF PublishReports, PubType, ViewType, ShowType
    <3>3. CASE PublishGivesUpReport
      <4>1. pubTask' \in PubStates
        BY <3>3 DEF PublishGivesUpReport, Joined, PubStates
      <4> QED BY <3>0, <3>3, <4>1 DEF PublishGivesUpReport, PubType, ViewType, ShowType
    <3>4. CASE ViewFirstFrame
      <4>1. ViewType'
        BY <3>4 DEF ViewFirstFrame, ViewType, ViewStates
      <4>2. ShowType'
        BY <3>4 DEF ViewFirstFrame, ViewType, ShowType
      <4> QED BY <3>0, <3>4, <4>1, <4>2 DEF ViewFirstFrame, PubType
    <3>5. CASE ViewReportsStarted
      <4>1. [type |-> "ViewStarted", gen |-> viewRun, path |-> mediaPath] \in Events
        BY DEF Events, ViewType, SlotType
      <4>2. opq' \in Seq(Events)
        BY <3>5, <4>1, SendAdds DEF ViewReportsStarted
      <4>3. ViewType'
        BY <3>5 DEF ViewReportsStarted, ViewType, ViewStates
      <4> QED BY <3>0, <3>5, <4>2, <4>3 DEF ViewReportsStarted, PubType, ShowType
    <3>6. CASE ViewReportsStatus
      <4>1. [type |-> "ViewStatus", gen |-> viewRun, path |-> mediaPath] \in Events
        BY DEF Events, ViewType, SlotType
      <4>2. opq' \in Seq(Events)
        BY <3>6, <4>1, SendAdds DEF ViewReportsStatus
      <4> QED BY <3>0, <3>6, <4>2 DEF ViewReportsStatus, PubType, ViewType, ShowType
    <3>7. CASE ViewFails
      <4>1. ViewType'
        BY <3>7 DEF ViewFails, ViewType, ViewStates
      <4> QED BY <3>0, <3>7, <4>1 DEF ViewFails, PubType, ShowType
    <3>8. CASE ViewReportsEnd
      <4>1. [type |-> "ViewEnded", gen |-> viewRun] \in Events
        BY DEF Events, ViewType
      <4>2. opq' \in Seq(Events)
        BY <3>8, <4>1, SendAdds DEF ViewReportsEnd
      <4>3. ViewType'
        BY <3>8 DEF ViewReportsEnd, ViewType, ViewStates
      <4> QED BY <3>0, <3>8, <4>2, <4>3 DEF ViewReportsEnd, PubType, ShowType
    <3>9. CASE ViewCancelled
      <4>1. ViewType'
        BY <3>9 DEF ViewCancelled, ViewType, ViewStates
      <4> QED BY <3>0, <3>9, <4>1 DEF ViewCancelled, PubType, ShowType
    <3>10. CASE TaskPanics
      <4>1. pubTask' \in PubStates /\ viewTask' \in ViewStates
        BY <3>10 DEF TaskPanics, PubStates, ViewStates, PubType, ViewType
      <4> QED BY <3>0, <3>10, <4>1 DEF TaskPanics, PubType, ViewType, ShowType
    <3>11. ASSUME NEW ok \in BOOLEAN, SourcesEnumerated(ok) PROVE TypeOK'
      <4>1. [type |-> "SourcesLoaded", ok |-> ok] \in Events
        BY DEF Events
      <4>2. opq' \in Seq(Events)
        BY <3>11, <4>1, SendAdds DEF SourcesEnumerated
      <4> QED BY <3>0, <3>11, <4>2 DEF SourcesEnumerated, PubType, ViewType, ShowType
    <3>12. ASSUME NEW p \in Paths, NEW a \in BOOLEAN, Announce(p, a) PROVE TypeOK'
      <4>1. [type |-> "ScreenAnnouncement", path |-> p, active |-> a] \in Events
        BY DEF Events
      <4>2. opq' \in Seq(Events)
        BY <3>12, <4>1, SendAdds DEF Announce
      <4> QED BY <3>0, <3>12, <4>2 DEF Announce, PubType, ViewType, ShowType
    <3>13. CASE LanQueues
      <4>1. [type |-> "Lan"] \in Events
        BY DEF Events
      <4>2. opq' \in Seq(Events)
        BY <3>13, <4>1, SendAdds DEF LanQueues
      <4> QED BY <3>0, <3>13, <4>2 DEF LanQueues, PubType, ViewType, ShowType
    <3> QED BY <2>4, <3>1, <3>2, <3>3, <3>4, <3>5, <3>6, <3>7, <3>8, <3>9, <3>10, <3>11,
               <3>12, <3>13 DEF Task
  <2>5. CASE Lan
    <3>1. LoopType'
      BY <2>5 DEF Lan, LanLaunch, LanReady, PrunePeer, LoopType
    <3>2. DirType'
      BY <2>5 DEF Lan, LanLaunch, LanReady, PrunePeer, DirType, Availability
    <3>3. UNCHANGED <<slotVars, pubVars, viewVars, showVars, srcVars, opq>>
      BY <2>5 DEF Lan, LanLaunch, LanReady, PrunePeer
    <3> QED BY <3>1, <3>2, <3>3 DEF SlotType, PubType, ViewType, ShowType, SrcType
  <2>6. CASE UNCHANGED vars
    BY <2>6 DEF vars, LoopType, SlotType, PubType, ViewType, ShowType, DirType, SrcType
  <2> QED BY <2>1, <2>2, <2>3, <2>4, <2>5, <2>6 DEF Next
<1> QED BY <1>1, <1>2, PTL DEF Spec

-----------------------------------------------------------------------------
(* Reports in the queue.                                                   *)

\* A step that keeps the queue, takes its head or sends another kind of event.
QueueStep(type) ==
  \/ opq' = opq
  \/ opq # <<>> /\ opq' = Tail(opq)
  \/ \E e \in Events : e.type # type /\ Send(e)

\* Such a step brings no new event of that type: each was there, d places on.
LEMMA OldReports ==
  ASSUME NEW type, opq \in Seq(Events), QueueStep(type)
  PROVE  \E d \in {0, 1} : \A i \in 1 .. Len(opq') :
           opq'[i].type = type => i + d \in 1 .. Len(opq) /\ opq'[i] = opq[i + d]
<1>1. CASE opq' = opq
  BY <1>1
<1>2. CASE opq # <<>> /\ opq' = Tail(opq)
  <2>1. \A i \in 1 .. Len(opq') : opq'[i] = opq[i + 1] /\ i + 1 \in 1 .. Len(opq)
    BY <1>2, TakeShifts
  <2> QED BY <2>1
<1>3. ASSUME NEW e \in Events, e.type # type, Send(e)
      PROVE  \A i \in 1 .. Len(opq') :
               opq'[i].type = type => i + 0 \in 1 .. Len(opq) /\ opq'[i] = opq[i + 0]
  <2>1. /\ opq' \in Seq(Events) /\ Len(opq') = Len(opq) + 1 /\ Len(opq) \in Nat
        /\ \A i \in 1 .. Len(opq) : opq'[i] = opq[i]
        /\ opq'[Len(opq) + 1] = e
    BY <1>3, SendAdds
  <2> QED BY <1>3, <2>1
<1> QED BY <1>1, <1>2, <1>3 DEF QueueStep

\* The generation inside a report is a number.
LEMMA ReportGens ==
  ASSUME opq \in Seq(Events), NEW i \in 1 .. Len(opq),
         opq[i].type \in {"PublishEnded", "ViewEnded"}
  PROVE  opq[i].gen \in Nat
<1>1. opq[i] \in Events
  OBVIOUS
<1> QED BY <1>1 DEF Events

\* A step that neither sends a report of the publication nor revives one nor
\* takes the phase away keeps PubReportHolds; so does a new generation.
LEMMA PubReportSurvives ==
  ASSUME TypeOK, TypeOK', PubReportHolds, QueueStep("PublishEnded"), pubRun' <= pubGen',
         \/ pubGen' = pubGen /\ (PubLive' => PubLive)
              /\ (media = "Publishing" => media' = "Publishing")
         \/ pubGen' = pubGen + 1
  PROVE  PubReportHolds'
<1>0. pubGen \in Nat /\ pubGen' \in Nat /\ opq \in Seq(Events) /\ opq' \in Seq(Events)
  BY DEF TypeOK, PubType
<1>1. PICK d \in {0, 1} : \A i \in 1 .. Len(opq') :
        opq'[i].type = "PublishEnded" => i + d \in 1 .. Len(opq) /\ opq'[i] = opq[i + d]
  BY <1>0, OldReports
<1>2. ASSUME NEW i \in 1 .. Len(opq'), opq'[i].type = "PublishEnded"
      PROVE  opq'[i].gen \in Nat /\ opq'[i].gen <= pubGen /\ opq'[i].gen <= pubGen'
  <2>1. i + d \in 1 .. Len(opq) /\ opq'[i] = opq[i + d]
    BY <1>1, <1>2
  <2>2. opq[i + d].gen \in Nat /\ opq[i + d].gen <= pubGen
    BY <1>0, <1>2, <2>1, ReportGens DEF PubReportHolds
  <2> QED BY <1>0, <2>1, <2>2
<1>3. CASE pubGen' = pubGen + 1
  <2>1. \A i \in 1 .. Len(opq') : ~IsPubEnd(opq[i])'
    BY <1>0, <1>2, <1>3 DEF IsPubEnd
  <2> QED BY <1>2, <2>1 DEF PubReportHolds, IsPubEnd
<1>4. CASE pubGen' = pubGen /\ (PubLive' => PubLive)
              /\ (media = "Publishing" => media' = "Publishing")
  <2>1. ASSUME NEW i \in 1 .. Len(opq'), IsPubEnd(opq[i])'
        PROVE  /\ ~PubLive' /\ media' = "Publishing"
               /\ \A j \in 1 .. Len(opq') : IsPubEnd(opq[j])' => j = i
    <3>1. i + d \in 1 .. Len(opq) /\ IsPubEnd(opq[i + d])
      BY <1>1, <1>4, <2>1 DEF IsPubEnd
    <3>2. ~PubLive' /\ media' = "Publishing"
      BY <1>4, <3>1 DEF PubReportHolds
    <3>3. ASSUME NEW j \in 1 .. Len(opq'), IsPubEnd(opq[j])' PROVE j = i
      <4>1. j + d \in 1 .. Len(opq) /\ IsPubEnd(opq[j + d])
        BY <1>1, <1>4, <3>3 DEF IsPubEnd
      <4>2. j + d = i + d
        BY <3>1, <4>1 DEF PubReportHolds
      <4> QED BY <4>2
    <3> QED BY <3>2, <3>3
  <2> QED BY <1>2, <2>1 DEF PubReportHolds, IsPubEnd
<1> QED BY <1>3, <1>4

\* A step that neither sends a report of the playback nor revives one nor
\* takes the phase away keeps ViewReportHolds; so does a new generation.
LEMMA ViewReportSurvives ==
  ASSUME TypeOK, TypeOK', ViewReportHolds, QueueStep("ViewEnded"), viewRun' <= viewGen',
         ViewLive' /\ viewCancel' => viewRun' < viewGen',
         \/ viewGen' = viewGen /\ (ViewLive' => ViewLive)
              /\ (media \in {"PreparingView", "Viewing"} => media' \in {"PreparingView", "Viewing"})
         \/ viewGen' = viewGen + 1
  PROVE  ViewReportHolds'
<1>0. viewGen \in Nat /\ viewGen' \in Nat /\ opq \in Seq(Events) /\ opq' \in Seq(Events)
  BY DEF TypeOK, ViewType
<1>1. PICK d \in {0, 1} : \A i \in 1 .. Len(opq') :
        opq'[i].type = "ViewEnded" => i + d \in 1 .. Len(opq) /\ opq'[i] = opq[i + d]
  BY <1>0, OldReports
<1>2. ASSUME NEW i \in 1 .. Len(opq'), opq'[i].type = "ViewEnded"
      PROVE  opq'[i].gen \in Nat /\ opq'[i].gen <= viewGen /\ opq'[i].gen <= viewGen'
  <2>1. i + d \in 1 .. Len(opq) /\ opq'[i] = opq[i + d]
    BY <1>1, <1>2
  <2>2. opq[i + d].gen \in Nat /\ opq[i + d].gen <= viewGen
    BY <1>0, <1>2, <2>1, ReportGens DEF ViewReportHolds
  <2> QED BY <1>0, <2>1, <2>2
<1>3. CASE viewGen' = viewGen + 1
  <2>1. \A i \in 1 .. Len(opq') : ~IsViewEnd(opq[i])'
    BY <1>0, <1>2, <1>3 DEF IsViewEnd
  <2> QED BY <1>2, <2>1 DEF ViewReportHolds, IsViewEnd
<1>4. CASE viewGen' = viewGen /\ (ViewLive' => ViewLive)
              /\ (media \in {"PreparingView", "Viewing"} => media' \in {"PreparingView", "Viewing"})
  <2>1. ASSUME NEW i \in 1 .. Len(opq'), IsViewEnd(opq[i])'
        PROVE  /\ ~ViewLive' /\ media' \in {"PreparingView", "Viewing"}
               /\ \A j \in 1 .. Len(opq') : IsViewEnd(opq[j])' => j = i
    <3>1. i + d \in 1 .. Len(opq) /\ IsViewEnd(opq[i + d])
      BY <1>1, <1>4, <2>1 DEF IsViewEnd
    <3>2. ~ViewLive' /\ media' \in {"PreparingView", "Viewing"}
      BY <1>4, <3>1 DEF ViewReportHolds
    <3>3. ASSUME NEW j \in 1 .. Len(opq'), IsViewEnd(opq[j])' PROVE j = i
      <4>1. j + d \in 1 .. Len(opq) /\ IsViewEnd(opq[j + d])
        BY <1>1, <1>4, <3>3 DEF IsViewEnd
      <4>2. j + d = i + d
        BY <3>1, <4>1 DEF ViewReportHolds
      <4> QED BY <4>2
    <3> QED BY <3>2, <3>3
  <2> QED BY <1>2, <2>1 DEF ViewReportHolds, IsViewEnd
<1> QED BY <1>3, <1>4

-----------------------------------------------------------------------------
(* The inductive invariant.                                                *)

\* What a report found at the head of the queue says, by PubReportHolds or
\* ViewReportHolds.
LEMMA HeadReports ==
  ASSUME TypeOK, ReportsMeetTheirPhase, opq # <<>>
  PROVE  /\ IsPubEnd(Head(opq)) => ~PubLive /\ media = "Publishing"
         /\ IsViewEnd(Head(opq)) => ~ViewLive /\ media \in {"PreparingView", "Viewing"}
<1>1. 1 \in 1 .. Len(opq) /\ Head(opq) = opq[1]
  BY DEF TypeOK
<1> QED BY <1>1 DEF ReportsMeetTheirPhase, PubReportHolds, ViewReportHolds

\* Tasks, their handles, the phase and the suspended handler stay in step.
LEMMA PhaseStep ==
  ASSUME TypeOK, ReportsMeetTheirPhase, [Next]_vars
  PROVE  TasksMatchPhase' /\ LoopHolds'
<1> USE DEF ReportsMeetTheirPhase, TasksMatchPhase, LoopHolds
<1>1. CASE Command
  <2>1. CASE StartPublish
    BY <2>1 DEF StartPublish, CanPublish, Access, PubLive, ViewLive, ViewPhases
  <2>2. CASE StopPublish
    BY <2>2 DEF StopPublish, PubLive, ViewLive, ViewPhases
  <2>3. ASSUME NEW p \in Paths, StartView(p) PROVE TasksMatchPhase' /\ LoopHolds'
    BY <2>3 DEF StartView, CanWatch, Access, PubLive, ViewLive, ViewPhases
  <2>4. CASE StopView
    BY <2>4 DEF StopView, PubLive, ViewLive, ViewPhases
  <2>5. CASE RefreshSources
    BY <2>5 DEF RefreshSources, PubLive, ViewLive
  <2>6. CASE StopLan
    BY <2>6 DEF StopLan, PubLive, ViewLive
  <2> QED BY <1>1, <2>1, <2>2, <2>3, <2>4, <2>5, <2>6 DEF Command
<1>2. CASE Resume
  <2>1. CASE StopPublishJoined
    BY <2>1 DEF StopPublishJoined, PubExited, ReleasePub, PubLive, ViewLive, ViewPhases
  <2>2. CASE StopViewJoined
    BY <2>2 DEF StopViewJoined, ViewExited, ReleaseView, PubLive, ViewLive, ViewPhases
  <2>3. CASE StopLanView
    BY <2>3 DEF StopLanView, PubLive, ViewLive
  <2>4. CASE StopLanPublish
    BY <2>4 DEF StopLanPublish, ViewExited, ReleaseView, PubLive, ViewLive
  <2>5. ASSUME NEW f \in BOOLEAN, StopLanDrain(f) PROVE TasksMatchPhase' /\ LoopHolds'
    BY <2>5 DEF StopLanDrain, PubExited, ReleasePub, PubLive, ViewLive
  <2> QED BY <1>2, <2>1, <2>2, <2>3, <2>4, <2>5 DEF Resume
<1>3. CASE HandleOperation
  <2>1. CASE OnPublishEnded
    <3>1. CurrentPub(Head(opq)) => ~PubLive /\ media = "Publishing"
      BY <2>1, HeadReports DEF OnPublishEnded, Receive, CurrentPub, IsPubEnd
    <3> QED BY <2>1, <3>1 DEF OnPublishEnded, Receive, ReleasePub, PubLive, ViewLive, ViewPhases
  <2>2. CASE OnViewStarted
    BY <2>2 DEF OnViewStarted, Receive, PubLive, ViewLive, ViewPhases
  <2>3. CASE OnViewStatus
    BY <2>3 DEF OnViewStatus, PubLive, ViewLive
  <2>4. CASE OnViewEnded
    <3>1. CurrentView(Head(opq)) => ~ViewLive /\ media \in {"PreparingView", "Viewing"}
      BY <2>4, HeadReports DEF OnViewEnded, Receive, CurrentView, IsViewEnd
    <3> QED BY <2>4, <3>1 DEF OnViewEnded, Receive, ReleaseView, PubLive, ViewLive, ViewPhases
  <2>5. CASE OnScreenAnnouncement \/ OnSourcesLoaded \/ OnLan
    BY <2>5 DEF OnScreenAnnouncement, OnSourcesLoaded, OnLan, PubLive, ViewLive
  <2> QED BY <1>3, <2>1, <2>2, <2>3, <2>4, <2>5 DEF HandleOperation
<1>4. CASE Task
  <2>0. UNCHANGED <<loopVars, slotVars, pubHandle, pubCancel, viewHandle, viewCancel>>
    BY <1>4 DEF Task, PublishFinishes, PublishReports, PublishGivesUpReport,
       ViewFirstFrame, ViewReportsStarted, ViewReportsStatus, ViewFails, ViewReportsEnd,
       ViewCancelled, TaskPanics, SourcesEnumerated, Announce, LanQueues
  <2>1. PubLive' => PubLive
    <3>1. CASE pubTask' = pubTask
      BY <3>1 DEF PubLive
    <3>2. CASE PubLive
      BY <3>2
    <3> QED BY <1>4, <3>1, <3>2 DEF Task, PublishFinishes, PublishReports,
               PublishGivesUpReport, ViewFirstFrame, ViewReportsStarted, ViewReportsStatus,
               ViewFails, ViewReportsEnd, ViewCancelled, TaskPanics, SourcesEnumerated,
               Announce, LanQueues, ReportResult, PubLive
  <2>2. ViewLive' => ViewLive
    BY <1>4 DEF Task, PublishFinishes, PublishReports, PublishGivesUpReport,
       ViewFirstFrame, ViewReportsStarted, ViewReportsStatus, ViewFails, ViewReportsEnd,
       ViewCancelled, TaskPanics, SourcesEnumerated, Announce, LanQueues, ViewLive
  <2> QED BY <2>0, <2>1, <2>2
<1>5. CASE Lan
  BY <1>5 DEF Lan, LanLaunch, LanReady, PrunePeer, PubLive, ViewLive
<1>6. CASE UNCHANGED vars
  BY <1>6 DEF vars, PubLive, ViewLive
<1> QED BY <1>1, <1>2, <1>3, <1>4, <1>5, <1>6 DEF Next

\* Emptying the queue leaves nothing to say about reports.
LEMMA NoReports ==
  ASSUME opq' = <<>>
  PROVE  /\ pubRun' <= pubGen' => PubReportHolds'
         /\ viewRun' <= viewGen' /\ ~ViewLive' => ViewReportHolds'
  BY DEF PubReportHolds, ViewReportHolds

\* Reports of the publication stay behind their resources, and single.
LEMMA PubReportStep ==
  ASSUME TypeOK, TypeOK', ReportsMeetTheirPhase, [Next]_vars
  PROVE  PubReportHolds'
<1>0. /\ pubGen \in Nat /\ pubRun \in Nat /\ pubRun <= pubGen /\ PubReportHolds
      /\ opq \in Seq(Events)
  BY DEF TypeOK, PubType, ReportsMeetTheirPhase, PubReportHolds
\* Steps that leave the publication alone.
<1>1. ASSUME UNCHANGED pubVars, QueueStep("PublishEnded"),
             media = "Publishing" => media' = "Publishing"
      PROVE  PubReportHolds'
  BY <1>0, <1>1, PubReportSurvives DEF PubLive
\* Steps that take the next generation.
<1>2. ASSUME pubGen' = pubGen + 1, pubRun' \in {pubRun, pubGen + 1}, UNCHANGED opq
      PROVE  PubReportHolds'
  <2>1. pubRun' <= pubGen'
    BY <1>0, <1>2
  <2> QED BY <1>0, <1>2, <2>1, PubReportSurvives DEF QueueStep
<1>3. CASE Command
  <2>1. CASE StartPublish
    BY <1>2, <2>1 DEF StartPublish
  <2>2. CASE StopPublish
    BY <1>2, <2>2 DEF StopPublish
  <2>3. ASSUME NEW p \in Paths, StartView(p) PROVE PubReportHolds'
    BY <1>1, <2>3 DEF StartView, CanWatch, QueueStep
  <2>4. CASE StopView
    BY <1>1, <2>4 DEF StopView, QueueStep
  <2>5. CASE RefreshSources \/ StopLan
    BY <1>1, <2>5 DEF RefreshSources, StopLan, QueueStep
  <2> QED BY <1>3, <2>1, <2>2, <2>3, <2>4, <2>5 DEF Command
<1>4. CASE Resume
  <2>1. CASE StopPublishJoined
    <3>1. media = "StoppingPublish"
      BY <2>1 DEF StopPublishJoined, ReportsMeetTheirPhase, LoopHolds
    <3>2. PubLive' => PubLive
      BY <2>1 DEF StopPublishJoined, ReleasePub, PubLive
    <3>3. UNCHANGED <<pubGen, pubRun, opq>>
      BY <2>1 DEF StopPublishJoined
    <3> QED BY <1>0, <3>1, <3>2, <3>3, PubReportSurvives DEF QueueStep
  <2>2. CASE StopViewJoined
    BY <1>1, <2>2 DEF StopViewJoined, QueueStep
  <2>3. CASE StopLanView
    BY <1>1, <2>3 DEF StopLanView, QueueStep
  <2>4. CASE StopLanPublish
    BY <1>2, <2>4 DEF StopLanPublish
  <2>5. ASSUME NEW f \in BOOLEAN, StopLanDrain(f) PROVE PubReportHolds'
    BY <1>0, <2>5, NoReports DEF StopLanDrain, DrainQueue
  <2> QED BY <1>4, <2>1, <2>2, <2>3, <2>4, <2>5 DEF Resume
<1>5. CASE HandleOperation
  <2>0. QueueStep("PublishEnded")
    BY <1>5 DEF HandleOperation, OnPublishEnded, OnViewStarted, OnViewStatus, OnViewEnded,
       OnScreenAnnouncement, OnSourcesLoaded, OnLan, Receive, QueueStep
  <2>1. CASE OnPublishEnded
    <3>1. UNCHANGED <<pubGen, pubRun>> /\ (PubLive' => PubLive)
      BY <2>1 DEF OnPublishEnded, ReleasePub, PubLive
    <3>2. CASE ~IsPubEnd(Head(opq))
      <4>1. media' = media
        BY <2>1, <3>2 DEF OnPublishEnded, Receive, CurrentPub, IsPubEnd
      <4> QED BY <1>0, <2>0, <3>1, <4>1, PubReportSurvives
    \* The report that ends the phase was the only one of its generation.
    <3>3. CASE IsPubEnd(Head(opq))
      <4>1. /\ Head(opq) = opq[1] /\ 1 \in 1 .. Len(opq) /\ opq' \in Seq(Events)
            /\ \A j \in 1 .. Len(opq') : opq'[j] = opq[j + 1] /\ j + 1 \in 1 .. Len(opq)
        BY <1>0, <2>1, TakeShifts DEF OnPublishEnded, Receive
      <4>2. \A j \in 1 .. Len(opq) : IsPubEnd(opq[j]) => j = 1
        BY <1>0, <3>3, <4>1 DEF PubReportHolds
      <4>3. \A j \in 1 .. Len(opq') : ~IsPubEnd(opq[j + 1])
        <5> SUFFICES ASSUME NEW j \in 1 .. Len(opq'), IsPubEnd(opq[j + 1]) PROVE FALSE
          OBVIOUS
        <5>1. j + 1 = 1
          BY <4>1, <4>2
        <5> QED BY <5>1
      <4>4. \A j \in 1 .. Len(opq') : ~IsPubEnd(opq[j])'
        BY <3>1, <4>1, <4>3 DEF IsPubEnd
      <4>5. \A j \in 1 .. Len(opq') : opq'[j].type = "PublishEnded" => opq'[j].gen <= pubGen'
        BY <1>0, <3>1, <4>1 DEF PubReportHolds
      <4> QED BY <1>0, <3>1, <4>4, <4>5 DEF PubReportHolds, IsPubEnd
    <3> QED BY <3>2, <3>3
  <2>2. CASE OnViewStarted
    BY <1>1, <2>0, <2>2 DEF OnViewStarted
  <2>3. CASE OnViewEnded
    BY <1>1, <2>0, <2>3, HeadReports DEF OnViewEnded, Receive, CurrentView, IsViewEnd
  <2>4. CASE OnViewStatus \/ OnScreenAnnouncement \/ OnSourcesLoaded \/ OnLan
    BY <1>1, <2>0, <2>4 DEF OnViewStatus, OnScreenAnnouncement, OnSourcesLoaded, OnLan
  <2> QED BY <1>5, <2>1, <2>2, <2>3, <2>4 DEF HandleOperation
<1>6. CASE Task
  <2>1. CASE (\E r \in Results : PublishFinishes(r)) \/ PublishGivesUpReport \/ TaskPanics
    <3>1. PubLive' => PubLive
      BY <2>1 DEF PublishFinishes, PublishGivesUpReport, TaskPanics, ReportResult, PubLive
    <3>2. UNCHANGED <<pubGen, pubRun, media, opq>>
      BY <2>1 DEF PublishFinishes, PublishGivesUpReport, TaskPanics
    <3> QED BY <1>0, <3>1, <3>2, PubReportSurvives DEF QueueStep
  \* A live task holds its own generation, so no report of it is waiting.
  <2>2. CASE PublishReports
    <3> DEFINE e == [type |-> "PublishEnded", gen |-> pubRun, result |-> ReportResult[pubTask]]
    <3>1. PubLive /\ media = "Publishing" /\ pubTask \in {"reportOk", "reportSource", "reportOther"}
      BY <2>2 DEF PublishReports, ReportResult, PubLive, ReportsMeetTheirPhase, TasksMatchPhase
    <3>2. e \in Events
      BY <1>0, <3>1 DEF Events, ReportResult, Results
    <3>3. ~PubLive' /\ media' = "Publishing" /\ pubGen' = pubGen /\ pubRun' = pubRun
      BY <2>2, <3>1 DEF PublishReports, Joined, PubLive
    <3>4. /\ Len(opq') = Len(opq) + 1 /\ Len(opq) \in Nat /\ opq'[Len(opq) + 1] = e
          /\ \A i \in 1 .. Len(opq) : opq'[i] = opq[i]
      BY <1>0, <2>2, <3>2, SendAdds DEF PublishReports
    <3>5. \A i \in 1 .. Len(opq) : ~IsPubEnd(opq[i])
      BY <1>0, <3>1 DEF PubReportHolds
    <3>6. \A i \in 1 .. Len(opq') : IsPubEnd(opq[i])' => i = Len(opq) + 1
      BY <3>3, <3>4, <3>5 DEF IsPubEnd
    <3>7. \A i \in 1 .. Len(opq') : opq'[i].type = "PublishEnded" => opq'[i].gen <= pubGen'
      BY <1>0, <3>3, <3>4 DEF PubReportHolds
    <3> HIDE DEF e
    <3> QED BY <1>0, <3>3, <3>6, <3>7 DEF PubReportHolds, IsPubEnd
  <2>3. CASE ViewFirstFrame \/ ViewFails \/ ViewCancelled
    BY <1>1, <2>3 DEF ViewFirstFrame, ViewFails, ViewCancelled, QueueStep
  <2>4. CASE ViewReportsStarted \/ ViewReportsStatus \/ ViewReportsEnd
    <3>1. UNCHANGED <<pubVars, media>>
      BY <2>4 DEF ViewReportsStarted, ViewReportsStatus, ViewReportsEnd
    <3>2. /\ [type |-> "ViewStarted", gen |-> viewRun, path |-> mediaPath] \in Events
          /\ [type |-> "ViewStatus", gen |-> viewRun, path |-> mediaPath] \in Events
          /\ [type |-> "ViewEnded", gen |-> viewRun] \in Events
      BY DEF Events, TypeOK, ViewType, SlotType
    <3>3. QueueStep("PublishEnded")
      BY <2>4, <3>2 DEF ViewReportsStarted, ViewReportsStatus, ViewReportsEnd, QueueStep
    <3> QED BY <1>1, <3>1, <3>3
  <2>5. CASE \/ \E ok \in BOOLEAN : SourcesEnumerated(ok)
             \/ \E p \in Paths, a \in BOOLEAN : Announce(p, a)
             \/ LanQueues
    <3>1. UNCHANGED <<pubVars, media>>
      BY <2>5 DEF SourcesEnumerated, Announce, LanQueues
    <3>2. QueueStep("PublishEnded")
      BY <2>5 DEF SourcesEnumerated, Announce, LanQueues, QueueStep, Events
    <3> QED BY <1>1, <3>1, <3>2
  <2> QED BY <1>6, <2>1, <2>2, <2>3, <2>4, <2>5 DEF Task
<1>7. CASE Lan
  BY <1>1, <1>7 DEF Lan, LanLaunch, LanReady, PrunePeer, QueueStep
<1>8. CASE UNCHANGED vars
  BY <1>1, <1>8 DEF vars, QueueStep
<1> QED BY <1>3, <1>4, <1>5, <1>6, <1>7, <1>8 DEF Next

\* Reports of the playback stay behind their resources, and single.
LEMMA ViewReportStep ==
  ASSUME TypeOK, TypeOK', ReportsMeetTheirPhase, [Next]_vars
  PROVE  ViewReportHolds'
<1>0. /\ viewGen \in Nat /\ viewRun \in Nat /\ viewRun <= viewGen /\ ViewReportHolds
      /\ ViewLive /\ viewCancel => viewRun < viewGen
      /\ opq \in Seq(Events)
  BY DEF TypeOK, ViewType, ReportsMeetTheirPhase, ViewReportHolds
\* Steps that leave the playback alone.
<1>1. ASSUME UNCHANGED viewVars, QueueStep("ViewEnded"),
             media \in {"PreparingView", "Viewing"} => media' \in {"PreparingView", "Viewing"}
      PROVE  ViewReportHolds'
  BY <1>0, <1>1, ViewReportSurvives DEF ViewLive
\* Steps that take the next generation.
<1>2. ASSUME viewGen' = viewGen + 1, UNCHANGED opq,
             viewRun' = viewRun \/ (viewRun' = viewGen + 1 /\ ~viewCancel')
      PROVE  ViewReportHolds'
  <2>1. viewRun' <= viewGen' /\ (viewCancel' => viewRun' < viewGen')
    BY <1>0, <1>2
  <2> QED BY <1>0, <1>2, <2>1, ViewReportSurvives DEF QueueStep
<1>3. CASE Command
  <2>1. CASE StartPublish
    BY <1>1, <2>1 DEF StartPublish, CanPublish, QueueStep
  <2>2. CASE StopPublish
    BY <1>1, <2>2 DEF StopPublish, QueueStep
  <2>3. ASSUME NEW p \in Paths, StartView(p) PROVE ViewReportHolds'
    BY <1>2, <2>3 DEF StartView
  <2>4. CASE StopView
    BY <1>2, <2>4 DEF StopView
  <2>5. CASE RefreshSources \/ StopLan
    BY <1>1, <2>5 DEF RefreshSources, StopLan, QueueStep
  <2> QED BY <1>3, <2>1, <2>2, <2>3, <2>4, <2>5 DEF Command
<1>4. CASE Resume
  <2>1. CASE StopPublishJoined
    BY <1>1, <2>1 DEF StopPublishJoined, QueueStep
  <2>2. CASE StopViewJoined
    <3>1. media = "StoppingView"
      BY <2>2 DEF StopViewJoined, ReportsMeetTheirPhase, LoopHolds
    <3>2. ViewLive' => ViewLive
      BY <2>2 DEF StopViewJoined, ReleaseView, ViewLive
    <3>3. UNCHANGED <<viewGen, viewRun, viewCancel, opq>>
      BY <2>2 DEF StopViewJoined
    <3> QED BY <1>0, <3>1, <3>2, <3>3, ViewReportSurvives DEF QueueStep
  <2>3. CASE StopLanView
    BY <1>2, <2>3 DEF StopLanView
  <2>4. CASE StopLanPublish
    <3>1. ViewLive' => ViewLive
      BY <2>4 DEF StopLanPublish, ReleaseView, ViewLive
    <3>2. UNCHANGED <<viewGen, viewRun, viewCancel, opq, media>>
      BY <2>4 DEF StopLanPublish
    <3> QED BY <1>0, <3>1, <3>2, ViewReportSurvives DEF QueueStep
  <2>5. ASSUME NEW f \in BOOLEAN, StopLanDrain(f) PROVE ViewReportHolds'
    <3>1. ~ViewLive'
      BY <2>5 DEF StopLanDrain, ViewLive, ReportsMeetTheirPhase, LoopHolds
    <3> QED BY <1>0, <2>5, <3>1, NoReports DEF StopLanDrain, DrainQueue
  <2> QED BY <1>4, <2>1, <2>2, <2>3, <2>4, <2>5 DEF Resume
<1>5. CASE HandleOperation
  <2>0. QueueStep("ViewEnded")
    BY <1>5 DEF HandleOperation, OnPublishEnded, OnViewStarted, OnViewStatus, OnViewEnded,
       OnScreenAnnouncement, OnSourcesLoaded, OnLan, Receive, QueueStep
  <2>1. CASE OnPublishEnded
    BY <1>1, <2>0, <2>1, HeadReports DEF OnPublishEnded, Receive, CurrentPub, IsPubEnd
  <2>2. CASE OnViewStarted
    BY <1>1, <2>0, <2>2 DEF OnViewStarted
  <2>3. CASE OnViewEnded
    <3>1. UNCHANGED <<viewGen, viewRun, viewCancel>> /\ (ViewLive' => ViewLive)
      BY <2>3 DEF OnViewEnded, ReleaseView, ViewLive
    <3>2. CASE ~IsViewEnd(Head(opq))
      <4>1. media' = media
        BY <2>3, <3>2 DEF OnViewEnded, Receive, CurrentView, IsViewEnd
      <4> QED BY <1>0, <2>0, <3>1, <4>1, ViewReportSurvives
    \* The report that ends the phase was the only one of its generation.
    <3>3. CASE IsViewEnd(Head(opq))
      <4>1. /\ Head(opq) = opq[1] /\ 1 \in 1 .. Len(opq) /\ opq' \in Seq(Events)
            /\ \A j \in 1 .. Len(opq') : opq'[j] = opq[j + 1] /\ j + 1 \in 1 .. Len(opq)
        BY <1>0, <2>3, TakeShifts DEF OnViewEnded, Receive
      <4>2. \A j \in 1 .. Len(opq) : IsViewEnd(opq[j]) => j = 1
        BY <1>0, <3>3, <4>1 DEF ViewReportHolds
      <4>3. \A j \in 1 .. Len(opq') : ~IsViewEnd(opq[j + 1])
        <5> SUFFICES ASSUME NEW j \in 1 .. Len(opq'), IsViewEnd(opq[j + 1]) PROVE FALSE
          OBVIOUS
        <5>1. j + 1 = 1
          BY <4>1, <4>2
        <5> QED BY <5>1
      <4>4. \A j \in 1 .. Len(opq') : ~IsViewEnd(opq[j])'
        BY <3>1, <4>1, <4>3 DEF IsViewEnd
      <4>5. \A j \in 1 .. Len(opq') : opq'[j].type = "ViewEnded" => opq'[j].gen <= viewGen'
        BY <1>0, <3>1, <4>1 DEF ViewReportHolds
      <4> QED BY <1>0, <3>1, <4>4, <4>5 DEF ViewReportHolds, IsViewEnd
    <3> QED BY <3>2, <3>3
  <2>4. CASE OnViewStatus \/ OnScreenAnnouncement \/ OnSourcesLoaded \/ OnLan
    BY <1>1, <2>0, <2>4 DEF OnViewStatus, OnScreenAnnouncement, OnSourcesLoaded, OnLan
  <2> QED BY <1>5, <2>1, <2>2, <2>3, <2>4 DEF HandleOperation
<1>6. CASE Task
  <2>1. CASE ViewFirstFrame \/ ViewFails \/ ViewCancelled \/ TaskPanics
    <3>1. ViewLive' => ViewLive
      BY <2>1 DEF ViewFirstFrame, ViewFails, ViewCancelled, TaskPanics, ViewLive
    <3>2. UNCHANGED <<viewGen, viewRun, viewCancel, media, opq>>
      BY <2>1 DEF ViewFirstFrame, ViewFails, ViewCancelled, TaskPanics
    <3> QED BY <1>0, <3>1, <3>2, ViewReportSurvives DEF QueueStep
  \* A live task holds its own generation, so no report of it is waiting.
  <2>2. CASE ViewReportsEnd
    <3> DEFINE e == [type |-> "ViewEnded", gen |-> viewRun]
    <3>1. /\ ViewLive
          /\ ~viewCancel => media \in {"PreparingView", "Viewing"}
      BY <2>2 DEF ViewReportsEnd, ViewLive, ReportsMeetTheirPhase, TasksMatchPhase
    <3>2. e \in Events
      BY <1>0 DEF Events
    <3>3. /\ ~ViewLive' /\ media' = media /\ UNCHANGED <<viewGen, viewRun, viewCancel>>
      BY <2>2, <3>1 DEF ViewReportsEnd, ViewLive
    <3>4. /\ Len(opq') = Len(opq) + 1 /\ Len(opq) \in Nat /\ opq'[Len(opq) + 1] = e
          /\ \A i \in 1 .. Len(opq) : opq'[i] = opq[i]
      BY <1>0, <2>2, <3>2, SendAdds DEF ViewReportsEnd
    <3>5. \A i \in 1 .. Len(opq) : ~IsViewEnd(opq[i])
      BY <1>0, <3>1 DEF ViewReportHolds
    <3>6. \A i \in 1 .. Len(opq') : IsViewEnd(opq[i])' => i = Len(opq) + 1
      BY <3>3, <3>4, <3>5 DEF IsViewEnd
    \* The report of a cancelled task is stale when it is sent.
    <3>7. viewCancel => \A i \in 1 .. Len(opq') : ~IsViewEnd(opq[i])'
      BY <1>0, <3>1, <3>3, <3>4, <3>6 DEF IsViewEnd
    <3>8. \A i \in 1 .. Len(opq') : opq'[i].type = "ViewEnded" => opq'[i].gen <= viewGen'
      BY <1>0, <3>3, <3>4 DEF ViewReportHolds
    <3> HIDE DEF e
    <3> QED BY <1>0, <3>1, <3>3, <3>6, <3>7, <3>8 DEF ViewReportHolds, IsViewEnd
  <2>3. CASE (\E r \in Results : PublishFinishes(r)) \/ PublishGivesUpReport
    BY <1>1, <2>3 DEF PublishFinishes, PublishGivesUpReport, QueueStep
  <2>4. CASE PublishReports
    <3>1. [type |-> "PublishEnded", gen |-> pubRun, result |-> ReportResult[pubTask]] \in Events
      BY <2>4 DEF PublishReports, Events, ReportResult, Results, TypeOK, PubType
    <3>2. QueueStep("ViewEnded")
      BY <2>4, <3>1 DEF PublishReports, QueueStep
    <3> QED BY <1>1, <2>4, <3>2 DEF PublishReports
  <2>5. CASE ViewReportsStarted \/ ViewReportsStatus
    <3>1. ViewLive' => ViewLive
      BY <2>5 DEF ViewReportsStarted, ViewReportsStatus, ViewLive
    <3>2. UNCHANGED <<viewGen, viewRun, viewCancel, media>>
      BY <2>5 DEF ViewReportsStarted, ViewReportsStatus
    <3>3. /\ [type |-> "ViewStarted", gen |-> viewRun, path |-> mediaPath] \in Events
          /\ [type |-> "ViewStatus", gen |-> viewRun, path |-> mediaPath] \in Events
      BY DEF Events, TypeOK, ViewType, SlotType
    <3>4. QueueStep("ViewEnded")
      BY <2>5, <3>3 DEF ViewReportsStarted, ViewReportsStatus, QueueStep
    <3> QED BY <1>0, <3>1, <3>2, <3>4, ViewReportSurvives
  <2>6. CASE \/ \E ok \in BOOLEAN : SourcesEnumerated(ok)
             \/ \E p \in Paths, a \in BOOLEAN : Announce(p, a)
             \/ LanQueues
    <3>1. UNCHANGED <<viewVars, media>>
      BY <2>6 DEF SourcesEnumerated, Announce, LanQueues
    <3>2. QueueStep("ViewEnded")
      BY <2>6 DEF SourcesEnumerated, Announce, LanQueues, QueueStep, Events
    <3> QED BY <1>1, <3>1, <3>2
  <2> QED BY <1>6, <2>1, <2>2, <2>3, <2>4, <2>5, <2>6 DEF Task
<1>7. CASE Lan
  BY <1>1, <1>7 DEF Lan, LanLaunch, LanReady, PrunePeer, QueueStep
<1>8. CASE UNCHANGED vars
  BY <1>1, <1>8 DEF vars, QueueStep
<1> QED BY <1>3, <1>4, <1>5, <1>6, <1>7, <1>8 DEF Next

\* A report, the task that sent it and the phase it ends agree for every number
\* of screens and every capacity of the queue.
THEOREM ReportsMeetPhase == Spec => []ReportsMeetTheirPhase
<1>1. Init => ReportsMeetTheirPhase
  BY DEF Init, ReportsMeetTheirPhase, TasksMatchPhase, LoopHolds, PubReportHolds,
         ViewReportHolds, PubLive, ViewLive
<1>2. TypeOK /\ TypeOK' /\ ReportsMeetTheirPhase /\ [Next]_vars => ReportsMeetTheirPhase'
  <2> SUFFICES ASSUME TypeOK, TypeOK', ReportsMeetTheirPhase, [Next]_vars
               PROVE  ReportsMeetTheirPhase'
    OBVIOUS
  <2>1. TasksMatchPhase' /\ LoopHolds'
    BY PhaseStep
  <2>2. PubReportHolds' /\ ViewReportHolds'
    BY PubReportStep, ViewReportStep
  <2> QED BY <2>1, <2>2 DEF ReportsMeetTheirPhase
<1> QED BY <1>1, <1>2, TypeCorrect, PTL DEF Spec

\* A publication and a playback never run at once, and a running one shows in
\* the media state: nothing starts while the work before it still runs.
THEOREM SlotExclusive == Spec => []SlotOwnsTheOnlyTask
<1>1. ReportsMeetTheirPhase => SlotOwnsTheOnlyTask
  BY DEF ReportsMeetTheirPhase, TasksMatchPhase, SlotOwnsTheOnlyTask, ViewPhases
<1> QED BY <1>1, ReportsMeetPhase, PTL

\* The expects in the completion handlers and the stops are never reached.
THEOREM HandlersDoNotPanic == Spec => []NoHandlerPanics
<1>1. ReportsMeetTheirPhase => NoHandlerPanics
  BY DEF ReportsMeetTheirPhase, LoopHolds, NoHandlerPanics
<1> QED BY <1>1, ReportsMeetPhase, PTL

\* Every screen the user may watch has a live route, and every route is shown.
THEOREM DirectoryMatchesRoutes == Spec => []DirectoryHasRoutes
<1>1. Init => DirectoryHasRoutes
  BY DEF Init, DirectoryHasRoutes
<1>2. TypeOK /\ DirectoryHasRoutes /\ [Next]_vars => DirectoryHasRoutes'
  <2> SUFFICES ASSUME TypeOK, DirectoryHasRoutes, [Next]_vars PROVE DirectoryHasRoutes'
    OBVIOUS
  <2>1. ASSUME UNCHANGED dirVars PROVE DirectoryHasRoutes'
    BY <2>1 DEF DirectoryHasRoutes
  <2>2. CASE Command
    BY <2>1, <2>2 DEF Command, StartPublish, StopPublish, StartView, StopView, RefreshSources,
                      StopLan
  <2>3. CASE Resume
    <3>1. ASSUME NEW f \in BOOLEAN, StopLanDrain(f) PROVE DirectoryHasRoutes'
      BY <3>1 DEF StopLanDrain, DirectoryHasRoutes
    <3> QED BY <2>1, <2>3, <3>1 DEF Resume, StopPublishJoined, StopViewJoined, StopLanView,
                                    StopLanPublish
  <2>4. CASE HandleOperation
    <3>1. CASE OnScreenAnnouncement
      <4> DEFINE p == Head(opq).path
      <4>1. Head(opq).type = "ScreenAnnouncement" /\ Head(opq) \in Events
        BY <3>1, TakeShifts DEF OnScreenAnnouncement, Receive, TypeOK
      <4>2. p \in Paths
        BY <4>1 DEF Events
      <4>3. PICK a \in Availability :
              /\ screens' = [screens EXCEPT ![p] = a]
              /\ Head(opq).active => a = "Available"
              /\ ~Head(opq).active => a # "Available"
        BY <3>1 DEF OnScreenAnnouncement, Availability
      <4>4. consumers' = IF Head(opq).active THEN consumers \cup {p} ELSE consumers \ {p}
        BY <3>1 DEF OnScreenAnnouncement, RoutesAfter
      <4>5. screens \in [Paths -> Availability]
        BY DEF TypeOK, DirType
      <4> HIDE DEF p
      <4> QED BY <4>2, <4>3, <4>4, <4>5 DEF DirectoryHasRoutes
    <3> QED BY <2>1, <2>4, <3>1 DEF HandleOperation, OnPublishEnded, OnViewStarted,
                                    OnViewStatus, OnViewEnded, OnSourcesLoaded, OnLan
  <2>5. CASE Task
    BY <2>1, <2>5 DEF Task, PublishFinishes, PublishReports, PublishGivesUpReport,
       ViewFirstFrame, ViewReportsStarted, ViewReportsStatus, ViewFails, ViewReportsEnd,
       ViewCancelled, TaskPanics, SourcesEnumerated, Announce, LanQueues
  <2>6. CASE Lan
    <3>1. ASSUME NEW p \in Paths, PrunePeer(p) PROVE DirectoryHasRoutes'
      BY <3>1 DEF PrunePeer, DirectoryHasRoutes, TypeOK, DirType
    <3> QED BY <2>1, <2>6, <3>1 DEF Lan, LanLaunch, LanReady
  <2>7. CASE UNCHANGED vars
    BY <2>1, <2>7 DEF vars
  <2> QED BY <2>2, <2>3, <2>4, <2>5, <2>6, <2>7 DEF Next
<1> QED BY <1>1, <1>2, TypeCorrect, PTL DEF Spec

-----------------------------------------------------------------------------
(* The slot implements the safety part of MediaLease.                      *)

Working == PubLive \/ ViewLive

\* How a step of the slot looks to the lease.
Keeps  == Holder' = Holder /\ (Working' <=> Working) /\ (Closing' <=> Closing)
Takes  == Holder = "nobody" /\ Holder' \in {"publication", "playback"} /\ Working' /\ ~Closing'
Closes == Holder # "nobody" /\ Holder' = Holder /\ ~Closing /\ Closing' /\ (Working' <=> Working)
Ends   == Working /\ ~Working' /\ Holder' = Holder /\ (Closing' <=> Closing)
Frees  == Holder # "nobody" /\ Holder' = "nobody" /\ ~Working /\ ~Working' /\ ~Closing'

\* Each of these is a step of the lease or leaves it alone.
LEMMA LeaseViews ==
  ASSUME Keeps \/ Takes \/ Closes \/ Ends \/ Frees
  PROVE  [Lease!LeaseNext]_(Lease!leaseVars)
<1>1. CASE Keeps
  BY <1>1 DEF Keeps, Working, PubLive, ViewLive, Closing, Lease!leaseVars
<1>2. CASE Takes
  <2>1. Lease!Acquire(Holder')
    BY <1>2 DEF Takes, Working, Lease!Acquire
  <2> QED BY <1>2, <2>1 DEF Takes, Lease!LeaseNext, Lease!Activities
<1>3. CASE Closes
  BY <1>3 DEF Closes, Working, PubLive, ViewLive, Closing, Lease!Close, Lease!LeaseNext
<1>4. CASE Ends
  BY <1>4 DEF Ends, Working, PubLive, ViewLive, Closing, Lease!WorkEnds, Lease!LeaseNext
<1>5. CASE Frees
  BY <1>5 DEF Frees, Working, Lease!Release, Lease!LeaseNext
<1> QED BY <1>1, <1>2, <1>3, <1>4, <1>5

\* A step that leaves slot, tasks and closing as they are.
LEMMA KeepsAll ==
  ASSUME media' = media, pubTask' = pubTask, viewTask' = viewTask, pc' = pc
  PROVE  Keeps
BY DEF Keeps, Holder, Working, PubLive, ViewLive, Closing

\* Every step is one of these views.  A free slot has no work under it, and what
\* is freed had its task joined or had it report its end.
LEMMA LeaseStep ==
  ASSUME TypeOK, ReportsMeetTheirPhase, [Next]_vars
  PROVE  Keeps \/ Takes \/ Closes \/ Ends \/ Frees
<1> DEFINE Goal == Keeps \/ Takes \/ Closes \/ Ends \/ Frees
<1> SUFFICES Goal
  OBVIOUS
<1>1. /\ TasksMatchPhase /\ LoopHolds
      /\ media \in Phases /\ pubTask \in PubStates /\ viewTask \in ViewStates
  BY DEF ReportsMeetTheirPhase, TypeOK, SlotType, PubType, ViewType
<1> USE <1>1 DEF Holder, Working, Closing, PubLive, ViewLive, TasksMatchPhase, ViewPhases
<1>2. CASE Command
  <2>1. CASE StartPublish
    BY <2>1 DEF StartPublish, CanPublish, Takes
  <2>2. CASE StopPublish
    BY <2>2 DEF StopPublish, Closes
  <2>3. CASE \E p \in Paths : StartView(p)
    BY <2>3 DEF StartView, CanWatch, Takes
  <2>4. CASE StopView
    BY <2>4 DEF StopView, Closes
  <2>5. CASE RefreshSources
    BY <2>5, KeepsAll DEF RefreshSources
  <2>6. CASE StopLan
    BY <2>6 DEF StopLan, Keeps, Closes
  <2> QED BY <1>2, <2>1, <2>2, <2>3, <2>4, <2>5, <2>6 DEF Command
<1>3. CASE Resume
  <2>1. CASE StopPublishJoined
    BY <2>1 DEF StopPublishJoined, PubExited, ReleasePub, LoopHolds, Frees
  <2>2. CASE StopViewJoined
    BY <2>2 DEF StopViewJoined, ViewExited, ReleaseView, LoopHolds, Frees
  <2>3. CASE StopLanView
    BY <2>3 DEF StopLanView, Keeps
  <2>4. CASE StopLanPublish
    BY <2>4 DEF StopLanPublish, ViewExited, ReleaseView, Keeps
  <2>5. CASE \E f \in BOOLEAN : StopLanDrain(f)
    BY <2>5 DEF StopLanDrain, PubExited, ReleasePub, LoopHolds, Keeps, Frees
  <2> QED BY <1>3, <2>1, <2>2, <2>3, <2>4, <2>5 DEF Resume
<1>4. CASE HandleOperation
  <2>1. CASE OnPublishEnded
    <3>1. IsPubEnd(Head(opq)) => ~PubLive /\ media = "Publishing"
      BY <2>1, HeadReports DEF OnPublishEnded, Receive
    <3> QED BY <2>1, <3>1 DEF OnPublishEnded, Receive, CurrentPub, IsPubEnd, ReleasePub,
                              Keeps, Frees
  <2>2. CASE OnViewStarted
    BY <2>2 DEF OnViewStarted, Receive, Keeps
  <2>3. CASE OnViewEnded
    <3>1. IsViewEnd(Head(opq)) => ~ViewLive /\ media \in {"PreparingView", "Viewing"}
      BY <2>3, HeadReports DEF OnViewEnded, Receive
    <3> QED BY <2>3, <3>1 DEF OnViewEnded, Receive, CurrentView, IsViewEnd, ReleaseView,
                              Keeps, Frees
  <2>4. CASE OnViewStatus \/ OnScreenAnnouncement \/ OnSourcesLoaded \/ OnLan
    BY <2>4, KeepsAll DEF OnViewStatus, OnScreenAnnouncement, OnSourcesLoaded, OnLan
  <2> QED BY <1>4, <2>1, <2>2, <2>3, <2>4 DEF HandleOperation
<1>5. CASE Task
  <2>1. CASE \E r \in Results : PublishFinishes(r)
    BY <2>1 DEF PublishFinishes, Joined, Reporting, Results, Keeps, Ends
  <2>2. CASE PublishReports \/ PublishGivesUpReport
    BY <2>2 DEF PublishReports, PublishGivesUpReport, Joined, ReportResult, Keeps, Ends
  <2>3. CASE ViewFirstFrame \/ ViewReportsStarted \/ ViewFails
    BY <2>3 DEF ViewFirstFrame, ViewReportsStarted, ViewFails, Keeps
  <2>4. CASE ViewReportsEnd \/ ViewCancelled \/ TaskPanics
    BY <2>4 DEF ViewReportsEnd, ViewCancelled, TaskPanics, Ends
  <2>5. CASE \/ ViewReportsStatus \/ (\E ok \in BOOLEAN : SourcesEnumerated(ok))
             \/ (\E p \in Paths, a \in BOOLEAN : Announce(p, a)) \/ LanQueues
    BY <2>5, KeepsAll DEF ViewReportsStatus, SourcesEnumerated, Announce, LanQueues
  <2> QED BY <1>5, <2>1, <2>2, <2>3, <2>4, <2>5 DEF Task
<1>6. CASE Lan
  BY <1>6, KeepsAll DEF Lan, LanLaunch, LanReady, PrunePeer
<1>7. CASE UNCHANGED vars
  BY <1>7, KeepsAll DEF vars
<1> QED BY <1>2, <1>3, <1>4, <1>5, <1>6, <1>7 DEF Next

\* The slot is a lease: it passes from one activity to the other only through
\* nobody, and is never given back while the work under it runs.  The liveness
\* half of ImplementsLease is left to the runs.
THEOREM SlotIsALease ==
  Spec => Lease!LeaseInit /\ [][Lease!LeaseNext]_(Lease!leaseVars)
<1>1. Init => Lease!LeaseInit
  BY DEF Init, Lease!LeaseInit, Holder, PubLive, ViewLive, Closing
<1>2. TypeOK /\ ReportsMeetTheirPhase /\ [Next]_vars
        => [Lease!LeaseNext]_(Lease!leaseVars)
  BY LeaseStep, LeaseViews
<1> QED BY <1>1, <1>2, TypeCorrect, ReportsMeetPhase, PTL DEF Spec

-----------------------------------------------------------------------------
(* Off and the viewer.                                                     *)

\* What is left of the media half once the LAN is gone.
NothingLeft ==
  /\ ~PubLive /\ ~ViewLive /\ media = "Idle"
  /\ consumers = {} /\ \A p \in Paths : screens[p] = "none"
  /\ \A i \in 1 .. Len(opq) : opq[i].type = "SourcesLoaded"

\* While the LAN is off, no step but the enumeration of sources and its answer
\* does anything: admission is closed and no producer of another event is left.
LEMMA OffIsQuiet ==
  ASSUME TypeOK, ReportsMeetTheirPhase, ~origins, NothingLeft, Next, ~origins'
  PROVE  NothingLeft'
<1>1. /\ ~ready /\ pc \notin {"stopPublish", "stopView"} /\ opq \in Seq(Events)
      /\ pubTask \notin DOMAIN ReportResult
  BY DEF ReportsMeetTheirPhase, LoopHolds, NothingLeft, TypeOK, PubLive, ReportResult
\* Steps that keep the queue or take its head.
<1>2. ASSUME UNCHANGED <<pubTask, viewTask, media, consumers, screens>>,
             opq' = opq \/ (opq # <<>> /\ opq' = Tail(opq))
      PROVE  NothingLeft'
  <2>1. \A i \in 1 .. Len(opq') : opq'[i].type = "SourcesLoaded"
    <3>1. CASE opq' = opq
      BY <3>1 DEF NothingLeft
    <3>2. CASE opq # <<>> /\ opq' = Tail(opq)
      BY <1>1, <3>2, TakeShifts DEF NothingLeft
    <3> QED BY <1>2, <3>1, <3>2
  <2> QED BY <1>2, <2>1 DEF NothingLeft, PubLive, ViewLive
<1>3. CASE Command
  BY <1>1, <1>2, <1>3 DEF Command, StartPublish, StopPublish, StartView, StopView,
     RefreshSources, StopLan, CanPublish, CanWatch, Access, NothingLeft
<1>4. CASE Resume
  <2>1. CASE StopLanView
    BY <1>2, <2>1 DEF StopLanView
  <2>2. CASE StopLanPublish
    <3>1. ~ViewLive' /\ UNCHANGED <<pubTask, media, consumers, screens, opq>>
      BY <2>2 DEF StopLanPublish, ReleaseView, NothingLeft, ViewLive
    <3> QED BY <3>1 DEF NothingLeft, PubLive
  <2>3. ASSUME NEW f \in BOOLEAN, StopLanDrain(f) PROVE NothingLeft'
    <3>1. ~PubLive' /\ ~ViewLive'
      BY <2>3 DEF StopLanDrain, ReleasePub, NothingLeft, PubLive, ViewLive
    <3>2. /\ media' = "Idle" /\ consumers' = {} /\ opq' = <<>>
          /\ screens' = [p \in Paths |-> "none"]
      BY <2>3 DEF StopLanDrain, DrainQueue
    <3> QED BY <3>1, <3>2 DEF NothingLeft
  <2> QED BY <1>1, <1>4, <2>1, <2>2, <2>3 DEF Resume, StopPublishJoined, StopViewJoined
<1>5. CASE HandleOperation
  <2>1. opq # <<>> => Head(opq).type = "SourcesLoaded"
    BY <1>1, TakeShifts DEF NothingLeft
  <2>2. CASE OnSourcesLoaded
    BY <1>2, <2>2 DEF OnSourcesLoaded, Receive
  <2> QED BY <1>5, <2>1, <2>2 DEF HandleOperation, OnPublishEnded, OnViewStarted,
             OnViewStatus, OnViewEnded, OnScreenAnnouncement, OnLan, Receive
<1>6. CASE Task
  <2>1. ASSUME NEW ok \in BOOLEAN, SourcesEnumerated(ok) PROVE NothingLeft'
    <3> DEFINE e == [type |-> "SourcesLoaded", ok |-> ok]
    <3>1. e \in Events /\ e.type = "SourcesLoaded"
      BY DEF Events
    <3>2. Send(e) /\ UNCHANGED <<pubTask, viewTask, media, consumers, screens>>
      BY <2>1 DEF SourcesEnumerated
    <3> HIDE DEF e
    <3>3. \A i \in 1 .. Len(opq') : opq'[i].type = "SourcesLoaded"
      BY <1>1, <3>1, <3>2, SendAdds DEF NothingLeft
    <3> QED BY <3>2, <3>3 DEF NothingLeft, PubLive, ViewLive
  <2>2. ~PubLive /\ ~ViewLive
    BY DEF NothingLeft
  <2> QED BY <1>1, <1>6, <2>1, <2>2 DEF Task, PublishFinishes, PublishReports,
             PublishGivesUpReport, ViewFirstFrame, ViewReportsStarted, ViewReportsStatus,
             ViewFails, ViewReportsEnd, ViewCancelled, TaskPanics, Announce, LanQueues,
             PubLive, ViewLive
<1>7. CASE Lan
  BY <1>7 DEF Lan, LanLaunch, LanReady, PrunePeer, NothingLeft
<1> QED BY <1>3, <1>4, <1>5, <1>6, <1>7 DEF Next

\* The step that takes the LAN down has joined both tasks and emptied the queue.
LEMMA OffIsComplete ==
  ASSUME TypeOK, ReportsMeetTheirPhase, origins, Next, ~origins'
  PROVE  NothingLeft'
<1>1. PICK f \in BOOLEAN : StopLanDrain(f)
  BY DEF Next, Command, StartPublish, StopPublish, StartView, StopView, RefreshSources,
     StopLan, Resume, StopPublishJoined, StopViewJoined, StopLanView, StopLanPublish,
     HandleOperation, OnPublishEnded, OnViewStarted, OnViewStatus, OnViewEnded,
     OnScreenAnnouncement, OnSourcesLoaded, OnLan, Task, PublishFinishes, PublishReports,
     PublishGivesUpReport, ViewFirstFrame, ViewReportsStarted, ViewReportsStatus, ViewFails,
     ViewReportsEnd, ViewCancelled, TaskPanics, SourcesEnumerated, Announce, LanQueues,
     Lan, LanLaunch, LanReady, PrunePeer
<1>2. ~PubLive /\ ~ViewLive
  BY <1>1 DEF StopLanDrain, PubExited, ReportsMeetTheirPhase, TasksMatchPhase, LoopHolds
<1>3. ~PubLive' /\ ~ViewLive'
  BY <1>1, <1>2 DEF StopLanDrain, ReleasePub, PubLive, ViewLive
<1>4. /\ media' = "Idle" /\ consumers' = {} /\ opq' = <<>>
      /\ screens' = [p \in Paths |-> "none"]
  BY <1>1 DEF StopLanDrain, DrainQueue
<1> QED BY <1>3, <1>4 DEF NothingLeft

\* Off is complete for every set of screens and every capacity of the queue: with
\* the LAN gone, no media task, route, row or event of it is left, until the user
\* turns it on again.
THEOREM OffIsClean == Spec => []OffLeavesNothingBehind
<1>0. OffLeavesNothingBehind <=> (~origins => NothingLeft)
  BY DEF OffLeavesNothingBehind, NothingLeft
<1>1. Init => OffLeavesNothingBehind
  BY DEF Init, OffLeavesNothingBehind, PubLive, ViewLive
<1>2. TypeOK /\ ReportsMeetTheirPhase /\ OffLeavesNothingBehind /\ [Next]_vars
        => OffLeavesNothingBehind'
  <2> SUFFICES ASSUME TypeOK, ReportsMeetTheirPhase, ~origins => NothingLeft, [Next]_vars
               PROVE  ~origins' => NothingLeft'
    BY <1>0 DEF OffLeavesNothingBehind, NothingLeft
  <2>1. CASE Next
    BY <2>1, OffIsQuiet, OffIsComplete
  <2>2. CASE UNCHANGED vars
    BY <2>2 DEF vars, NothingLeft, PubLive, ViewLive
  <2> QED BY <2>1, <2>2
<1> QED BY <1>1, <1>2, TypeCorrect, ReportsMeetPhase, PTL DEF Spec

\* ViewIsCurrent looks only at these variables.
LEMMA ViewStays ==
  ASSUME ViewIsCurrent, UNCHANGED <<media, pc, viewGen, viewRun, frame, shown>>,
         ViewLive' => ViewLive
  PROVE  ViewIsCurrent'
BY DEF ViewIsCurrent

\* No step shows what an earlier view left: a view starts from a cleared viewer,
\* its end clears it, and what a playback shows in between is of its own run.
LEMMA ViewStep ==
  ASSUME TypeOK, ReportsMeetTheirPhase, ViewIsCurrent, [Next]_vars
  PROVE  ViewIsCurrent'
<1>1. /\ TasksMatchPhase /\ LoopHolds
      /\ viewGen \in Nat /\ viewRun \in Nat /\ frame \in Nat /\ shown \in Nat
      /\ media \in Phases
  BY DEF ReportsMeetTheirPhase, TypeOK, ViewType, ShowType, SlotType
<1>2. CASE Command
  <2>1. CASE StartPublish
    BY <2>1 DEF StartPublish, CanPublish, ViewIsCurrent, ViewLive, ViewPhases
  <2>2. CASE StopPublish
    BY <2>2 DEF StopPublish, ViewIsCurrent, ViewLive, ViewPhases
  <2>3. ASSUME NEW p \in Paths, StartView(p) PROVE ViewIsCurrent'
    BY <1>1, <2>3 DEF StartView, CanWatch, ViewIsCurrent, ViewLive, ViewPhases
  <2>4. CASE StopView
    BY <2>4 DEF StopView, ViewIsCurrent, ViewPhases
  <2>5. CASE RefreshSources
    BY <2>5, ViewStays DEF RefreshSources, ViewLive
  <2>6. CASE StopLan
    BY <2>6 DEF StopLan, ViewIsCurrent
  <2> QED BY <1>2, <2>1, <2>2, <2>3, <2>4, <2>5, <2>6 DEF Command
<1>3. CASE Resume
  <2>1. CASE StopPublishJoined
    BY <1>1, <2>1 DEF StopPublishJoined, LoopHolds, TasksMatchPhase, ViewIsCurrent, ViewLive,
                      ViewPhases
  <2>2. CASE StopViewJoined
    BY <1>1, <2>2 DEF StopViewJoined, ViewExited, ReleaseView, ClearViewer, LoopHolds,
                      TasksMatchPhase, ViewIsCurrent, ViewLive, ViewPhases
  <2>3. CASE StopLanView
    BY <2>3 DEF StopLanView, ViewIsCurrent
  <2>4. CASE StopLanPublish
    BY <2>4 DEF StopLanPublish, ViewIsCurrent
  <2>5. ASSUME NEW f \in BOOLEAN, StopLanDrain(f) PROVE ViewIsCurrent'
    BY <1>1, <2>5 DEF StopLanDrain, ClearViewer, LoopHolds, ViewIsCurrent, ViewLive, ViewPhases
  <2> QED BY <1>3, <2>1, <2>2, <2>3, <2>4, <2>5 DEF Resume
<1>4. CASE HandleOperation
  <2>1. CASE OnPublishEnded
    <3>1. CurrentPub(Head(opq)) => media = "Publishing"
      BY <2>1, HeadReports DEF OnPublishEnded, Receive, CurrentPub, IsPubEnd
    <3> QED BY <2>1, <3>1 DEF OnPublishEnded, Receive, ViewIsCurrent, ViewLive, ViewPhases
  <2>2. CASE OnViewStarted
    BY <2>2 DEF OnViewStarted, ViewIsCurrent, ViewLive, ViewPhases
  <2>3. CASE OnViewStatus
    BY <1>1, <2>3 DEF OnViewStatus, CurrentView, ViewIsCurrent, ViewLive, ViewPhases
  <2>4. CASE OnViewEnded
    <3>1. CurrentView(Head(opq)) => ~ViewLive /\ media \in {"PreparingView", "Viewing"}
      BY <2>4, HeadReports DEF OnViewEnded, Receive, CurrentView, IsViewEnd
    <3> QED BY <2>4, <3>1 DEF OnViewEnded, Receive, ReleaseView, ClearViewer, ViewIsCurrent,
                              ViewLive, ViewPhases
  <2>5. CASE OnScreenAnnouncement \/ OnSourcesLoaded \/ OnLan
    BY <2>5, ViewStays DEF OnScreenAnnouncement, OnSourcesLoaded, OnLan, ViewLive
  <2> QED BY <1>4, <2>1, <2>2, <2>3, <2>4, <2>5 DEF HandleOperation
<1>5. CASE Task
  \* The frame is of the running playback, which is the current one in the select.
  <2>1. CASE ViewFirstFrame
    <3>1. media \in ViewPhases
      BY <1>1, <2>1 DEF ViewFirstFrame, TasksMatchPhase, ViewLive
    <3> QED BY <1>1, <2>1, <3>1 DEF ViewFirstFrame, ViewIsCurrent, ViewLive
  <2>2. CASE \/ \E r \in Results : PublishFinishes(r)
             \/ PublishReports \/ PublishGivesUpReport
             \/ (\E ok \in BOOLEAN : SourcesEnumerated(ok))
             \/ (\E p \in Paths, a \in BOOLEAN : Announce(p, a)) \/ LanQueues
    BY <2>2, ViewStays DEF PublishFinishes, PublishReports, PublishGivesUpReport,
       SourcesEnumerated, Announce, LanQueues, ViewLive
  <2>3. CASE \/ ViewReportsStarted \/ ViewReportsStatus \/ ViewFails \/ ViewReportsEnd
             \/ ViewCancelled \/ TaskPanics
    BY <2>3, ViewStays DEF ViewReportsStarted, ViewReportsStatus, ViewFails,
       ViewReportsEnd, ViewCancelled, TaskPanics, ViewLive
  <2> QED BY <1>5, <2>1, <2>2, <2>3 DEF Task
<1>6. CASE Lan
  BY <1>6, ViewStays DEF Lan, LanLaunch, LanReady, PrunePeer, ViewLive
<1>7. CASE UNCHANGED vars
  BY <1>7, ViewStays DEF vars, ViewLive
<1> QED BY <1>2, <1>3, <1>4, <1>5, <1>6, <1>7 DEF Next

\* Whenever the loop takes a command or an event, the frame and the status line
\* are those of the view that runs, and empty when none does.
THEOREM ViewerShowsTheCurrentView == Spec => []OnlyTheCurrentViewIsShown
<1>1. Init => ViewIsCurrent
  BY DEF Init, ViewIsCurrent, ViewLive
<1>2. ViewIsCurrent => OnlyTheCurrentViewIsShown
  BY DEF ViewIsCurrent, OnlyTheCurrentViewIsShown, ViewPhases
<1> QED BY <1>1, <1>2, TypeCorrect, ReportsMeetPhase, ViewStep, PTL DEF Spec
=============================================================================
