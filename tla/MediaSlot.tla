------------------------------ MODULE MediaSlot ------------------------------
(***************************************************************************)
(* The screen media slot of the Linux desktop runtime                      *)
(* (linux/src/runtime/supervisor.rs and the media half of                  *)
(* linux/src/app/snapshot.rs).                                             *)
(*                                                                         *)
(* One supervisor loop owns at most one local publication or one remote    *)
(* playback.  Each is a task of its own that reports back through one      *)
(* bounded operation queue, which the supervisor does not drain while a    *)
(* stop waits for that very task.  The directory of remote screens (what   *)
(* the user may watch) and the map of live routes behind it are fed by a   *)
(* third producer of the same queue.                                       *)
(*                                                                         *)
(* The LAN half of the supervisor appears as its effects on this half:     *)
(* it grants and revokes readiness, prunes rows, and fills the queue.      *)
(***************************************************************************)
EXTENDS Naturals, Sequences

CONSTANTS
  Paths,      \* screen paths of the other peers
  NoPath,     \* no path
  QueueCap,   \* EVENT_CAPACITY of the operation queue
  MaxGen      \* bound: generations a run may reach

ASSUME SlotAssumption ==
  /\ NoPath \notin Paths
  /\ QueueCap \in Nat \ {0}
  /\ MaxGen \in Nat

VARIABLES
  pc,         \* where the supervisor is: in its select, or joining in a handler
  ready,      \* local_peer_id is set and discovery is not Idle
  lanStopping,
  origins,    \* the LAN origins, and with them the announcement task, exist
  offError,   \* the last Off ended in DiscoveryState::Error
  cleanup,    \* failures of the running Off collected so far
  media,      \* MediaState without its path
  mediaPath,  \* the path inside the three view states
  pubGen, pubHandle, pubCancel,     \* PublishResources
  pubTask, pubRun,                  \* the spawned publication, the generation it captured
  viewGen, viewHandle, viewCancel,  \* ViewResources
  viewTask, viewRun,                \* the spawned run_view, the generation it captured
  shown,      \* view generation behind remote_audio and remote_video, 0: default
  frame,      \* view generation of the frame in playback_tx, 0: None
  screens,    \* AppSnapshot::remote_screens
  consumers,  \* Supervisor::remote_screens, the routes behind it
  sources,    \* SourceCatalog
  refresh,    \* source_refresh is Some
  opq         \* the operation queue

loopVars == <<pc, ready, lanStopping, origins, offError, cleanup>>
slotVars == <<media, mediaPath>>
pubVars  == <<pubGen, pubHandle, pubCancel, pubTask, pubRun>>
viewVars == <<viewGen, viewHandle, viewCancel, viewTask, viewRun>>
showVars == <<shown, frame>>
dirVars  == <<screens, consumers>>
srcVars  == <<sources, refresh>>
vars == <<loopVars, slotVars, pubVars, viewVars, showVars, dirVars, srcVars, opq>>

Phases      == {"Idle", "Publishing", "StoppingPublish",
                "PreparingView", "Viewing", "StoppingView"}
ViewPhases  == {"PreparingView", "Viewing", "StoppingView"}
PubStates   == {"none", "running", "reportOk", "reportSource", "reportOther",
                "done", "failed"}
ViewStates  == {"none", "opening", "firstFrame", "playing", "ending",
                "done", "failed"}
Availability == {"none", "Available", "Withdrawn"}
Results     == {"ok", "source", "other"}

\* A task that still runs; a finished one only waits to be joined.
PubLive  == pubTask  \in {"running", "reportOk", "reportSource", "reportOther"}
ViewLive == viewTask \in {"opening", "firstFrame", "playing", "ending"}

Events ==
       [type : {"PublishEnded"}, gen : Nat, result : Results]
  \cup [type : {"ViewStarted", "ViewStatus"}, gen : Nat, path : Paths \cup {NoPath}]
  \cup [type : {"ViewEnded"}, gen : Nat]
  \cup [type : {"ScreenAnnouncement"}, path : Paths, active : BOOLEAN]
  \cup [type : {"SourcesLoaded"}, ok : BOOLEAN]
  \cup [type : {"Lan"}]

Room    == Len(opq) < QueueCap
Send(e) == opq' = Append(opq, e)

\* What the handlers share.  A definition with a defective variant, which the
\* mutation runs put in its place, comes right after that variant.
PubNotAwaited == TRUE
PubExited     == pubHandle => ~PubLive    \* the join of the publication returns
ViewExited    == viewHandle => ~ViewLive  \* the join of the playback returns

\* Taking a handle forgets a finished task; a running one would run on.
ReleasePub  == pubHandle' = FALSE /\ pubTask' = IF PubLive THEN pubTask ELSE "none"
ReleaseView == viewHandle' = FALSE /\ viewTask' = IF ViewLive THEN viewTask ELSE "none"

AnyPub(e)      == TRUE
CurrentPub(e)  == e.gen = pubGen
StaleView(e)   == e.gen < viewGen
CurrentView(e) == e.gen = viewGen

ClearStatusOnly == shown' = 0 /\ UNCHANGED frame
ClearViewer     == shown' = 0 /\ frame' = 0

KeepQueue  == UNCHANGED opq
DrainQueue == opq' = <<>>

JoinFailed(task) == task = "failed"

RoutesKept(p, active)  == consumers \cup {p}
RoutesAfter(p, active) == IF active THEN consumers \cup {p} ELSE consumers \ {p}

-----------------------------------------------------------------------------
(* Admission (AppSnapshot::access, can_watch).                             *)

Access       == ready /\ ~lanStopping
CanPublishWhileBusy == Access
CanPublish   == Access /\ media = "Idle"
CanWatch(p)  == Access /\ media = "Idle" /\ screens[p] = "Available"

(* User commands.  The loop takes one only in its select.  A rejected      *)
(* command changes nothing but the error line, so it is a stuttering step. *)

StartPublish ==
  /\ pc = "select" /\ CanPublish /\ pubGen < MaxGen
  /\ pubGen' = pubGen + 1
  /\ pubHandle' = TRUE /\ pubCancel' = FALSE
  /\ pubTask' = "running" /\ pubRun' = pubGen + 1
  /\ media' = "Publishing"
  /\ pc' = IF origins THEN "select" ELSE "panicked"
  /\ UNCHANGED <<ready, lanStopping, origins, offError, cleanup, mediaPath, viewVars, showVars, dirVars, srcVars, opq>>

\* stop_publish up to the await on the publication task.
StopPublish ==
  /\ pc = "select" /\ media = "Publishing" /\ pubGen < MaxGen
  /\ media' = "StoppingPublish"
  /\ pubGen' = pubGen + 1 /\ pubCancel' = TRUE
  /\ pc' = "stopPublish"
  /\ UNCHANGED <<ready, lanStopping, origins, offError, cleanup, mediaPath,
                 pubHandle, pubTask, pubRun, viewVars, showVars, dirVars, srcVars, opq>>

\* ... and from the join to the end of the handler.
StopPublishJoined ==
  /\ pc = "stopPublish" /\ PubExited
  /\ ReleasePub
  /\ media' = IF media = "StoppingPublish" THEN "Idle" ELSE media
  /\ pc' = IF media = "StoppingPublish" THEN "select" ELSE "panicked"
  /\ UNCHANGED <<ready, lanStopping, origins, offError, cleanup, mediaPath,
                 pubGen, pubCancel, pubRun, viewVars, showVars, dirVars, srcVars, opq>>

\* Without a route the view would be rejected, which DirectoryHasRoutes rules out.
StartView(p) ==
  /\ pc = "select" /\ CanWatch(p) /\ viewGen < MaxGen
  /\ p \in consumers
  /\ viewGen' = viewGen + 1
  /\ viewHandle' = TRUE /\ viewCancel' = FALSE
  /\ viewTask' = "opening" /\ viewRun' = viewGen + 1
  /\ media' = "PreparingView" /\ mediaPath' = p
  /\ shown' = viewGen + 1
  /\ UNCHANGED <<loopVars, pubVars, frame, dirVars, srcVars, opq>>

StopView ==
  /\ pc = "select" /\ media \in {"PreparingView", "Viewing"} /\ viewGen < MaxGen
  /\ media' = "StoppingView"
  /\ viewGen' = viewGen + 1 /\ viewCancel' = TRUE
  /\ pc' = "stopView"
  /\ UNCHANGED <<ready, lanStopping, origins, offError, cleanup, mediaPath,
                 viewHandle, viewTask, viewRun, pubVars, showVars, dirVars, srcVars, opq>>

StopViewJoined ==
  /\ pc = "stopView" /\ ViewExited
  /\ ReleaseView
  /\ ClearViewer
  /\ media' = IF media = "StoppingView" THEN "Idle" ELSE media
  /\ mediaPath' = NoPath
  /\ pc' = IF media = "StoppingView" THEN "select" ELSE "panicked"
  /\ UNCHANGED <<ready, lanStopping, origins, offError, cleanup, viewGen, viewCancel,
                 viewRun, pubVars, dirVars, srcVars, opq>>

RefreshSources ==
  /\ pc = "select" /\ ~refresh /\ media = "Idle"
  /\ sources' = "Loading" /\ refresh' = TRUE
  /\ UNCHANGED <<loopVars, slotVars, pubVars, viewVars, showVars, dirVars, opq>>

-----------------------------------------------------------------------------
(* StopDiscovery and Shutdown: stop_lan, cut at the awaits during which    *)
(* the media tasks can run.                                                *)

\* Up to the joins of the discovery tasks and services.
StopLan ==
  /\ pc = "select" /\ pubGen < MaxGen /\ viewGen < MaxGen
  /\ lanStopping' = TRUE /\ ready' = FALSE
  /\ pc' = "offServices"
  /\ UNCHANGED <<origins, offError, cleanup, slotVars, pubVars, viewVars, showVars,
                 dirVars, srcVars, opq>>

\* ViewResources::stop up to its await.
StopLanView ==
  /\ pc = "offServices"
  /\ viewGen' = viewGen + 1
  /\ viewCancel' = TRUE
  /\ pc' = "offView"
  /\ UNCHANGED <<ready, lanStopping, origins, offError, cleanup, slotVars, pubVars,
                 viewHandle, viewTask, viewRun, showVars, dirVars, srcVars, opq>>

\* The view is joined; PublishResources::stop up to its await.
StopLanPublish ==
  /\ pc = "offView" /\ ViewExited
  /\ cleanup' = (cleanup \/ JoinFailed(viewTask))
  /\ ReleaseView
  /\ pubGen' = pubGen + 1
  /\ pubCancel' = TRUE
  /\ pc' = "offPublish"
  /\ UNCHANGED <<ready, lanStopping, origins, offError, slotVars, viewGen, viewCancel,
                 viewRun, pubHandle, pubTask, pubRun, showVars, dirVars, srcVars, opq>>

\* The publication is joined; sessions and announcements are joined next, so
\* every producer but the source enumeration is gone when the queue is drained.
StopLanDrain(lanFailed) ==
  /\ pc = "offPublish" /\ PubExited
  /\ ReleasePub
  /\ DrainQueue
  /\ IF \E i \in 1 .. Len(opq) : opq[i].type = "SourcesLoaded"
     THEN \E i \in 1 .. Len(opq) :
            /\ opq[i].type = "SourcesLoaded"
            /\ sources' = IF opq[i].ok THEN "Ready" ELSE "Failed"
            /\ refresh' = FALSE
     ELSE UNCHANGED srcVars
  /\ consumers' = {} /\ screens' = [p \in Paths |-> "none"]
  /\ origins' = FALSE /\ lanStopping' = FALSE
  /\ ClearViewer
  /\ media' = "Idle" /\ mediaPath' = NoPath
  /\ offError' = (cleanup \/ lanFailed \/ JoinFailed(pubTask))
  /\ cleanup' = FALSE
  /\ pc' = "select"
  /\ UNCHANGED <<ready, pubGen, pubCancel, pubRun, viewVars>>

-----------------------------------------------------------------------------
(* Events of the operation queue (handle_operation_event).                 *)

Receive(type) ==
  /\ pc = "select" /\ opq # <<>> /\ Head(opq).type = type
  /\ opq' = Tail(opq)

\* A rejected source also invalidates the catalogue it came from.
OnPublishEnded ==
  /\ Receive("PublishEnded")
  /\ IF ~CurrentPub(Head(opq))
     THEN UNCHANGED <<pc, pubHandle, pubTask, media, sources>>
     ELSE /\ ReleasePub
          /\ media' = IF media = "Publishing" THEN "Idle" ELSE media
          /\ pc' = IF media = "Publishing" THEN "select" ELSE "panicked"
          /\ sources' = IF Head(opq).result = "source" THEN "Failed" ELSE sources
  /\ UNCHANGED <<ready, lanStopping, origins, offError, cleanup, mediaPath, pubGen,
                 pubCancel, pubRun, viewVars, showVars, dirVars, refresh>>

OnViewStarted ==
  /\ Receive("ViewStarted")
  /\ media' = IF /\ CurrentView(Head(opq))
                 /\ media = "PreparingView" /\ mediaPath = Head(opq).path
              THEN "Viewing" ELSE media
  /\ UNCHANGED <<loopVars, mediaPath, pubVars, viewVars, showVars, dirVars, srcVars>>

\* ViewAudioChanged and ViewVideoChanged: the status line of the viewer.
OnViewStatus ==
  /\ Receive("ViewStatus")
  /\ shown' = IF /\ CurrentView(Head(opq))
                 /\ media \in {"PreparingView", "Viewing"}
                 /\ mediaPath = Head(opq).path
              THEN Head(opq).gen ELSE shown
  /\ UNCHANGED <<loopVars, slotVars, pubVars, viewVars, frame, dirVars, srcVars>>

\* fail_view accepts both phases, end_view only Viewing.  playback::run returns Ok
\* only when cancelled, which is not reported: what ends here is a failure.
OnViewEnded ==
  /\ Receive("ViewEnded")
  /\ IF ~CurrentView(Head(opq))
     THEN UNCHANGED <<pc, viewHandle, viewTask, slotVars, showVars>>
     ELSE /\ ReleaseView
          /\ ClearViewer
          /\ IF media \in {"PreparingView", "Viewing"}
             THEN media' = "Idle" /\ mediaPath' = NoPath /\ UNCHANGED pc
             ELSE pc' = "panicked" /\ UNCHANGED slotVars
  /\ UNCHANGED <<ready, lanStopping, origins, offError, cleanup, pubVars, viewGen,
                 viewCancel, viewRun, dirVars, srcVars>>

\* A withdrawn screen stays listed only while its peer row stays visible.
OnScreenAnnouncement ==
  /\ Receive("ScreenAnnouncement")
  /\ LET p == Head(opq).path IN
     /\ consumers' = RoutesAfter(p, Head(opq).active)
     /\ \E a \in IF Head(opq).active THEN {"Available"} ELSE {"Withdrawn", "none"} :
          screens' = [screens EXCEPT ![p] = a]
  /\ UNCHANGED <<loopVars, slotVars, pubVars, viewVars, showVars, srcVars>>

OnSourcesLoaded ==
  /\ Receive("SourcesLoaded")
  /\ refresh' = FALSE
  /\ sources' = IF Head(opq).ok THEN "Ready" ELSE "Failed"
  /\ UNCHANGED <<loopVars, slotVars, pubVars, viewVars, showVars, dirVars>>

\* Any event of the LAN half, for its place in the queue.
OnLan ==
  /\ Receive("Lan")
  /\ UNCHANGED <<loopVars, slotVars, pubVars, viewVars, showVars, dirVars, srcVars>>

HandleOperation ==
  \/ OnPublishEnded \/ OnViewStarted \/ OnViewStatus \/ OnViewEnded
  \/ OnScreenAnnouncement \/ OnSourcesLoaded \/ OnLan

-----------------------------------------------------------------------------
(* The publication task: run, then PublishCompletion::report.              *)

JoinedUnmapped(result) == result
Joined(result) == IF result = "ok" THEN "done" ELSE "failed"
Reporting      == [ok |-> "reportOk", source |-> "reportSource", other |-> "reportOther"]
ReportResult   == [reportOk |-> "ok", reportSource |-> "source", reportOther |-> "other"]

\* Capture ended or failed, or cancellation was seen; a cancelled task reports
\* nothing, for its stop is joining it and drains nothing.
PublishFinishes(result) ==
  /\ pubTask = "running"
  /\ pubTask' = IF pubCancel THEN Joined(result) ELSE Reporting[result]
  /\ UNCHANGED <<loopVars, slotVars, pubGen, pubHandle, pubCancel, pubRun, viewVars,
                 showVars, dirVars, srcVars, opq>>

PublishReports ==
  /\ pubTask \in DOMAIN ReportResult /\ ~pubCancel /\ Room
  /\ Send([type |-> "PublishEnded", gen |-> pubRun, result |-> ReportResult[pubTask]])
  /\ pubTask' = Joined(ReportResult[pubTask])
  /\ UNCHANGED <<loopVars, slotVars, pubGen, pubHandle, pubCancel, pubRun, viewVars,
                 showVars, dirVars, srcVars>>

\* Blocked on the full queue when the stop arrives.
PublishGivesUpReport ==
  /\ pubTask \in DOMAIN ReportResult /\ pubCancel
  /\ pubTask' = Joined(ReportResult[pubTask])
  /\ UNCHANGED <<loopVars, slotVars, pubGen, pubHandle, pubCancel, pubRun, viewVars,
                 showVars, dirVars, srcVars, opq>>

(* The playback task (run_view around playback::run).                      *)

\* The first frame is shown before its owner is told that playback started.
ViewFirstFrame ==
  /\ viewTask = "opening"
  /\ frame' = viewRun
  /\ viewTask' = "firstFrame"
  /\ UNCHANGED <<loopVars, slotVars, pubVars, viewGen, viewHandle, viewCancel, viewRun,
                 shown, dirVars, srcVars, opq>>

\* The select of each report is unbiased, so one that a stop overtakes may still
\* get out; it carries the generation that the stop left behind.
ViewReportsStarted ==
  /\ viewTask = "firstFrame" /\ Room
  /\ Send([type |-> "ViewStarted", gen |-> viewRun, path |-> mediaPath])
  /\ viewTask' = "playing"
  /\ UNCHANGED <<loopVars, slotVars, pubVars, viewGen, viewHandle, viewCancel, viewRun,
                 showVars, dirVars, srcVars>>

ViewReportsStatus ==
  /\ viewTask \in {"opening", "playing"} /\ Room
  /\ Send([type |-> "ViewStatus", gen |-> viewRun, path |-> mediaPath])
  /\ UNCHANGED <<loopVars, slotVars, pubVars, viewVars, showVars, dirVars, srcVars>>

ViewFails ==
  /\ viewTask \in {"opening", "playing"} /\ ~viewCancel
  /\ viewTask' = "ending"
  /\ UNCHANGED <<loopVars, slotVars, pubVars, viewGen, viewHandle, viewCancel, viewRun,
                 showVars, dirVars, srcVars, opq>>

ViewReportsEnd ==
  /\ viewTask = "ending" /\ Room
  /\ Send([type |-> "ViewEnded", gen |-> viewRun])
  /\ viewTask' = "done"
  /\ UNCHANGED <<loopVars, slotVars, pubVars, viewGen, viewHandle, viewCancel, viewRun,
                 showVars, dirVars, srcVars>>

\* Cancellation ends playback at every wait, a blocked send included.
ViewCancelled ==
  /\ ViewLive /\ viewCancel
  /\ viewTask' = "done"
  /\ UNCHANGED <<loopVars, slotVars, pubVars, viewGen, viewHandle, viewCancel, viewRun,
                 showVars, dirVars, srcVars, opq>>

\* A panic ends either task without a report; only a join sees it.
TaskPanics ==
  /\ \/ /\ pubTask = "running" /\ pubTask' = "failed" /\ UNCHANGED viewTask
     \/ /\ viewTask \in {"opening", "playing"} /\ viewTask' = "failed" /\ UNCHANGED pubTask
  /\ UNCHANGED <<loopVars, slotVars, pubGen, pubHandle, pubCancel, pubRun, viewGen,
                 viewHandle, viewCancel, viewRun, showVars, dirVars, srcVars, opq>>

(* The other producers of the queue.                                       *)

SourcesEnumerated(ok) ==
  /\ refresh /\ Room /\ \A i \in 1 .. Len(opq) : opq[i].type # "SourcesLoaded"
  /\ Send([type |-> "SourcesLoaded", ok |-> ok])
  /\ UNCHANGED <<loopVars, slotVars, pubVars, viewVars, showVars, dirVars, srcVars>>

\* watch_announcements: a route appears (Start, Update) or ends.
Announce(p, active) ==
  /\ origins /\ Room
  /\ Send([type |-> "ScreenAnnouncement", path |-> p, active |-> active])
  /\ UNCHANGED <<loopVars, slotVars, pubVars, viewVars, showVars, dirVars, srcVars>>

\* Sessions, retries and services of the LAN half share the queue.
LanQueues ==
  /\ origins /\ Room
  /\ Send([type |-> "Lan"])
  /\ UNCHANGED <<loopVars, slotVars, pubVars, viewVars, showVars, dirVars, srcVars>>

(* What the LAN half does to this half while the loop runs its handlers.   *)

\* Start, retry and recovery revoke admission before services relaunch.
LanLaunch ==
  /\ pc = "select"
  /\ origins' = TRUE /\ ready' = FALSE /\ offError' = FALSE
  /\ UNCHANGED <<pc, lanStopping, cleanup, slotVars, pubVars, viewVars, showVars,
                 dirVars, srcVars, opq>>

LanReady ==
  /\ pc = "select" /\ origins /\ ready' = TRUE
  /\ UNCHANGED <<pc, lanStopping, origins, offError, cleanup, slotVars, pubVars,
                 viewVars, showVars, dirVars, srcVars, opq>>

\* A pruned peer row takes its withdrawn screen along.
PrunePeer(p) ==
  /\ pc = "select" /\ screens[p] = "Withdrawn"
  /\ screens' = [screens EXCEPT ![p] = "none"]
  /\ UNCHANGED <<loopVars, slotVars, pubVars, viewVars, showVars, consumers, srcVars, opq>>

-----------------------------------------------------------------------------
Init ==
  /\ pc = "select" /\ ready = FALSE /\ lanStopping = FALSE /\ origins = FALSE
  /\ offError = FALSE /\ cleanup = FALSE
  /\ media = "Idle" /\ mediaPath = NoPath
  /\ pubGen = 0 /\ pubHandle = FALSE /\ pubCancel = FALSE
  /\ pubTask = "none" /\ pubRun = 0
  /\ viewGen = 0 /\ viewHandle = FALSE /\ viewCancel = FALSE
  /\ viewTask = "none" /\ viewRun = 0
  /\ shown = 0 /\ frame = 0
  /\ screens = [p \in Paths |-> "none"] /\ consumers = {}
  /\ sources = "Unloaded" /\ refresh = FALSE
  /\ opq = <<>>

Command ==
  \/ StartPublish \/ StopPublish \/ (\E p \in Paths : StartView(p)) \/ StopView
  \/ RefreshSources \/ StopLan

\* The rest of a handler that awaits.
Resume ==
  \/ StopPublishJoined \/ StopViewJoined
  \/ StopLanView \/ StopLanPublish \/ (\E f \in BOOLEAN : StopLanDrain(f))

Task ==
  \/ (\E r \in Results : PublishFinishes(r)) \/ PublishReports \/ PublishGivesUpReport
  \/ ViewFirstFrame \/ ViewReportsStarted \/ ViewReportsStatus \/ ViewFails
  \/ ViewReportsEnd \/ ViewCancelled \/ TaskPanics
  \/ (\E ok \in BOOLEAN : SourcesEnumerated(ok))
  \/ (\E p \in Paths, a \in BOOLEAN : Announce(p, a)) \/ LanQueues

Lan == LanLaunch \/ LanReady \/ (\E p \in Paths : PrunePeer(p))

Next == Command \/ Resume \/ HandleOperation \/ Task \/ Lan

\* The loop runs and every task is polled.  tokio serves blocked senders in
\* arrival order, so a report that is repeatedly possible is made (SF).
\* Nobody owes the user a command, a failure or an announcement.
Fairness ==
  /\ WF_vars(Resume) /\ WF_vars(HandleOperation)
  /\ WF_vars(pubCancel /\ \E r \in Results : PublishFinishes(r))
  /\ WF_vars(PublishGivesUpReport) /\ WF_vars(ViewCancelled)
  /\ SF_vars(PublishReports) /\ SF_vars(ViewReportsEnd)

Spec == Init /\ [][Next]_vars /\ Fairness

-----------------------------------------------------------------------------
(* Properties.                                                             *)

LoopType ==
  /\ pc \in {"select", "stopPublish", "stopView", "offServices", "offView",
             "offPublish", "panicked"}
  /\ ready \in BOOLEAN /\ lanStopping \in BOOLEAN /\ origins \in BOOLEAN
  /\ offError \in BOOLEAN /\ cleanup \in BOOLEAN
SlotType == media \in Phases /\ mediaPath \in Paths \cup {NoPath}
PubType ==
  /\ pubGen \in Nat /\ pubHandle \in BOOLEAN /\ pubCancel \in BOOLEAN
  /\ pubTask \in PubStates /\ pubRun \in Nat
ViewType ==
  /\ viewGen \in Nat /\ viewHandle \in BOOLEAN /\ viewCancel \in BOOLEAN
  /\ viewTask \in ViewStates /\ viewRun \in Nat
ShowType == shown \in Nat /\ frame \in Nat
DirType  == screens \in [Paths -> Availability] /\ consumers \in SUBSET Paths
SrcType  == sources \in {"Unloaded", "Loading", "Ready", "Failed"} /\ refresh \in BOOLEAN

\* Every variable keeps its type.
TypeOK ==
  /\ LoopType /\ SlotType /\ PubType /\ ViewType /\ ShowType /\ DirType /\ SrcType
  /\ opq \in Seq(Events)

\* The slot is exclusive: publication and playback never run at once, and a
\* running task always shows in MediaState, so Idle means that its resources
\* are gone ("Publishing and viewing share this single state").
SlotOwnsTheOnlyTask ==
  /\ ~(PubLive /\ ViewLive)
  /\ PubLive  => media \in {"Publishing", "StoppingPublish"}
  /\ ViewLive => media \in ViewPhases

\* None of the expects of the handlers can fire: a completion that passes its
\* generation guard always finds the media state of its own task.
NoHandlerPanics == pc # "panicked"

\* The directory the user sees and the routes playback opens never disagree,
\* so a screen that can be watched has a live route behind it.
DirectoryHasRoutes == consumers = {p \in Paths : screens[p] = "Available"}

\* Neither the frame nor the status line of an earlier view is shown: not
\* under a later view, not under a publication, not when nothing plays.
OnlyTheCurrentViewIsShown ==
  pc = "select" =>
    IF media \in {"PreparingView", "Viewing"}
    THEN frame \in {0, viewGen} /\ shown \in {0, viewGen}
    ELSE frame = 0 /\ shown = 0

\* Off is complete: no media task, route, directory row or event of the LAN
\* that was left survives into the next one; only a source enumeration may.
OffLeavesNothingBehind ==
  ~origins =>
    /\ ~PubLive /\ ~ViewLive /\ media = "Idle"
    /\ consumers = {} /\ \A p \in Paths : screens[p] = "none"
    /\ \A i \in 1 .. Len(opq) : opq[i].type = "SourcesLoaded"

\* The slot is a lease: it passes from one activity to the next only through
\* Idle, it is released only once the work under it has ended, and a closing
\* lease is released without further help.
Holder == CASE media = "Idle" -> "nobody"
            [] media \in {"Publishing", "StoppingPublish"} -> "publication"
            [] OTHER -> "playback"
Closing == \/ media \in {"StoppingPublish", "StoppingView"}
           \/ media # "Idle" /\ pc \in {"offServices", "offView", "offPublish"}
Lease == INSTANCE MediaLease WITH holder <- Holder, working <- PubLive \/ ViewLive,
                                  closing <- Closing
ImplementsLease == Lease!Spec

\* A share or a view that ends on its own frees the slot without the user.
EndedActivityFreesTheSlot ==
  (pubTask \in DOMAIN ReportResult \/ viewTask = "ending") ~> media = "Idle"

-----------------------------------------------------------------------------
(* Why the slot is exclusive and the expects hold: the inductive invariant. *)

\* A live task has its handle in the resources and its phase in the slot, and
\* one that was not cancelled may still report under that phase.
TasksMatchPhase ==
  /\ PubLive  => pubHandle /\ media \in {"Publishing", "StoppingPublish"}
  /\ PubLive /\ ~pubCancel => media = "Publishing"
  /\ ViewLive => viewHandle /\ media \in ViewPhases
  /\ ViewLive /\ ~viewCancel => media \in {"PreparingView", "Viewing"}

\* What a suspended handler may rely on when it resumes.
LoopHolds ==
  /\ pc = "stopPublish" => media = "StoppingPublish"
  /\ pc = "stopView" => media = "StoppingView"
  /\ pc = "offPublish" => ~ViewLive
  /\ pc \in {"offServices", "offView", "offPublish"} => ~ready
  /\ ready => origins
  /\ pc # "panicked"

IsPubEnd(e)  == e.type = "PublishEnded" /\ e.gen = pubGen
IsViewEnd(e) == e.type = "ViewEnded" /\ e.gen = viewGen

\* No report is ahead of its resources.  One that passes the guard is the only
\* one, its task is over, and the slot still holds the phase of that task.
PubReportHolds ==
  /\ pubRun <= pubGen
  /\ \A i \in 1 .. Len(opq) :
       /\ opq[i].type = "PublishEnded" => opq[i].gen <= pubGen
       /\ IsPubEnd(opq[i]) =>
            /\ ~PubLive /\ media = "Publishing"
            /\ \A j \in 1 .. Len(opq) : IsPubEnd(opq[j]) => j = i
ViewReportHolds ==
  /\ viewRun <= viewGen
  /\ ViewLive /\ viewCancel => viewRun < viewGen
  /\ \A i \in 1 .. Len(opq) :
       /\ opq[i].type = "ViewEnded" => opq[i].gen <= viewGen
       /\ IsViewEnd(opq[i]) =>
            /\ ~ViewLive /\ media \in {"PreparingView", "Viewing"}
            /\ \A j \in 1 .. Len(opq) : IsViewEnd(opq[j]) => j = i

\* A report, the task that sent it and the phase it ends always agree: the
\* strengthening from which SlotOwnsTheOnlyTask and NoHandlerPanics follow.
ReportsMeetTheirPhase ==
  TasksMatchPhase /\ LoopHolds /\ PubReportHolds /\ ViewReportHolds

\* Why only the current view is shown: outside a view nothing is shown, a stop of
\* the view holds the loop until it is over, and while the loop runs a live
\* playback is the current one, as is whatever it shows.
ViewIsCurrent ==
  /\ media \notin ViewPhases => frame = 0 /\ shown = 0
  /\ media = "StoppingView" => pc = "stopView"
  /\ pc = "select" /\ ViewLive => viewRun = viewGen
  /\ pc = "select" /\ media \in {"PreparingView", "Viewing"} =>
       frame \in {0, viewGen} /\ shown \in {0, viewGen}
=============================================================================
