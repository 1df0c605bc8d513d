---------------------------- MODULE WindowsRuntime ----------------------------
(***************************************************************************)
(* The Windows runtime (windows/src/runtime.rs with the snapshots of       *)
(* media.rs and playback.rs).                                              *)
(*                                                                         *)
(* One loop owns the LAN services, at most one publication task and at     *)
(* most one view task.  Unlike the Linux supervisor, its handlers await:   *)
(* `todo` holds the steps the running handler still has to take, and the   *)
(* loop selects its next input only when that is empty.  The two tasks     *)
(* report through two bounded queues that no handler drains.               *)
(***************************************************************************)
EXTENDS Naturals, Sequences

CONSTANTS
  MediaCap,     \* MEDIA_EVENT_CAPACITY
  ViewCap,      \* VIEW_EVENT_CAPACITY
  MaxServices,  \* bound: starts and stops of the services in a run
  MaxMedia,     \* bound: publications in a run
  MaxViews      \* bound: views in a run

WindowsAssumption ==
  /\ MediaCap \in Nat \ {0} /\ ViewCap \in Nat \ {0}
  /\ MaxServices \in Nat /\ MaxMedia \in Nat /\ MaxViews \in Nat

VARIABLES
  todo,      \* what the running handler still has to do
  running,   \* the loop of run has not returned
  disc,      \* DiscoveryState
  localId,   \* local_id is set
  failure,   \* last_error is set
  lifeGen, lifeActive,           \* ServiceLifecycle
  starting, polled,              \* StartingServices: its generation, 0 for None
  services,                      \* generation of the LanServices, 0 for None
  open,      \* generations whose listener or advertisement exists
  media, mediaGen,               \* MediaSnapshot
  pubGen, pubHandle, pubAbort,   \* PublicationOwner
  pubTask, pubRun,               \* the spawned task, the generation it captured
  view, viewGen,                 \* ViewSnapshot
  ownGen, viewHandle,            \* ViewOwner
  cancel,                        \* its cancel channel says true
  viewTask, viewRun,             \* the spawned run, the generation it captured
  speakers,  \* generations of views whose audio task has not ended
  frame,     \* generation of the frame in the playback channel, 0: None
  mediaQ, viewQ

loopVars  == <<todo, running, failure>>
scanVars  == <<disc, localId>>
lifeVars  == <<lifeGen, lifeActive, starting, polled, services, open>>
mediaVars == <<media, mediaGen>>
pubVars   == <<pubGen, pubHandle, pubAbort, pubTask, pubRun>>
viewVars  == <<view, viewGen>>
ownVars   == <<ownGen, viewHandle, cancel, viewTask, viewRun>>
outVars   == <<speakers, frame>>
vars == <<loopVars, scanVars, lifeVars, mediaVars, pubVars, viewVars, ownVars,
          outVars, mediaQ, viewQ>>

DiscStates  == {"Starting", "Empty", "Stopping", "Stopped", "Failed"}
MediaPhases == {"Idle", "Preparing", "Sharing", "Stopping", "Failed"}
ViewPhases  == {"Idle", "Preparing", "Viewing", "Stopping", "Failed"}
Steps == {"cancelView", "joinView", "abortPub", "joinPub",
          "stopLife", "stopServices", "failServices", "exit"}
Outcomes    == [gen : Nat, ok : BOOLEAN]
ViewEvents  == [type : {"DecoderReady", "AudioChanged", "Ended"}, gen : Nat]

IsActive(d) == d = "Starting" \/ d = "Empty"    \* Ready and Empty are one here
PubLive     == pubTask  \in {"running", "reporting"}
ViewLive    == viewTask \in {"opening", "decoding", "firstFrame", "playing", "reporting"}

StopView  == <<"cancelView", "joinView">>
StopPub   == <<"abortPub", "joinPub">>
StopMedia == StopView \o StopPub

Selecting == running /\ todo = <<>>
AtStep(s) == todo # <<>> /\ Head(todo) = s
NextStep  == todo' = Tail(todo)

-----------------------------------------------------------------------------
(* RuntimeSnapshot.                                                        *)

MediaIdle == media \in {"Idle", "Failed"} /\ view \in {"Idle", "Failed"}

Access == localId /\ disc \notin {"Stopping", "Stopped"} /\ MediaIdle

\* stopped_scan and failed_scan, with clear_lan_state.
ScanEnds(state) ==
  /\ disc' = state /\ localId' = FALSE /\ failure' = (state = "Failed")

Accepts(g) == lifeActive /\ lifeGen = g

-----------------------------------------------------------------------------
(* Services: StartScan, the start that completes, and their failure.       *)

StartScan ==
  /\ Selecting /\ ~lifeActive /\ lifeGen < MaxServices
  /\ lifeGen' = lifeGen + 1 /\ lifeActive' = TRUE
  /\ starting' = lifeGen + 1 /\ polled' = FALSE
  /\ disc' = "Starting" /\ failure' = FALSE
  /\ UNCHANGED <<todo, running, localId, services, open, mediaVars, pubVars, viewVars,
                 ownVars, outVars, mediaQ, viewQ>>

\* The select takes waiting commands first; only then is the start polled.
PollStart ==
  /\ Selecting /\ starting # 0 /\ services = 0 /\ ~polled
  /\ polled' = TRUE /\ open' = open \cup {starting}
  /\ UNCHANGED <<loopVars, scanVars, lifeGen, lifeActive, starting, services, mediaVars,
                 pubVars, viewVars, ownVars, outVars, mediaQ, viewQ>>

StartSucceeds ==
  /\ Selecting /\ polled /\ Accepts(starting)
  /\ services' = starting /\ starting' = 0 /\ polled' = FALSE
  /\ disc' = "Empty" /\ localId' = TRUE /\ failure' = FALSE
  /\ UNCHANGED <<todo, running, lifeGen, lifeActive, open, mediaVars, pubVars, viewVars,
                 ownVars, outVars, mediaQ, viewQ>>

StartFails ==
  /\ Selecting /\ polled /\ Accepts(starting)
  /\ open' = open \ {starting} /\ starting' = 0 /\ polled' = FALSE
  /\ lifeActive' = FALSE /\ ScanEnds("Failed")
  /\ UNCHANGED <<todo, running, lifeGen, services, mediaVars, pubVars, viewVars, ownVars,
                 outVars, mediaQ, viewQ>>

FailureStopsMedia == StopMedia \o <<"failServices">>

\* Discovery, the session listener or the directory ends on its own.
ServiceEnds ==
  /\ Selecting /\ services # 0 /\ Accepts(services)
  /\ todo' = FailureStopsMedia
  /\ UNCHANGED <<running, failure, scanVars, lifeVars, mediaVars, pubVars, viewVars,
                 ownVars, outVars, mediaQ, viewQ>>

FailServices ==
  /\ AtStep("failServices") /\ NextStep
  /\ open' = open \ {services} /\ services' = 0
  /\ lifeActive' = FALSE /\ ScanEnds("Failed")
  /\ UNCHANGED <<running, lifeGen, starting, polled, mediaVars, pubVars, viewVars,
                 ownVars, outVars, mediaQ, viewQ>>

-----------------------------------------------------------------------------
(* StopScan, and the end of the loop.                                      *)

BeginStopScan(steps) ==
  /\ todo' = StopMedia \o <<"stopLife", "stopServices">> \o steps
  /\ UNCHANGED <<running, localId, lifeVars, mediaVars, pubVars, viewVars, ownVars,
                 outVars, mediaQ, viewQ>>

StopScan ==
  /\ Selecting /\ IsActive(disc)
  /\ disc' = "Stopping" /\ failure' = FALSE
  /\ BeginStopScan(<<>>)

Shutdown ==
  /\ Selecting
  /\ disc' = IF IsActive(disc) THEN "Stopping" ELSE disc
  /\ failure' = (failure /\ ~IsActive(disc))
  /\ BeginStopScan(<<"exit">>)

StartForgotten == 0
StartAwaited   == IF polled THEN starting ELSE 0   \* an unpolled start is dropped

StopLife ==
  /\ AtStep("stopLife") /\ NextStep
  /\ lifeGen' = lifeGen + 1 /\ lifeActive' = FALSE
  /\ starting' = StartAwaited /\ polled' = (StartAwaited # 0)
  /\ UNCHANGED <<running, failure, scanVars, services, open, mediaVars, pubVars, viewVars,
                 ownVars, outVars, mediaQ, viewQ>>

\* The start that is under way is awaited and undone, the services are shut
\* down; an error of the media before or of the cleanup now makes it Failed.
StopServices(clean) ==
  /\ AtStep("stopServices") /\ NextStep
  /\ open' = open \ {starting, services}
  /\ starting' = 0 /\ polled' = FALSE /\ services' = 0
  /\ ScanEnds(IF failure \/ ~clean THEN "Failed" ELSE "Stopped")
  /\ UNCHANGED <<running, lifeGen, lifeActive, mediaVars, pubVars, viewVars, ownVars,
                 outVars, mediaQ, viewQ>>

Exit ==
  /\ AtStep("exit") /\ NextStep
  /\ running' = FALSE
  /\ ScanEnds(IF failure THEN "Failed" ELSE "Stopped")
  /\ UNCHANGED <<lifeVars, mediaVars, pubVars, viewVars, ownVars, outVars, mediaQ, viewQ>>

-----------------------------------------------------------------------------
(* Publication.                                                            *)

Unchanged == UNCHANGED <<todo, running, scanVars, lifeVars>>

Refused ==
  /\ failure' = TRUE
  /\ UNCHANGED <<mediaVars, pubVars, viewVars, ownVars, outVars, mediaQ, viewQ>>

\* ShareScreen, to the end of its awaits: refused, nothing to capture,
\* prepared without success, or sharing.
ShareRefused == Selecting /\ ~(services # 0 /\ Access) /\ Refused /\ Unchanged

ShareFinishes(next, gen) ==
  /\ Selecting /\ services # 0 /\ Access
  /\ media' = next /\ mediaGen' = gen
  /\ Unchanged /\ UNCHANGED <<failure, viewVars, ownVars, outVars, mediaQ, viewQ>>

ShareRejected ==
  /\ \/ ShareFinishes("Failed", mediaGen)      \* no source, or none selected
     \/ mediaGen < MaxMedia /\ ShareFinishes("Failed", mediaGen + 1)
  /\ UNCHANGED pubVars

ShareScreen ==
  /\ mediaGen < MaxMedia /\ ShareFinishes("Sharing", mediaGen + 1)
  /\ pubGen' = mediaGen + 1 /\ pubHandle' = TRUE /\ pubAbort' = FALSE
  /\ pubTask' = "running" /\ pubRun' = mediaGen + 1

MediaStops == media \in {"Preparing", "Sharing"}

StopSharing ==
  /\ Selecting /\ MediaStops
  /\ todo' = StopPub
  /\ UNCHANGED <<running, failure, scanVars, lifeVars, mediaVars, pubVars, viewVars,
                 ownVars, outVars, mediaQ, viewQ>>

AbortPub ==
  /\ AtStep("abortPub") /\ NextStep
  /\ media' = IF MediaStops THEN "Stopping" ELSE media
  /\ pubAbort' = pubHandle
  /\ UNCHANGED <<running, failure, scanVars, lifeVars, mediaGen, pubGen, pubHandle,
                 pubTask, pubRun, viewVars, ownVars, outVars, mediaQ, viewQ>>

PubNotAwaited == TRUE
PubExited     == pubHandle => ~PubLive

JoinPub ==
  /\ AtStep("joinPub") /\ NextStep /\ PubExited
  /\ media' = IF media = "Stopping" THEN "Idle" ELSE media
  /\ failure' = (failure \/ (pubHandle /\ pubTask = "panicked"))
  /\ pubHandle' = FALSE /\ pubTask' = IF PubLive THEN pubTask ELSE "none"
  /\ pubAbort' = FALSE
  /\ UNCHANGED <<running, scanVars, lifeVars, mediaGen, pubGen, pubRun, viewVars,
                 ownVars, outVars, mediaQ, viewQ>>

\* The task: capture and encoding end or panic, the end is reported, an abort
\* takes effect at whatever it awaits.
PubMoves(from, to) ==
  /\ pubTask = from /\ pubTask' = to
  /\ UNCHANGED <<loopVars, scanVars, lifeVars, mediaVars, pubGen, pubHandle, pubAbort,
                 pubRun, viewVars, ownVars, outVars, viewQ>>

PubEnds   == PubMoves("running", "reporting") /\ UNCHANGED mediaQ
PubPanics == PubMoves("running", "panicked") /\ UNCHANGED mediaQ

PubReports(ok) ==
  /\ PubMoves("reporting", "done") /\ Len(mediaQ) < MediaCap
  /\ mediaQ' = Append(mediaQ, [gen |-> pubRun, ok |-> ok])

PubAborted ==
  /\ pubAbort
  /\ \E s \in {"running", "reporting"} : PubMoves(s, "done")
  /\ UNCHANGED mediaQ

CurrentPub(e) == e.gen = mediaGen

OnMediaEnded ==
  /\ Selecting /\ mediaQ # <<>> /\ mediaQ' = Tail(mediaQ)
  /\ LET e == Head(mediaQ) IN
       /\ pubHandle' = (pubHandle /\ e.gen # pubGen)
       /\ pubTask' = IF pubHandle /\ e.gen = pubGen THEN "none" ELSE pubTask
       /\ media' = IF CurrentPub(e) /\ MediaStops
                   THEN (IF e.ok THEN "Idle" ELSE "Failed") ELSE media
  /\ Unchanged /\ UNCHANGED <<failure, mediaGen, pubGen, pubAbort, pubRun, viewVars,
                              ownVars, outVars, viewQ>>

-----------------------------------------------------------------------------
(* View.                                                                   *)

WatchRefused == Selecting /\ Refused /\ Unchanged   \* also: no longer offered

WatchScreen ==
  /\ Selecting /\ services # 0 /\ Access /\ viewGen < MaxViews
  /\ view' = "Preparing" /\ viewGen' = viewGen + 1
  /\ ownGen' = viewGen + 1 /\ viewHandle' = TRUE /\ cancel' = FALSE
  /\ viewTask' = "opening" /\ viewRun' = viewGen + 1
  /\ frame' = 0 /\ failure' = FALSE
  /\ Unchanged /\ UNCHANGED <<mediaVars, pubVars, speakers, mediaQ, viewQ>>

ViewStops == view \in {"Preparing", "Viewing"}

StopWatching ==
  /\ Selecting /\ ViewStops
  /\ todo' = StopView
  /\ UNCHANGED <<running, failure, scanVars, lifeVars, mediaVars, pubVars, viewVars,
                 ownVars, outVars, mediaQ, viewQ>>

CancelView ==
  /\ AtStep("cancelView") /\ NextStep
  /\ view' = IF ViewStops THEN "Stopping" ELSE view
  /\ cancel' = viewHandle
  /\ UNCHANGED <<running, failure, scanVars, lifeVars, mediaVars, pubVars, viewGen,
                 ownGen, viewHandle, viewTask, viewRun, outVars, mediaQ, viewQ>>

ViewExited == viewHandle => ~ViewLive

JoinView ==
  /\ AtStep("joinView") /\ NextStep /\ ViewExited
  /\ view' = IF view = "Stopping" THEN "Idle" ELSE view
  /\ failure' = (failure \/ (viewHandle /\ viewTask = "panicked"))
  /\ viewHandle' = FALSE /\ cancel' = FALSE /\ viewTask' = "none"
  /\ frame' = 0
  /\ UNCHANGED <<running, scanVars, lifeVars, mediaVars, pubVars, viewGen, ownGen,
                 viewRun, speakers, mediaQ, viewQ>>

\* The task: open the decoder, publish the first frame and report it, play,
\* open again for a new catalog; cancellation is seen at every await.
ViewMoves(from, to) ==
  /\ viewTask = from /\ viewTask' = to
  /\ UNCHANGED <<loopVars, scanVars, lifeVars, mediaVars, pubVars, viewVars, ownGen,
                 viewHandle, cancel, viewRun, mediaQ>>

Quietly == UNCHANGED <<speakers, frame, viewQ>>

ViewReport(e) ==
  /\ Len(viewQ) < ViewCap /\ viewQ' = Append(viewQ, e)
  /\ UNCHANGED <<speakers, frame>>

ViewOpens ==
  /\ ViewMoves("opening", "decoding")
  /\ speakers' = speakers \cup {viewRun} /\ UNCHANGED <<frame, viewQ>>

ViewShows ==
  /\ ViewMoves("decoding", "firstFrame") \/ ViewMoves("playing", "playing")
  /\ frame' = viewRun /\ UNCHANGED <<speakers, viewQ>>

ViewReady ==
  /\ ViewMoves("firstFrame", "playing")
  /\ ViewReport([type |-> "DecoderReady", gen |-> viewRun])

ViewReopens == ViewMoves("playing", "decoding") /\ Quietly

AtWork      == {"opening", "decoding", "playing"}
ViewEnds    == \E s \in AtWork : ViewMoves(s, "reporting") /\ Quietly
ViewPanics  == \E s \in AtWork : ViewMoves(s, "panicked") /\ Quietly

ViewReports ==
  /\ ViewMoves("reporting", "done")
  /\ ViewReport([type |-> "Ended", gen |-> viewRun])

ReportGivenUp  == TRUE

ViewCancelled ==
  /\ cancel /\ ReportGivenUp
  /\ \E s \in {"opening", "decoding", "firstFrame", "playing", "reporting"} : ViewMoves(s, "done")
  /\ Quietly

\* Audio tasks are aborted when the view drops them and not joined.
SpeakerReports(g) ==
  /\ g \in speakers /\ ViewReport([type |-> "AudioChanged", gen |-> g])
  /\ UNCHANGED <<loopVars, scanVars, lifeVars, mediaVars, pubVars, viewVars, ownVars, mediaQ>>

SpeakerEnds(g) ==
  /\ g \in speakers /\ speakers' = speakers \ {g}
  /\ UNCHANGED <<loopVars, scanVars, lifeVars, mediaVars, pubVars, viewVars, ownVars,
                 frame, mediaQ, viewQ>>

CurrentView(e) == e.gen = viewGen

OnDecoderReady(e) ==
  /\ e.type \in {"DecoderReady", "AudioChanged"}
  /\ view' = IF e.type = "DecoderReady" /\ CurrentView(e) /\ ViewStops
             THEN "Viewing" ELSE view
  /\ UNCHANGED <<ownVars, frame>>

OnViewEnded(e, ok) ==
  /\ e.type = "Ended"
  /\ IF CurrentView(e) /\ ViewStops
     THEN /\ view' = IF ok THEN "Idle" ELSE "Failed"
          /\ viewHandle' = (viewHandle /\ e.gen # ownGen)
          /\ cancel' = (cancel /\ e.gen # ownGen)
          /\ viewTask' = IF e.gen = ownGen THEN "none" ELSE viewTask
          /\ frame' = 0 /\ UNCHANGED <<ownGen, viewRun>>
     ELSE UNCHANGED <<view, ownVars, frame>>

HandleView ==
  /\ Selecting /\ viewQ # <<>> /\ viewQ' = Tail(viewQ)
  /\ \/ OnDecoderReady(Head(viewQ))
     \/ \E ok \in BOOLEAN : OnViewEnded(Head(viewQ), ok)
  /\ Unchanged /\ UNCHANGED <<failure, mediaVars, pubVars, viewGen, speakers, mediaQ>>

-----------------------------------------------------------------------------
Init ==
  /\ todo = <<>> /\ running = TRUE /\ failure = FALSE
  /\ disc = "Starting" /\ localId = FALSE
  /\ lifeGen = 1 /\ lifeActive = TRUE /\ starting = 1 /\ polled = FALSE
  /\ services = 0 /\ open = {}
  /\ media = "Idle" /\ mediaGen = 0
  /\ pubGen = 0 /\ pubHandle = FALSE /\ pubAbort = FALSE /\ pubTask = "none" /\ pubRun = 0
  /\ view = "Idle" /\ viewGen = 0
  /\ ownGen = 0 /\ viewHandle = FALSE /\ cancel = FALSE /\ viewTask = "none" /\ viewRun = 0
  /\ speakers = {} /\ frame = 0 /\ mediaQ = <<>> /\ viewQ = <<>>

Command == \/ StartScan \/ StopScan \/ Shutdown \/ ShareRefused \/ ShareRejected
           \/ ShareScreen \/ StopSharing \/ WatchRefused \/ WatchScreen \/ StopWatching

Handler == \/ CancelView \/ JoinView \/ AbortPub \/ JoinPub \/ StopLife
           \/ FailServices \/ Exit \/ \E clean \in BOOLEAN : StopServices(clean)

Services == PollStart \/ StartSucceeds \/ StartFails \/ ServiceEnds

Publisher == PubEnds \/ PubPanics \/ PubAborted \/ \E ok \in BOOLEAN : PubReports(ok)

Viewer == \/ ViewOpens \/ ViewShows \/ ViewReady \/ ViewReopens \/ ViewEnds \/ ViewPanics
          \/ ViewReports \/ ViewCancelled

Speaker == \E g \in speakers : SpeakerReports(g) \/ SpeakerEnds(g)

Next == \/ Command \/ Handler \/ Services \/ Publisher \/ Viewer \/ Speaker
        \/ OnMediaEnded \/ HandleView

\* tokio goes on with the running handler, with an aborted and a cancelled
\* task, and hands queued events to the loop.
Fairness ==
  /\ WF_vars(Handler) /\ WF_vars(PubAborted) /\ WF_vars(ViewCancelled)
  /\ WF_vars(OnMediaEnded) /\ WF_vars(HandleView)

Spec == Init /\ [][Next]_vars /\ Fairness

-----------------------------------------------------------------------------
(* Properties.                                                             *)

\* The parts of the type invariant.
LoopFlags ==
  /\ running \in BOOLEAN /\ failure \in BOOLEAN /\ localId \in BOOLEAN
  /\ lifeActive \in BOOLEAN /\ polled \in BOOLEAN

TaskFlags ==
  /\ pubHandle \in BOOLEAN /\ pubAbort \in BOOLEAN
  /\ viewHandle \in BOOLEAN /\ cancel \in BOOLEAN

Phases ==
  /\ disc \in DiscStates /\ media \in MediaPhases /\ view \in ViewPhases
  /\ pubTask \in {"none", "running", "reporting", "done", "panicked"}
  /\ viewTask \in {"none", "opening", "decoding", "firstFrame", "playing", "reporting",
                   "done", "panicked"}

LanGenerations  == lifeGen \in Nat /\ starting \in Nat /\ services \in Nat
PubGenerations  == mediaGen \in Nat /\ pubGen \in Nat /\ pubRun \in Nat
ViewGenerations == viewGen \in Nat /\ ownGen \in Nat /\ viewRun \in Nat /\ frame \in Nat
Openings        == open \subseteq Nat /\ speakers \subseteq Nat

Queues ==
  /\ todo \in Seq(Steps)
  /\ mediaQ \in Seq(Outcomes) /\ Len(mediaQ) <= MediaCap
  /\ viewQ \in Seq(ViewEvents) /\ Len(viewQ) <= ViewCap

\* Every variable has its type, in these parts, and the two queues are bounded.
TypeOK ==
  /\ LoopFlags /\ TaskFlags /\ Phases
  /\ LanGenerations /\ PubGenerations /\ ViewGenerations /\ Openings
  /\ Queues

\* A task that runs has its owner and the phase that shows it, only one of the
\* two activities runs, and both only on services that are up: whatever the
\* order of commands, reports, panics and failing services.
TasksAreShown ==
  /\ PubLive  => pubHandle /\ pubRun = mediaGen /\ media \in {"Sharing", "Stopping"}
  /\ ViewLive => /\ viewHandle /\ viewRun = viewGen
                 /\ view \in {"Preparing", "Viewing", "Stopping"}
  /\ ~(PubLive /\ ViewLive)
  /\ PubLive \/ ViewLive => services # 0 /\ localId

\* The player never shows a frame of a view that is over.
FrameIsCurrent == frame # 0 => frame = viewGen /\ view \in {"Preparing", "Viewing", "Stopping"}

WindowsOwners == TypeOK /\ TasksAreShown /\ FrameIsCurrent

\* Listeners and advertisements belong to the services or to the start under
\* way; after a stop, and after the loop, nothing is open or running: a stop
\* during a start neither loses the start nor lets it come up later.
NothingLeftOpen ==
  /\ open \subseteq {services, starting}
  /\ services = 0 \/ starting = 0
  /\ ~lifeActive /\ todo = <<>> => services = 0 /\ starting = 0
  /\ disc = "Stopped" \/ ~running =>
       /\ open = {} /\ services = 0 /\ starting = 0
       /\ ~PubLive /\ ~ViewLive /\ frame = 0

\* The media of the runtime is one lease (MediaLease).
Lease == INSTANCE MediaLease WITH
  holder  <- IF media \in {"Sharing", "Stopping"} THEN "publication"
             ELSE IF view \in {"Preparing", "Viewing", "Stopping"} THEN "playback"
             ELSE "nobody",
  working <- PubLive \/ ViewLive,
  closing <- media = "Stopping" \/ view = "Stopping"

ImplementsLease == Lease!Spec
=============================================================================
