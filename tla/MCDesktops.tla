------------------------------ MODULE MCDesktops ------------------------------
(***************************************************************************)
(* What the user sees: the window of the Windows and of the macOS app, and *)
(* the Windows tray companion, in the build that runs; the variables of    *)
(* the others stay as they start.                                          *)
(***************************************************************************)
EXTENDS Integers, Sequences, FiniteSets

VARIABLES
  build,
  winPub, winBusy, winQueue, winEngine, winFrame, winFailures, winStep, winSnap, winPage, winDialog,
  winPending, error, tab, texture, winActive, winVolume, winFull, winAsked, winLost,
  macPub, macBusy, macQueue, macEngine, macFrame, captured, macFailures, macStep, macSnap, macPage,
  macDialog, macPending, presenter, kind, picking, allowed, picker, macVolume, macActive, macFull,
  macAsked, macLost,
  now, browser, registry, latest, stops, bridge, backlog, ids, rateLimit, drawn, told, granted, answer,
  requests, tray, posted, clicks, shown

Usable == {[valid |-> TRUE, addresses |-> {1}]}
TwoRecords == {[valid |-> TRUE, addresses |-> {0, 1, 2}], [valid |-> FALSE, addresses |-> {1}]}
TwoDefects == {{}, {"origin", "grant"}}

Windows == INSTANCE WindowsDesktop WITH
  Inputs <- {"scan", "watch", "full"}, Capacity <- 1, Percents <- {100}, MaxGen <- 1, MaxPictures <-
  1, MaxFailures <- 1, pub <- winPub, busy <- winBusy, queue <- winQueue, engine <- winEngine, frame
  <- winFrame, failures <- winFailures, step <- winStep, snap <- winSnap, page <- winPage, dialog <-
  winDialog, pending <- winPending, active <- winActive, volume <- winVolume, full <- winFull, asked
  <- winAsked, lost <- winLost

WindowsVolume == INSTANCE WindowsDesktop WITH
  Inputs <- {"watch", "volume"}, Capacity <- 1, Percents <- {100}, MaxGen <- 2, MaxPictures <- 2,
  MaxFailures <- 0, pub <- winPub, busy <- winBusy, queue <- winQueue, engine <- winEngine, frame <-
  winFrame, failures <- winFailures, step <- winStep, snap <- winSnap, page <- winPage, dialog <-
  winDialog, pending <- winPending, active <- winActive, volume <- winVolume, full <- winFull, asked
  <- winAsked, lost <- winLost

WindowsShare == INSTANCE WindowsDesktop WITH
  Inputs <- {"share", "source"}, Capacity <- 1, Percents <- {100}, MaxGen <- 0, MaxPictures <- 1,
  MaxFailures <- 0, pub <- winPub, busy <- winBusy, queue <- winQueue, engine <- winEngine, frame <-
  winFrame, failures <- winFailures, step <- winStep, snap <- winSnap, page <- winPage, dialog <-
  winDialog, pending <- winPending, active <- winActive, volume <- winVolume, full <- winFull, asked
  <- winAsked, lost <- winLost

Mac == INSTANCE MacDesktop WITH
  Inputs <- {"net", "watch", "full", "button"}, Capacity <- 1, Sources <- {"main"}, Percents <-
  {100}, MaxGen <- 2, MaxEra <- 1, MaxPictures <- 1, MaxFailures <- 1, pub <- macPub, busy <-
  macBusy, queue <- macQueue, engine <- macEngine, frame <- macFrame, failures <- macFailures, step
  <- macStep, snap <- macSnap, page <- macPage, dialog <- macDialog, pending <- macPending, volume
  <- macVolume, active <- macActive, full <- macFull, asked <- macAsked, lost <- macLost

MacShare == INSTANCE MacDesktop WITH
  Inputs <- {"pick", "share"}, Capacity <- 1, Sources <- {"main", "window"}, Percents <- {50},
  MaxGen <- 1, MaxEra <- 1, MaxPictures <- 1, MaxFailures <- 0, pub <- macPub, busy <- macBusy,
  queue <- macQueue, engine <- macEngine, frame <- macFrame, failures <- macFailures, step <-
  macStep, snap <- macSnap, page <- macPage, dialog <- macDialog, pending <- macPending, volume <-
  macVolume, active <- macActive, full <- macFull, asked <- macAsked, lost <- macLost

MacVolume == INSTANCE MacDesktop WITH
  Inputs <- {"watch", "volume"}, Capacity <- 1, Sources <- {"main"}, Percents <- {50}, MaxGen <- 3,
  MaxEra <- 1, MaxPictures <- 2, MaxFailures <- 0, pub <- macPub, busy <- macBusy, queue <-
  macQueue, engine <- macEngine, frame <- macFrame, failures <- macFailures, step <- macStep, snap
  <- macSnap, page <- macPage, dialog <- macDialog, pending <- macPending, volume <- macVolume,
  active <- macActive, full <- macFull, asked <- macAsked, lost <- macLost

Tray == INSTANCE TrayCompanion WITH
  Devices <- {"d1"}, Records <- Usable, MaxDevices <- 1, MaxEndpoints <- 1, Lease <- 1, Window <- 1,
  Burst <- 1, Backlog <- 1, Defects <- {{}}, MaxNow <- 0, MaxRevision <- 2, MaxRequests <- 1

TrayTwo == INSTANCE TrayCompanion WITH
  Devices <- {"d1", "d2"}, Records <- TwoRecords, MaxDevices <- 1, MaxEndpoints <- 1, Lease <- 1,
  Window <- 1, Burst <- 1, Backlog <- 1, Defects <- TwoDefects, MaxNow <- 1, MaxRevision <- 3,
  MaxRequests <- 2

TrayLimit == INSTANCE TrayCompanion WITH
  Devices <- {"d1"}, Records <- Usable, MaxDevices <- 1, MaxEndpoints <- 1, Lease <- 1, Window <- 1,
  Burst <- 1, Backlog <- 1, Defects <- {{}}, MaxNow <- 1, MaxRevision <- 1, MaxRequests <- 2

TrayIds == INSTANCE TrayCompanion WITH
  Devices <- {"d1", "d2"}, Records <- Usable, MaxDevices <- 1, MaxEndpoints <- 1, Lease <- 1,
  Window <- 1, Burst <- 4, Backlog <- 1, Defects <- {{}}, MaxNow <- 0, MaxRevision <- 4,
  MaxRequests <- 4

ASSUME Windows!WindowsDesktopAssumption /\ WindowsVolume!WindowsDesktopAssumption /\ WindowsShare!WindowsDesktopAssumption
ASSUME Mac!MacDesktopAssumption /\ MacShare!MacDesktopAssumption /\ MacVolume!MacDesktopAssumption
ASSUME Tray!TrayAssumption /\ TrayTwo!TrayAssumption /\ TrayLimit!TrayAssumption /\ TrayIds!TrayAssumption

winVars == <<winPub, winBusy, winQueue, winEngine, winFrame, winFailures, winStep, winSnap, winPage,
             winDialog, winPending, error, tab, texture, winActive, winVolume, winFull, winAsked,
             winLost>>
macVars == <<macPub, macBusy, macQueue, macEngine, macFrame, captured, macFailures, macStep,
             macSnap, macPage, macDialog, macPending, presenter, kind, picking, allowed, picker,
             macVolume, macActive, macFull, macAsked, macLost>>
trayVars == <<now, browser, registry, latest, stops, bridge, backlog, ids, drawn, rateLimit, told, granted,
              answer, requests, tray, posted, clicks, shown>>

TrayBuilds == {"tray", "tray, two devices", "tray, two requests", "tray, ids"}

Init ==
  /\ build \in {"windows", "windows, volume", "windows, sharing", "mac", "mac, sharing", "mac, volume"} \union TrayBuilds
  /\ Windows!Init /\ Mac!Init /\ Tray!Init
  /\ tray.at = "stop" => build \in TrayBuilds

Next ==
  \/ build = "windows" /\ Windows!Next /\ UNCHANGED <<build, macVars, trayVars>>
  \/ build = "windows, volume" /\ WindowsVolume!Next /\ UNCHANGED <<build, macVars, trayVars>>
  \/ build = "windows, sharing" /\ WindowsShare!Next /\ UNCHANGED <<build, macVars, trayVars>>
  \/ build = "mac" /\ Mac!Next /\ UNCHANGED <<build, winVars, trayVars>>
  \/ build = "mac, sharing" /\ MacShare!Next /\ UNCHANGED <<build, winVars, trayVars>>
  \/ build = "mac, volume" /\ MacVolume!Next /\ UNCHANGED <<build, winVars, trayVars>>
  \/ build = "tray" /\ Tray!Next /\ UNCHANGED <<build, winVars, macVars>>
  \/ build = "tray, two devices" /\ TrayTwo!Next /\ UNCHANGED <<build, winVars, macVars, tray, clicks>>
  \/ build = "tray, two requests" /\ TrayLimit!Next /\ UNCHANGED <<build, winVars, macVars>>
  \/ build = "tray, ids" /\ TrayIds!Next /\ UNCHANGED <<build, winVars, macVars, tray, clicks>>

WinRuns == build = "windows"
MacRuns == build = "mac"
TrayRuns == build = "tray"

\* The fairness of each module, where it is the one that runs.
Fairness ==
  /\ WF_winVars(WinRuns /\ Windows!Frame)
  /\ WF_winVars(WinRuns /\ Windows!ApplyViewport)
  /\ WF_winVars(WinRuns /\ Windows!Command)
  /\ WF_winVars(WinRuns /\ Windows!Finish)
  /\ WF_macVars(MacRuns /\ Mac!Frame)
  /\ WF_macVars(MacRuns /\ Mac!ApplyViewport)
  /\ WF_macVars(MacRuns /\ Mac!PickerAnswers)
  /\ WF_macVars(MacRuns /\ Mac!Command)
  /\ WF_macVars(MacRuns /\ Mac!Finish)
  /\ SF_macVars(MacRuns /\ Mac!ToldRunEnds)
  /\ WF_trayVars(TrayRuns /\ Tray!Discovers)
  /\ WF_trayVars(TrayRuns /\ Tray!Bridges)
  /\ WF_trayVars(TrayRuns /\ Tray!Trays)

Spec == Init /\ [][Next]_<<build, winVars, macVars, trayVars>> /\ Fairness

(***************************************************************************)
(* Properties                                                              *)
(***************************************************************************)
\* Although snapshots, pictures, answers of the picker and commands travel on
\* channels of their own, a picture on screen is of the view that is shown and
\* never goes back, the volume that is shown is the one the playback gets
\* unless the queue refused it, and a share captures the source and the audio
\* that are shown for it: ShowsTheCurrentView and MacShowsWhatItDoes.
ShowsWhatItDoes == Windows!ShowsTheCurrentView /\ Mac!MacShowsWhatItDoes

\* The page of the tray companion learns what the registry holds; an id names
\* one device for ever, stays with it and describes it, whatever leaves and comes
\* between requests; and the rate limit counts a sliding window: PageSees and
\* PageIsServed of TrayCompanion.
PageSeesTheDirectory ==
  /\ [](IF build = "tray, ids" THEN TrayIds!PageSees ELSE Tray!PageSees)
  /\ [][Tray!PageIsServed]_trayVars

Waiting ==
  \/ WinRuns /\ (winPending \/ (winFull /\ winSnap.view # "viewing"))
  \/ MacRuns /\ macFull /\ ~Mac!Watching(macSnap)
  \/ TrayRuns /\ tray.at # "down" /\ (tray.at \in {"stop", "join"} \/ shown # latest.revision)

StopsAsked(queued) == \E i \in DOMAIN queued : queued[i].op = "stop_watch"
Ending ==
  \/ WinRuns /\ winPub.gen = 1 /\ StopsAsked(winQueue)
  \/ MacRuns /\ ((presenter.gen = 1 /\ presenter.failed) \/ (macPub.gen = 1 /\ StopsAsked(macQueue)))
Ended ==
  \/ WinRuns /\ (winPub.gen # 1 \/ ~Windows!Live(winPub))
  \/ MacRuns /\ (macPub.gen # 1 \/ ~Mac!Watching(macPub))

\* What the user asks for takes effect: a pending turn-off ends, the window
\* leaves full screen when there is no view to show, the tray shows the latest
\* snapshot, and quits although the bridge serves.  And the view of generation
\* 1, the only one of the builds with fairness, ends once a stop was asked of
\* it or its picture could not be presented, although the queue is full: not
\* merely the request, which is gone when it is read.
DesktopsSettle == (Waiting ~> ~Waiting) /\ (Ending ~> Ended)
===============================================================================
