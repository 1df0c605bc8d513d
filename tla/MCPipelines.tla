----------------------------- MODULE MCPipelines -----------------------------
(***************************************************************************)
(* What a thread that may not wait feeds through a bounded queue: captured *)
(* sound on its way into a publication, on Linux and Windows, and lines on *)
(* their way into the log, with the files of a log below them.  What does  *)
(* not fit is dropped and must be seen as dropped, and each must end when  *)
(* it is told to.  `build` is the one that runs; the variables of the      *)
(* others stay as they start.                                              *)
(***************************************************************************)
EXTENDS Integers, Sequences, FiniteSets

VARIABLES
  build,
  linDesktop, linCatalog, linTask, cancelled, linAudio, video, portal, linThread, started, startup,
  quit, now, chunks, nextSequence, closed, notify, previous, encoded,
  desktop, catalog, wanted, media, shownAudio, step, task, result, status, audio, normalizer, gap,
  needsAnchor, reportedSilent, restarting, thread, format, stop, queue, droppedPacket, made,
  failures, epoch,
  mode, detailed, lines, recorder, holder, ring, numbered, contended, logQueue, pending, dropped,
  detailDropped, accepted, worker, written, diagFailure, reader, exporter, exports, guard,
  logNow, active, rotated, running, file, activeBytes, activeStarted, failure, total

Display(id, size) == [kind |-> "display", id |-> id, size |-> size]
OneDisplay == {Display(1, "small")}
Unequal == {Display(1, "small"), [kind |-> "window", id |-> 2, size |-> "qhd"]}
OneMix == {[tag |-> "float", bits |-> 32, valid |-> 32, channels |-> 2, rate |-> 48000, align |-> 8]}
Reduced == {[tag |-> "pcm", bits |-> 24, valid |-> 20, channels |-> 1, rate |-> 48000, align |-> 3]}

Linux == INSTANCE LinuxPublication WITH
  Displays <- {"left"}, Capacity <- 1, Tolerance <- 1, MaxChunks <- 2, MaxNow <- 0, MaxPlugs <- 1,
  desktop <- linDesktop, catalog <- linCatalog, task <- linTask, audio <- linAudio, thread <-
  linThread

LinuxLong == INSTANCE LinuxPublication WITH
  Displays <- {"left"}, Capacity <- 1, Tolerance <- 1, MaxChunks <- 3, MaxNow <- 3, MaxPlugs <- 0,
  desktop <- linDesktop, catalog <- linCatalog, task <- linTask, audio <- linAudio, thread <-
  linThread

Windows == INSTANCE WindowsPublication WITH
  Sources <- OneDisplay, Mixes <- OneMix, Capacity <- 1, MaxGen <- 1, MaxPackets <- 2, MaxPlugs <-
  1, MaxFailures <- 1

WindowsAgain == INSTANCE WindowsPublication WITH
  Sources <- Unequal, Mixes <- Reduced, Capacity <- 1, MaxGen <- 2, MaxPackets <- 1, MaxPlugs <- 0,
  MaxFailures <- 1

WindowsPlugged == INSTANCE WindowsPublication WITH
  Sources <- Unequal, Mixes <- Reduced, Capacity <- 1, MaxGen <- 2, MaxPackets <- 1, MaxPlugs <- 1,
  MaxFailures <- 0

WindowsLong == INSTANCE WindowsPublication WITH
  Sources <- OneDisplay, Mixes <- Reduced, Capacity <- 1, MaxGen <- 1, MaxPackets <- 3, MaxPlugs <-
  0, MaxFailures <- 0

Records == INSTANCE Diagnostics WITH
  Threads <- {"t1"}, MaxLines <- 2, MaxExports <- 1, PrivateOnly <- TRUE, QueueCap <- 2, RingCap <-
  1, thread <- recorder, queue <- logQueue, failure <- diagFailure

RecordsTwo == INSTANCE Diagnostics WITH
  Threads <- {"t1", "t2"}, MaxLines <- 2, MaxExports <- 1, PrivateOnly <- FALSE, QueueCap <- 2,
  RingCap <- 1, thread <- recorder, queue <- logQueue, failure <- diagFailure

Files == INSTANCE LogFiles WITH
  MaxBytes <- 2, History <- 1, MaxAge <- {3}, Day <- 2, MaxLines <- 5, MaxNow <- 4,
  now <- logNow

FilesMany == INSTANCE LogFiles WITH
  MaxBytes <- 1, History <- 2, MaxAge <- {3}, Day <- 2, MaxLines <- 4, MaxNow <- 3,
  now <- logNow

ASSUME Linux!PublicationAssumption /\ LinuxLong!PublicationAssumption
ASSUME Windows!WindowsPublicationAssumption /\ WindowsAgain!WindowsPublicationAssumption
       /\ WindowsPlugged!WindowsPublicationAssumption /\ WindowsLong!WindowsPublicationAssumption
ASSUME Records!DiagnosticsAssumption /\ RecordsTwo!DiagnosticsAssumption
ASSUME Files!LogFilesAssumption /\ FilesMany!LogFilesAssumption

linVars == <<linDesktop, linCatalog, linTask, cancelled, linAudio, video, portal, linThread,
             started, startup, quit, now, chunks, nextSequence, closed, notify, previous, encoded>>
winVars == <<desktop, catalog, wanted, media, shownAudio, step, task, result, status, audio,
             normalizer, gap, needsAnchor, reportedSilent, restarting, thread, format, stop, queue,
             droppedPacket, made, failures, epoch>>
diagVars == <<mode, detailed, lines, recorder, holder, ring, numbered, contended, logQueue, pending,
              dropped, detailDropped, accepted, worker, written, diagFailure, reader, exporter,
              exports, guard>>
logVars == <<logNow, active, rotated, running, file, activeBytes, activeStarted, failure, total>>

Publications == {"linux", "linux, long", "windows", "windows, again", "windows, plugged",
                 "windows, long"}

Init ==
  /\ build \in Publications \union {"records", "records, two threads", "files", "many files"}
  /\ Linux!Init
  /\ (IF build \in {"windows, again", "windows, plugged"} THEN WindowsAgain!Init ELSE Windows!Init)
  /\ (IF build = "records, two threads" THEN RecordsTwo!Init ELSE Records!Init) /\ Files!Init
  /\ linDesktop.kind # "none" => build \in {"linux", "linux, long"}
  /\ build \notin {"records", "records, two threads"} => mode = "disabled" /\ ~detailed
  /\ build = "records, two threads" => mode = "files" /\ detailed

\* A publication ends; a program records until it has ended itself.
Over == build \in Publications /\ UNCHANGED <<build, linVars, winVars, diagVars, logVars>>

Next ==
  \/ build = "linux" /\ Linux!Next /\ UNCHANGED <<build, winVars, diagVars, logVars>>
  \/ build = "linux, long" /\ LinuxLong!Next /\ UNCHANGED <<build, winVars, diagVars, logVars>>
  \/ build = "windows" /\ Windows!Next /\ UNCHANGED <<build, linVars, diagVars, logVars>>
  \/ build = "windows, again" /\ WindowsAgain!Next /\ UNCHANGED <<build, linVars, diagVars, logVars>>
  \/ build = "windows, plugged" /\ WindowsPlugged!Next /\ UNCHANGED <<build, linVars, diagVars, logVars>>
  \/ build = "windows, long" /\ WindowsLong!Next /\ UNCHANGED <<build, linVars, diagVars, logVars>>
  \/ build = "records" /\ Records!Next /\ UNCHANGED <<build, linVars, winVars, logVars>>
  \/ /\ build = "records, two threads" /\ RecordsTwo!Next
     /\ UNCHANGED <<build, linVars, winVars, logVars, detailed>>
  \/ build = "files" /\ Files!Next /\ UNCHANGED <<build, linVars, winVars, diagVars>>
  \/ build = "many files" /\ FilesMany!Next /\ UNCHANGED <<build, linVars, winVars, diagVars>>
  \/ Over

LinuxRuns == build = "linux"
WinRuns == build = "windows"
RecordsRun == build = "records"

\* The fairness of each module, where it is the one that runs.
Fairness ==
  /\ WF_linVars(LinuxRuns /\ Linux!Runs)
  /\ WF_linVars(LinuxRuns /\ Linux!AudioRuns)
  /\ WF_linVars(LinuxRuns /\ Linux!FinishCapture)
  /\ WF_linVars(LinuxRuns /\ (quit /\ Linux!LoopEnds))
  /\ WF_winVars(WinRuns /\ Windows!Handler)
  /\ SF_winVars(WinRuns /\ Windows!OnAudio)
  /\ SF_winVars(WinRuns /\ Windows!OnEnded)
  /\ WF_winVars(WinRuns /\ Windows!Audio)
  /\ WF_winVars(WinRuns /\ Windows!Task)
  /\ WF_winVars(WinRuns /\ Windows!Thread)
  /\ \A t \in {"t1"} : WF_diagVars(RecordsRun /\ Records!Records(t))
  /\ WF_diagVars(RecordsRun /\ Records!Writes)
  /\ WF_diagVars(RecordsRun /\ Records!Snapshots)
  /\ WF_diagVars(RecordsRun /\ Records!Losses)
  /\ WF_diagVars(RecordsRun /\ Records!Request)
  /\ WF_diagVars(RecordsRun /\ Records!Joins)

Spec == Init /\ [][Next]_<<build, linVars, winVars, diagVars, logVars>> /\ Fairness

(***************************************************************************)
(* Properties                                                              *)
(***************************************************************************)
\* What is published is whole and is what the user asked for, and nothing of it
\* outlives its task: PublicationIsWhole and PublicationIsTrue.
PublicationIsTrue == Linux!PublicationIsWhole /\ Windows!PublicationIsTrue

Pending ==
  \/ LinuxRuns /\ linTask.at # "ended" /\ (cancelled \/ linThread = "gone")
  \/ /\ WinRuns
     /\ \/ step = "stopping" \/ audio = "restart" \/ status.unread
        \/ thread = "gone" /\ audio = "receive"

\* Every line is in a file, on its way or counted as dropped, and a snapshot is
\* one moment, whatever threads record, export and shut down at once.
RecordsAreAccounted ==
  IF build = "records, two threads" THEN RecordsTwo!RecordsAreAccounted
  ELSE Records!RecordsAreAccounted

\* An open log is the latest lines that were written, whatever is rotated,
\* removed, failed half-way or restarted in between.
KeptLinesAreTheLatest ==
  IF build = "many files" THEN FilesMany!KeptLinesAreTheLatest ELSE Files!KeptLinesAreTheLatest

Blocking == RecordsRun /\ (~Records!Exporting("idle") \/ guard \notin {"held", "gone"})
Unsettled == Pending \/ Blocking

\* A publication that is cancelled, or whose sound capture is over, ends; a
\* stop ends although it waits for a task that may wait for the audio thread;
\* a capture that stopped is started again, reported as failed, or ends with
\* the publication; and the state it reports is shown.  An export of the log
\* is answered and its guard is dropped, though each may wait for room that
\* recording threads take, and a shutdown may overtake the export.
PipelinesSettle == Unsettled ~> ~Unsettled
===============================================================================
