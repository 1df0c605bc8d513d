------------------------------ MODULE MCPlayback ------------------------------
(***************************************************************************)
(* The playback of one screen, in the build that runs: the variables of    *)
(* the others stay as they start.  The publisher offers tracks once with   *)
(* two frames decoded, or changes or withdraws them after the first frame. *)
(***************************************************************************)
EXTENDS Integers, Sequences, FiniteSets

VARIABLES
  build,
  linPc, linCancelled, linCatalogs, linSelection, linDecoder, sequence, linStarted, linFrame,
  linReader, linReading, linDecoded, linVideoUpdates, linQueue, linFallback, linUsingAudio,
  linDeadline, linLease, linChanged, linAudio, linAudioUpdates, linEvents, linShown,
  winPc, winCancelled, winCatalogs, winSelection, syncAllowed, initialAudio, winDecoder, ready,
  lastRead, winFrame, winReader, winReading, winDecoded, winVideoUpdates, winQueue, winLastShown,
  winDeadline, clock, winChanged, winAudio, winEvents, winShown,
  pc, cancelled, failure, catalogs, selection, decoder, decoderName, reported, started, frame,
  reader, reading, decoded, videoUpdates, queue, fallback, usingAudio, lastShown, deadline, lease,
  changed, audio, audioUpdates, events, shown

TwoTracks == {[video |-> {[name |-> "a", config |-> 1]}, audio |-> {[name |-> "s", config |-> 1]}],
              [video |-> {[name |-> "a", config |-> 2]}, audio |-> {}]}
WinSelections == {[video |-> "a", audio |-> "s"], [video |-> "a", audio |-> "unsupported"],
                  [video |-> "none", audio |-> "s"]}
MacSelections == {[video |-> "a", audio |-> "s"], [video |-> "none", audio |-> "unsupported"]}

Linux == INSTANCE LinuxPlayback WITH
  Catalogs <- TwoTracks, MaxCatalogs <- 1, MaxFrames <- 2, MaxWrites <- 1, Top <- 1, VideoFrames <-
  1, EventCap <- 1, pc <- linPc, cancelled <- linCancelled, catalogs <- linCatalogs, selection <-
  linSelection, decoder <- linDecoder, started <- linStarted, frame <- linFrame, reader <-
  linReader, reading <- linReading, decoded <- linDecoded, videoUpdates <- linVideoUpdates, queue <-
  linQueue, fallback <- linFallback, usingAudio <- linUsingAudio, deadline <- linDeadline, lease <-
  linLease, changed <- linChanged, audio <- linAudio, audioUpdates <- linAudioUpdates, events <-
  linEvents, shown <- linShown

LinuxSwitch == INSTANCE LinuxPlayback WITH
  Catalogs <- TwoTracks, MaxCatalogs <- 2, MaxFrames <- 1, MaxWrites <- 1, Top <- 1, VideoFrames <-
  1, EventCap <- 1, pc <- linPc, cancelled <- linCancelled, catalogs <- linCatalogs, selection <-
  linSelection, decoder <- linDecoder, started <- linStarted, frame <- linFrame, reader <-
  linReader, reading <- linReading, decoded <- linDecoded, videoUpdates <- linVideoUpdates, queue <-
  linQueue, fallback <- linFallback, usingAudio <- linUsingAudio, deadline <- linDeadline, lease <-
  linLease, changed <- linChanged, audio <- linAudio, audioUpdates <- linAudioUpdates, events <-
  linEvents, shown <- linShown

Windows == INSTANCE WindowsPlayback WITH
  Catalogs <- WinSelections, MaxCatalogs <- 1, MaxFrames <- 2, Top <- 2, VideoFrames <- 2, Residence
  <- 2, LateLimit <- 1, ClockAge <- 2, EventCap <- 1, pc <- winPc, cancelled <- winCancelled,
  catalogs <- winCatalogs, selection <- winSelection, decoder <- winDecoder, frame <- winFrame,
  reader <- winReader, reading <- winReading, decoded <- winDecoded, videoUpdates <-
  winVideoUpdates, queue <- winQueue, lastShown <- winLastShown, deadline <- winDeadline, changed <-
  winChanged, audio <- winAudio, events <- winEvents, shown <- winShown

WindowsSwitch == INSTANCE WindowsPlayback WITH
  Catalogs <- WinSelections, MaxCatalogs <- 2, MaxFrames <- 1, Top <- 1, VideoFrames <- 2, Residence
  <- 2, LateLimit <- 1, ClockAge <- 2, EventCap <- 1, pc <- winPc, cancelled <- winCancelled,
  catalogs <- winCatalogs, selection <- winSelection, decoder <- winDecoder, frame <- winFrame,
  reader <- winReader, reading <- winReading, decoded <- winDecoded, videoUpdates <-
  winVideoUpdates, queue <- winQueue, lastShown <- winLastShown, deadline <- winDeadline, changed <-
  winChanged, audio <- winAudio, events <- winEvents, shown <- winShown

Mac == INSTANCE MacPlayback WITH
  Selections <- MacSelections, MaxCatalogs <- 1, MaxFrames <- 2, MaxWrites <- 1, Top <- 1,
  VideoFrames <- 1, Ceiling <- 1, EventCap <- 1

MacSwitch == INSTANCE MacPlayback WITH
  Selections <- MacSelections, MaxCatalogs <- 2, MaxFrames <- 1, MaxWrites <- 1, Top <- 1,
  VideoFrames <- 1, Ceiling <- 1, EventCap <- 1

ASSUME Linux!LinuxPlaybackAssumption /\ LinuxSwitch!LinuxPlaybackAssumption
ASSUME Windows!WindowsPlaybackAssumption /\ WindowsSwitch!WindowsPlaybackAssumption
ASSUME Mac!MacPlaybackAssumption /\ MacSwitch!MacPlaybackAssumption

linVars == <<linPc, linCancelled, linCatalogs, linSelection, linDecoder, sequence, linStarted,
             linFrame, linReader, linReading, linDecoded, linVideoUpdates, linQueue, linFallback,
             linUsingAudio, linDeadline, linLease, linChanged, linAudio, linAudioUpdates, linEvents,
             linShown>>
winVars == <<winPc, winCancelled, winCatalogs, winSelection, syncAllowed, initialAudio, winDecoder,
             ready, lastRead, winFrame, winReader, winReading, winDecoded, winVideoUpdates,
             winQueue, winLastShown, winDeadline, clock, winChanged, winAudio, winEvents, winShown>>
macVars == <<pc, cancelled, failure, catalogs, selection, decoder, decoderName, reported, started,
             frame, reader, reading, decoded, videoUpdates, queue, fallback, usingAudio, lastShown,
             deadline, lease, changed, audio, audioUpdates, events, shown>>

Init ==
  /\ build \in {"linux", "linux, switching", "windows", "windows, switching", "mac", "mac, switching"}
  /\ Linux!Init /\ Windows!Init /\ Mac!Init

Next ==
  \/ build = "linux" /\ Linux!Next /\ UNCHANGED <<build, winVars, macVars>>
  \/ build = "linux, switching" /\ LinuxSwitch!Next /\ UNCHANGED <<build, winVars, macVars>>
  \/ build = "windows" /\ Windows!Next /\ UNCHANGED <<build, linVars, macVars>>
  \/ build = "windows, switching" /\ WindowsSwitch!Next /\ UNCHANGED <<build, linVars, macVars>>
  \/ build = "mac" /\ Mac!Next /\ UNCHANGED <<build, linVars, winVars>>
  \/ build = "mac, switching" /\ MacSwitch!Next /\ UNCHANGED <<build, linVars, winVars>>

LinuxRuns == build = "linux"
WinRuns == build = "windows"
MacRuns == build = "mac"

\* The fairness of each module, where it is the one that runs.
Fairness ==
  /\ WF_linVars(LinuxRuns /\ Linux!Proceeds)
  /\ WF_linVars(LinuxRuns /\ Linux!Deliver)
  /\ WF_linVars(LinuxRuns /\ Linux!Tick)
  /\ WF_winVars(WinRuns /\ Windows!Proceeds)
  /\ WF_winVars(WinRuns /\ Windows!Deliver)
  /\ WF_winVars(WinRuns /\ Windows!Tick)
  /\ WF_macVars(MacRuns /\ Mac!Proceeds)
  /\ WF_macVars(MacRuns /\ Mac!Deliver)
  /\ WF_macVars(MacRuns /\ Mac!Tick)

Spec == Init /\ [][Next]_<<build, linVars, winVars, macVars>> /\ Fairness

(***************************************************************************)
(* Properties                                                              *)
(***************************************************************************)
\* What plays is of the selection, the decoder and the sound that are current,
\* on Linux and macOS.
PlaybackIsCurrent == Linux!PlaybackIsCurrent /\ Mac!ScheduleIsSound

\* A frame is shown when it is due, in order and in time, on Windows.
PresentationIsTimely == Windows!PresentationIsTimely

Unfinished ==
  \/ LinuxRuns /\ linPc # "ended" /\ (linQueue # <<>> \/ linCancelled)
  \/ WinRuns /\ winPc # "ended" /\ (winQueue # <<>> \/ winCancelled)
  \/ MacRuns /\ pc # "ended" /\ (queue # <<>> \/ cancelled \/ failure)

\* A frame does not wait for ever, whatever becomes of the sound that paced it,
\* and a playback that is cancelled, or that cannot be presented, ends, though
\* its channels are full.
PlaybackSettles == Unfinished ~> ~Unfinished
===============================================================================
