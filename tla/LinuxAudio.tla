----------------------------- MODULE LinuxAudio -----------------------------
(***************************************************************************)
(* The remote audio of a playback on Linux: the task of one audio          *)
(* generation (runtime/playback/audio.rs), what it observes of its own     *)
(* continuity (runtime/playback_audio_continuity.rs) and the clock it      *)
(* anchors (playback_sync.rs).  LinuxPlayback has this task as the source  *)
(* of anchors; here is what passes between decoder, sink and clock, and    *)
(* how a generation is torn down by its owner, playback::run.              *)
(*                                                                         *)
(* Sound is counted in units of PCM, the timestamp of a unit is a number,  *)
(* and a tick of the wall plays one unit.  The rounding tolerance of       *)
(* timestamps is below a unit.  A task is aborted only where it waits.     *)
(***************************************************************************)
EXTENDS Integers, Sequences

CONSTANTS
  Selections,      \* audio::Selection: playable renditions, "none", "unsupported"
  Lengths,         \* units in a decoded frame
  Gaps,            \* how far a frame's timestamp is from the one expected
  Chunk,           \* units written to the sink at once
  Ceiling,         \* AUDIO_PACING_CEILING
  SinkCapacity,    \* units the sink holds
  EventCapacity,   \* AUDIO_EVENT_CAPACITY
  MaxFrames,       \* bound: frames of one generation
  MaxGenerations   \* bound: audio generations

ASSUME LinuxAudioAssumption ==
  /\ {Chunk, SinkCapacity, EventCapacity, MaxFrames, MaxGenerations} \subseteq Nat \ {0}
  /\ Lengths \subseteq Nat \ {0} /\ Gaps \subseteq Int /\ Ceiling \in Nat

VARIABLES
  generation, selection,
  pc,            \* where the task is: what it waits for, or "write"
  why,           \* the TeardownReason of the failure it is reporting
  teardown,      \* TeardownControl: owner_reason and emitted_reason
  track,         \* Tracker: counts of the generation; {} before it is made
  expected,      \* last_expected_pts
  frame,         \* the frame being written: its next unit and its end
  frames,
  decoded, submitted, whole, draining,  \* locals of run
  timer,         \* of a pacing delay
  sink,          \* timestamps of the units the sink holds
  played,        \* units of this generation the sink has played
  anchor,        \* MediaClock: the media time now, if it is anchored
  updates,       \* audio_updates: [generation, phase]
  shown,         \* the phase the owner last accepted
  stopping,      \* the reason of the stop under way
  told           \* history: what was logged of the end of this generation

ownerVars == <<generation, selection, stopping>>
runVars   == <<expected, frame, frames, decoded, submitted, whole, draining, timer>>
soundVars == <<sink, played, anchor>>
endVars   == <<teardown, told>>
vars == <<ownerVars, pc, why, endVars, track, runVars, soundVars, updates, shown>>

Playable(s) == s \notin {"none", "unsupported"}
Room        == Len(updates) < EventCapacity
Update(phase) == [generation |-> generation, phase |-> phase]
Sends(phase)  == Room /\ updates' = Append(updates, Update(phase)) /\ UNCHANGED shown
Waits       == pc \notin {"write", "over"}

Fresh ==
  /\ pc' = "pending" /\ why' = "none" /\ track' = {} /\ expected' = {}
  /\ frame' = [next |-> 0, end |-> 0] /\ frames' = 0 /\ timer' = 0
  /\ decoded' = FALSE /\ submitted' = FALSE /\ whole' = TRUE /\ draining' = FALSE
  /\ sink' = <<>> /\ played' = 0 /\ anchor' = {} /\ stopping' = "none"
  /\ teardown' = [owner |-> "none", emitted |-> "none"] /\ told' = <<>>

Init ==
  /\ generation = 1 /\ selection \in Selections
  /\ pc = "pending" /\ why = "none" /\ track = {} /\ expected = {}
  /\ frame = [next |-> 0, end |-> 0] /\ frames = 0 /\ timer = 0
  /\ decoded = FALSE /\ submitted = FALSE /\ whole = TRUE /\ draining = FALSE
  /\ sink = <<>> /\ played = 0 /\ anchor = {} /\ stopping = "none"
  /\ teardown = [owner |-> "none", emitted |-> "none"] /\ told = <<>>
  /\ updates = <<>> /\ shown = "none"

(***************************************************************************)
(* Tracker                                                                 *)
(***************************************************************************)
NewTracker == {[pcm |-> 0, gaps |-> 0, regressions |-> 0, attempts |-> 0, failures |-> 0,
                chunks |-> 0, sent |-> 0, dropped |-> 0, delayed |-> 0]}

ObserveFrame(t, start, length) ==
  [t EXCEPT !.pcm = @ + length,
            !.gaps = @ + (IF \E e \in expected : start > e THEN 1 ELSE 0),
            !.regressions = @ + (IF \E e \in expected : start < e THEN 1 ELSE 0)]

ObserveWrite(t, asked, accepted) ==
  [t EXCEPT !.attempts = @ + 1, !.dropped = @ + (asked - accepted), !.sent = @ + accepted,
            !.chunks = @ + (IF accepted = 0 THEN 0 ELSE 1)]

ObserveFailure(t) == [t EXCEPT !.attempts = @ + 1, !.failures = @ + 1]

\* log_teardown: the first reason is logged and no other.
Emit(control, reason) ==
  /\ teardown' = IF control.emitted = "none" THEN [control EXCEPT !.emitted = reason] ELSE control
  /\ told' = IF control.emitted = "none" THEN Append(told, <<"summary", reason>>) ELSE told

\* The task is gone: the sink and the audio lease of the clock go with it.
Gone == pc' = "over" /\ sink' = <<>> /\ anchor' = {} /\ UNCHANGED played

(***************************************************************************)
(* The task                                                                *)
(***************************************************************************)
TaskKeeps == UNCHANGED ownerVars

SayPending ==
  /\ pc = "pending" /\ Sends("pending") /\ TaskKeeps /\ UNCHANGED <<why, endVars, runVars, soundVars>>
  /\ IF Playable(selection) THEN pc' = "track" /\ track' = NewTracker
     ELSE pc' = "silent" /\ UNCHANGED track

\* Nothing to play: it says why and returns, without a tracker.
SaySilent ==
  /\ pc = "silent" /\ Sends(IF selection = "none" THEN "no audio" ELSE "failed") /\ Gone
  /\ TaskKeeps /\ UNCHANGED <<why, endVars, track, runVars>>

SayTrack ==
  /\ pc = "track" /\ Sends("selected") /\ pc' = "open"
  /\ TaskKeeps /\ UNCHANGED <<why, endVars, track, runVars, soundVars>>

Open ==
  /\ pc = "open" /\ TaskKeeps /\ UNCHANGED <<endVars, track, runVars, soundVars, updates, shown>>
  /\ \/ pc' = "read" /\ UNCHANGED why
     \/ pc' = "failing" /\ why' = "start_error"

\* A frame, the end of the track, or a decoder that fails.
Read ==
  /\ pc = "read" /\ frames < MaxFrames /\ frames' = frames + 1
  /\ \E length \in Lengths, gap \in Gaps :
       LET start == IF expected = {} THEN 0 ELSE (CHOOSE e \in expected : TRUE) + gap IN
       /\ start >= 0
       /\ track' = {ObserveFrame(t, start, length) : t \in track}
       /\ expected' = {start + length} /\ frame' = [next |-> start, end |-> start + length]
  /\ pc' = (IF decoded THEN "write" ELSE "heard") /\ decoded' = TRUE
  /\ whole' = TRUE /\ draining' = (draining /\ sink # <<>>)
  /\ TaskKeeps /\ UNCHANGED <<why, endVars, submitted, timer, soundVars, updates, shown>>

ReadEnds ==
  /\ pc = "read" /\ pc' = "failing" /\ why' \in {"ended", "decode_error"}
  /\ TaskKeeps /\ UNCHANGED <<endVars, track, runVars, soundVars, updates, shown>>

SayDecoded ==
  /\ pc = "heard" /\ Sends("decoded") /\ pc' = "write"
  /\ TaskKeeps /\ UNCHANGED <<why, endVars, track, runVars, soundVars>>

LastPart == frame.end - frame.next <= Chunk
PartLength == IF LastPart THEN frame.end - frame.next ELSE Chunk

\* pacing_delay, once for every part.
MustPace == timer = 0 /\ Len(sink) > Ceiling

Pace ==
  /\ pc = "write" /\ frame.next < frame.end /\ MustPace
  /\ pc' = "pace" /\ timer' = Len(sink) - Ceiling /\ track' = {[t EXCEPT !.delayed = @ + 1] : t \in track}
  /\ TaskKeeps
  /\ UNCHANGED <<why, endVars, expected, frame, frames, decoded, submitted, whole, draining, soundVars, updates, shown>>

\* sink.write takes a prefix of the part; what it did not take is lost, and
\* the clock is not to be trusted until the sink has run dry.
Dropped(lost) ==
  IF lost THEN whole' = FALSE /\ draining' = TRUE /\ anchor' = {} ELSE UNCHANGED <<whole, draining, anchor>>

Write ==
  /\ \/ pc = "write" /\ frame.next < frame.end /\ ~MustPace
     \/ pc = "pace" /\ timer = 0
  /\ \E accepted \in 0 .. PartLength :
       /\ Len(sink) + accepted <= SinkCapacity
       /\ track' = {ObserveWrite(t, PartLength, accepted) : t \in track}
       /\ sink' = sink \o [i \in 1 .. accepted |-> frame.next + i - 1]
       /\ frame' = [frame EXCEPT !.next = @ + PartLength]
       /\ Dropped(accepted < PartLength)
       /\ submitted' = (submitted \/ accepted > 0)
       /\ pc' = (IF submitted' /\ ~submitted THEN "sent" ELSE "write")
  /\ TaskKeeps /\ UNCHANGED <<why, endVars, expected, frames, decoded, timer, played, updates, shown>>

WriteFails ==
  /\ \/ pc = "write" /\ frame.next < frame.end /\ ~MustPace
     \/ pc = "pace" /\ timer = 0
  /\ pc' = "failing" /\ why' = "sink_error" /\ track' = {ObserveFailure(t) : t \in track}
  /\ TaskKeeps /\ UNCHANGED <<endVars, runVars, soundVars, updates, shown>>

SaySubmitted ==
  /\ pc = "sent" /\ Sends("submitted") /\ pc' = "write"
  /\ TaskKeeps /\ UNCHANGED <<why, endVars, track, runVars, soundVars>>

\* Only a frame the sink took whole, on top of nothing but whole frames,
\* tells what is being played.
MayAnchor == whole /\ ~draining /\ submitted

FrameEnd ==
  /\ pc = "write" /\ frame.next = frame.end /\ pc' = "read"
  /\ anchor' = IF MayAnchor THEN {frame.end - Len(sink)} ELSE anchor
  /\ TaskKeeps /\ UNCHANGED <<why, endVars, track, runVars, sink, played, updates, shown>>

\* The failure is shown, then the tracker finishes with its reason.
Fail ==
  /\ pc = "failing" /\ Sends("failed") /\ Gone /\ Emit(teardown, why)
  /\ TaskKeeps /\ UNCHANGED <<why, track, runVars>>

(***************************************************************************)
(* The owner                                                               *)
(***************************************************************************)
\* accept_audio_update; the select does not run while a stop is awaited.
Receive ==
  /\ stopping = "none" /\ updates # <<>> /\ updates' = Tail(updates)
  /\ shown' = (IF Head(updates).generation = generation THEN Head(updates).phase ELSE shown)
  /\ UNCHANGED <<ownerVars, pc, why, endVars, track, runVars, soundVars>>

\* transition_teardown_reason
Reason(next) == IF Playable(selection) /\ ~Playable(next) THEN "withdraw" ELSE "replacement"

\* Task::stop: the reason is there before the task can end.
ReasonForgotten(reason) == teardown
OwnerReason(reason) == [teardown EXCEPT !.owner = reason]

Stop(reason) ==
  /\ stopping = "none" /\ stopping' = reason /\ teardown' = OwnerReason(reason)
  /\ UNCHANGED <<generation, pc, why, told, track, runVars, soundVars, updates, shown>>

Replace ==
  /\ generation < MaxGenerations /\ \E next \in Selections \ {selection} : Stop(Reason(next))
  /\ UNCHANGED selection

StopForGood == generation = MaxGenerations /\ Stop("stop") /\ UNCHANGED selection

\* The abort reaches a task that waits: its tracker is dropped and tells the
\* reason of the owner, and without a tracker the owner says it itself.
AbortIfRoom == Waits /\ Room
AbortTakesHold == Waits

Aborted ==
  /\ stopping # "none" /\ AbortTakesHold /\ Gone
  /\ IF track # {} /\ teardown.owner # "none" THEN Emit(teardown, teardown.owner)
     ELSE UNCHANGED teardown /\ told' = IF teardown.emitted = "none" THEN Append(told, <<"owner", stopping>>) ELSE told
  /\ UNCHANGED <<ownerVars, why, track, runVars, updates, shown>>

\* The stop returns; a replacement starts the next generation.
Spawned ==
  /\ stopping \in {"withdraw", "replacement"} /\ pc = "over" /\ generation' = generation + 1
  /\ \E next \in Selections \ {selection} : Reason(next) = stopping /\ selection' = next
  /\ Fresh /\ UNCHANGED <<updates, shown>>

Done == stopping = "stop" /\ pc = "over" /\ UNCHANGED vars

\* The wall moves: the sink plays, and the clock and a delay run on.
Tick ==
  /\ sink # <<>> /\ sink' = Tail(sink) /\ played' = played + 1
  /\ anchor' = {a + 1 : a \in anchor} /\ timer' = (IF timer = 0 THEN 0 ELSE timer - 1)
  /\ UNCHANGED <<ownerVars, pc, why, endVars, track, expected, frame, frames, decoded, submitted, whole,
                 draining, updates, shown>>

Task == \/ SayPending \/ SaySilent \/ SayTrack \/ Open \/ SayDecoded \/ Pace \/ Write
        \/ SaySubmitted \/ FrameEnd \/ Fail

Next == Task \/ Read \/ ReadEnds \/ WriteFails \/ Receive \/ Replace \/ StopForGood \/ Aborted
        \/ Spawned \/ Done \/ Tick

\* Tokio runs the task and its owner and drops an aborted future; the wall
\* goes on.  Nothing makes the decoder produce, or the catalogue change.
Fairness == WF_vars(Task) /\ WF_vars(Receive) /\ WF_vars(Aborted) /\ WF_vars(Spawned) /\ WF_vars(Tick)

Spec     == Init /\ [][Next]_vars
FairSpec == Spec /\ Fairness

(***************************************************************************)
(* Properties                                                              *)
(***************************************************************************)
Continuous == \A t \in track : t.gaps = 0 /\ t.regressions = 0

UnitsAreAccounted ==
  \A t \in track : /\ t.pcm = t.sent + t.dropped + (frame.end - frame.next)
                   /\ pc # "over" => t.sent = played + Len(sink)

SinkHasNoHole ==
  anchor # {} /\ Continuous => \A i \in 1 .. Len(sink) - 1 : sink[i + 1] = sink[i] + 1

AnchorsWhatPlays == FrameEnd /\ MayAnchor /\ Continuous /\ sink # <<>> => anchor' = {Head(sink)}

EndIsTold ==
  pc = "over" => IF track = {} THEN told \in {<<>>, <<<<"owner", stopping>>>>}
                 ELSE /\ told = <<<<"summary", teardown.emitted>>>>
                      /\ teardown.emitted \in {why, stopping} \ {"none"}

\* What the sound of a generation comes to is accounted for: every decoded
\* unit was taken by the sink, dropped, or is still to be written, and what
\* was taken has been played or is in the sink; the clock says what is being
\* played, which it could not after a hole; and when a generation is over,
\* its end was told once, with the reason that ended it.
SoundIsAccounted ==
  [](UnitsAreAccounted /\ SinkHasNoHole /\ EndIsTold) /\ [][AnchorsWhatPlays]_vars

\* A generation that is told to stop is over, although its owner takes no
\* update meanwhile and its delay may be long; and a failure is shown by its
\* owner unless that generation is stopped first.
GenerationEnds ==
  /\ (stopping # "none") ~> (pc = "over")
  /\ (pc = "pace") ~> (pc # "pace")
  /\ (pc = "failing") ~> (shown = "failed" \/ stopping # "none")

(***************************************************************************)
(* Why the sound is accounted for: the inductive invariant                 *)
(***************************************************************************)
States  == {"pending", "silent", "track", "open", "read", "heard", "write", "pace", "sent",
            "failing", "over"}
Reasons == {"none", "start_error", "ended", "decode_error", "sink_error", "withdraw",
            "replacement", "stop"}
Trackers == [pcm : Int, gaps : Nat, regressions : Nat, attempts : Nat, failures : Nat,
             chunks : Nat, sent : Int, dropped : Int, delayed : Nat]

\* Every variable that the sound and its end depend on keeps its type.
TypeOK ==
  /\ pc \in States /\ stopping \in Reasons /\ why \in Reasons
  /\ teardown \in [owner : Reasons, emitted : Reasons]
  /\ track \in SUBSET Trackers
  /\ frame \in [next : Int, end : Int] /\ expected \in SUBSET Int
  /\ whole \in BOOLEAN /\ draining \in BOOLEAN
  /\ sink \in Seq(Int) /\ played \in Nat /\ anchor \in SUBSET Int

\* Where the task is, what it holds: nothing before the tracker is made, and
\* between two frames nothing of a frame that is still to be written.
TaskHolds ==
  /\ pc \in {"pending", "silent"} => track = {}
  /\ pc \notin {"pending", "silent", "over"} => track # {}
  /\ pc \in {"pending", "silent", "track", "open", "read"} => frame.next = frame.end
  /\ pc = "pace" => frame.next < frame.end
  /\ pc = "pending" => played = 0 /\ sink = <<>>
  /\ expected = {} => sink = <<>> /\ frame.next = frame.end
  /\ expected # {} => expected = {frame.end}

\* While nothing was dropped and no timestamp jumped, the sink holds the units
\* right before the next one to be written.  The clock is anchored only then.
SinkIsContinuous ==
  /\ anchor # {} => ~draining
  /\ ~draining /\ Continuous =>
       \A i \in 1 .. Len(sink) : sink[i] = frame.next - Len(sink) + i - 1

\* Nothing is told before the end, and the end has a reason.
EndHasReason ==
  /\ pc # "over" => told = <<>> /\ teardown.emitted = "none"
  /\ pc = "over" /\ track = {} /\ stopping = "none" => told = <<>>
  /\ stopping # "none" => teardown.owner = stopping
  /\ pc = "failing" => why # "none"

AudioInvariant ==
  TypeOK /\ TaskHolds /\ SinkIsContinuous /\ EndHasReason /\ UnitsAreAccounted /\ EndIsTold
=============================================================================
