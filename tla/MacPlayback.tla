----------------------------- MODULE MacPlayback -----------------------------
(***************************************************************************)
(* Playback of one remote screen on macOS (playback.rs, playback/sync.rs   *)
(* and playback/audio.rs), which MacRuntime has as one task.               *)
(*                                                                         *)
(* The scheduler sorts frames by timestamp, drops the oldest when it is    *)
(* full and refuses what is not after the frame last shown.  The audio     *)
(* task leases the media clock through OutputClock, which gives the lease  *)
(* up when the sink refuses samples and takes it again when the sink is    *)
(* empty; without a position of the sound a fallback clock paces the       *)
(* video, never more than a ceiling behind the newest frame.  The window   *)
(* that presents a frame may report that it cannot.  A catalogue is given  *)
(* by the selection it leads to.  One tick is the ceiling, 33 ms; a clock  *)
(* is kept as the position it has reached.                                 *)
(***************************************************************************)
EXTENDS Integers, Sequences, FiniteSets

CONSTANTS
  Selections,   \* what a catalogue leads to: [video, audio]
  MaxCatalogs,  \* bound: catalogues in a run
  MaxFrames,    \* bound: frames the readers decode
  MaxWrites,    \* bound: PCM frames of one audio task
  Top,          \* bound: the last timestamp, from which every frame is due
  VideoFrames,  \* MAX_VIDEO_FRAMES
  Ceiling,      \* VIDEO_FALLBACK_LATENCY_CEILING, in ticks
  EventCap      \* capacity of the events and of the audio updates

MacPlaybackAssumption ==
  {MaxCatalogs, MaxFrames, Top, VideoFrames, Ceiling, EventCap} \subseteq Nat \ {0}

VARIABLES
  pc,            \* where run_inner is
  cancelled,     \* the watch that Owner::stop sets
  failure,       \* presentation_errors
  catalogs,      \* catalogues read so far
  selection,
  decoder,       \* FrameSequence::decoder_generation
  decoderName,   \* is there one
  reported,      \* reported_decoder_generation
  started,
  frame,         \* the frames watch: the decoder named and the one it came from
  reader,        \* the generation of the VideoTask, 0: None
  reading, decoded, videoUpdates,
  queue, fallback, usingAudio, lastShown, deadline,  \* VideoScheduler
  lease,         \* MediaClock::audio
  changed,       \* the permit of MediaClock::changed
  audio,         \* the audio Task with its OutputClock
  audioUpdates,
  events,        \* to the runtime
  shown          \* what the runtime was told

ownVars   == <<cancelled, failure, catalogs, selection>>
frameVars == <<decoder, decoderName, reported, started, frame>>
readVars  == <<reader, reading, decoded, videoUpdates>>
schedVars == <<queue, fallback, usingAudio, lastShown>>
clockVars == <<lease, changed>>
audioVars == <<audio, audioUpdates>>
outVars   == <<events, shown>>
vars == <<pc, ownVars, frameVars, readVars, schedVars, deadline, clockVars, audioVars, outVars>>

Unset       == {}     \* an Option is a set of at most one value
HasVideo(s) == s.video # "none"
Playable(a) == a \notin {"none", "unsupported"}

(***************************************************************************)
(* MediaClock and OutputClock.                                             *)
(***************************************************************************)
Free == [gen |-> 0, anchor |-> Unset]

SetClock(new) ==
  /\ lease' = new
  /\ changed' = (changed \/ (new.anchor = Unset) # (lease.anchor = Unset))

Clear(gen) == IF lease.gen = gen THEN Free ELSE lease

\* Task::spawn, after the task before it was joined.
SpawnAudio(gen, sel) ==
  /\ audio' = [gen |-> gen, sel |-> sel, stage |-> "new", dropped |-> FALSE, writes |-> 0]
  /\ SetClock([gen |-> gen, anchor |-> Unset])

(***************************************************************************)
(* VideoScheduler.                                                         *)
(***************************************************************************)
HasAudio == lease.anchor # Unset

NextFallback ==
  IF HasAudio THEN IF usingAudio THEN fallback ELSE Unset
  ELSE IF ~usingAudio /\ fallback # Unset THEN fallback
  ELSE IF queue = <<>> THEN Unset ELSE {queue[1].ts}

Clock == IF HasAudio THEN lease.anchor ELSE NextFallback

\* The frames at the front that are due: without a clock there is no frame.
Due == CHOOSE n \in 0..Len(queue) :
         /\ \A i \in 1..n, now \in Clock : queue[i].ts <= now
         /\ n < Len(queue) => \E now \in Clock : queue[n + 1].ts > now

DeadlineOf(rest)   == {rest[1].ts - now : now \in IF rest = <<>> THEN {} ELSE Clock}

Reset == queue' = <<>> /\ fallback' = Unset /\ usingAudio' = FALSE /\ lastShown' = Unset

Insert(q, f) ==
  LET n == Cardinality({i \in 1..Len(q) : q[i].ts <= f.ts})
  IN  SubSeq(q, 1, n) \o <<f>> \o SubSeq(q, n + 1, Len(q))

Outdated(f)    == \E t \in lastShown : f.ts <= t
Refused(f)     == Outdated(f) \/ (Len(queue) = VideoFrames /\ f.ts <= queue[1].ts)
NewestQueue(f) == Insert(IF Len(queue) = VideoFrames THEN Tail(queue) ELSE queue, f)

\* push, with reanchor_fallback
Push(f) ==
  IF Refused(f) THEN UNCHANGED <<queue, fallback>>
  ELSE /\ queue' = NewestQueue(f)
       /\ fallback' = {IF f.ts > now + Ceiling THEN f.ts - Ceiling ELSE now : now \in fallback}

(***************************************************************************)
(* run_inner up to its loop.                                               *)
(***************************************************************************)
StopReader == reader' = 0 /\ reading' = FALSE

FirstCatalog ==
  /\ pc = "catalog" /\ ~cancelled /\ catalogs' = 1
  /\ \E s \in Selections :
       /\ selection' = s
       /\ IF HasVideo(s)
          THEN pc' = "opening" /\ decoder' = 1 /\ UNCHANGED <<audio, clockVars>>
          ELSE pc' = "loop" /\ UNCHANGED decoder /\ SpawnAudio(1, s.audio)
  /\ UNCHANGED <<cancelled, failure, decoderName, reported, started, frame, readVars, schedVars,
                 deadline, audioUpdates, outVars>>

CatalogOrDecoderFails ==
  /\ pc \in {"catalog", "opening"} /\ pc' = "closing"
  /\ UNCHANGED <<ownVars, frameVars, readVars, schedVars, deadline, clockVars, audioVars, outVars>>

\* The first decoder, or the one after a change of the catalogue.
DecoderOpens ==
  /\ pc = "opening" /\ ~cancelled /\ ~failure /\ pc' = "loop" /\ decoderName' = TRUE
  /\ reader' = decoder /\ reading' = TRUE
  /\ IF audio.gen = 0 THEN SpawnAudio(1, selection.audio) ELSE UNCHANGED <<audio, clockVars>>
  /\ UNCHANGED <<ownVars, decoder, reported, started, frame, decoded, videoUpdates, schedVars,
                 deadline, audioUpdates, outVars>>

(***************************************************************************)
(* The loop: advance, show and announce what is due, wait.                 *)
(***************************************************************************)
\* The expects on the selection and on the name of the decoder.
Show(f) ==
  IF HasVideo(selection) /\ decoderName
  THEN \/ /\ frame' = [decoder |-> decoder, from |-> f.gen]
          /\ pc' = (IF reported # decoder THEN "announce" ELSE "select")
       \/ pc' = "closing" /\ UNCHANGED frame     \* from_video fails
  ELSE pc' = "panicked" /\ UNCHANGED frame

Advance ==
  /\ pc = "loop"
  /\ usingAudio' = HasAudio /\ fallback' = NextFallback
  /\ queue' = SubSeq(queue, Due + 1, Len(queue))
  /\ deadline' = DeadlineOf(queue')
  /\ IF Due > 0 THEN lastShown' = {queue[Due].ts} /\ Show(queue[Due])
     ELSE pc' = "select" /\ UNCHANGED <<lastShown, frame>>
  /\ UNCHANGED <<ownVars, decoder, decoderName, reported, started, readVars, clockVars, audioVars, outVars>>

\* send_event: given up when the playback is cancelled.
Sent(e) == ~cancelled /\ Len(events) < EventCap /\ events' = Append(events, e)
Insists == FALSE
GivenUp == cancelled

\* VideoChanged, and for the first frame Started.
Announce ==
  /\ \/ pc = "announce" /\ Sent([kind |-> "decoder", value |-> decoder])
        /\ pc' = (IF started THEN "select" ELSE "starting")
        /\ reported' = decoder /\ UNCHANGED started
     \/ pc = "starting" /\ Sent([kind |-> "started", value |-> 1])
        /\ started' = TRUE /\ pc' = "select" /\ UNCHANGED reported
     \/ pc \in {"announce", "starting"} /\ GivenUp /\ pc' = "closing"
        /\ UNCHANGED <<events, reported, started>>
  /\ UNCHANGED <<ownVars, decoder, decoderName, frame, readVars, schedVars, deadline, clockVars, audioVars, shown>>

\* The select is biased: an arm is taken when none before it is ready.
Arm(n) == /\ pc = "select" /\ ~cancelled
          /\ ~failure
          /\ n > 4 => audioUpdates = <<>>
          /\ n > 5 => reader = 0 \/ videoUpdates = <<>>
          /\ n > 6 => ~changed

Cancelled ==
  /\ \/ cancelled /\ pc \in {"catalog", "opening", "select"}
     \/ failure /\ pc \in {"opening", "select"}
  /\ pc' = "closing"
  /\ UNCHANGED <<ownVars, frameVars, readVars, schedVars, deadline, clockVars, audioVars, outVars>>

CatalogEnds ==
  /\ Arm(3) /\ pc' = "closing"
  /\ UNCHANGED <<ownVars, frameVars, readVars, schedVars, deadline, clockVars, audioVars, outVars>>

\* media_changes: a rendition without a reader is opened again.
VideoChanges(next) == next.video # selection.video \/ (HasVideo(next) /\ reader = 0)

CatalogUpdate ==
  /\ Arm(3) /\ catalogs < MaxCatalogs /\ catalogs' = catalogs + 1
  /\ \E next \in Selections :
       /\ selection' = next
       /\ IF next.audio # selection.audio THEN SpawnAudio(audio.gen + 1, next.audio)
          ELSE UNCHANGED <<audio, clockVars>>
       /\ \/ /\ VideoChanges(next) /\ StopReader /\ Reset
             /\ decoder' = decoder + 1 /\ decoderName' = FALSE
             /\ pc' = IF HasVideo(next) THEN "opening" ELSE "loop"
          \/ /\ ~VideoChanges(next) /\ pc' = "loop"
             /\ fallback' = IF next.audio # selection.audio THEN Unset ELSE fallback
             /\ UNCHANGED <<reader, reading, decoder, decoderName, queue, usingAudio, lastShown>>
  /\ UNCHANGED <<cancelled, failure, reported, started, frame, decoded, videoUpdates, deadline,
                 audioUpdates, outVars>>

\* accept_audio_update
AudioUpdate ==
  /\ Arm(4) /\ audioUpdates # <<>> /\ audioUpdates' = Tail(audioUpdates)
  /\ LET u == Head(audioUpdates)
     IN  \/ u.gen = audio.gen /\ Sent([kind |-> "audio", value |-> u.phase]) /\ pc' = "loop"
         \/ u.gen = audio.gen /\ GivenUp /\ pc' = "closing" /\ UNCHANGED events
         \/ u.gen # audio.gen /\ pc' = "loop" /\ UNCHANGED events
  /\ UNCHANGED <<ownVars, frameVars, readVars, schedVars, deadline, clockVars, audio, shown>>

CurrentVideo(update) == update.gen = decoder

VideoUpdate ==
  /\ Arm(5) /\ reader # 0 /\ videoUpdates # <<>> /\ videoUpdates' = Tail(videoUpdates)
  /\ LET u == Head(videoUpdates)
         Same == UNCHANGED <<reader, reading, decoderName>>
     IN  \/ ~CurrentVideo(u) /\ pc' = "loop" /\ Same /\ UNCHANGED schedVars
         \/ CurrentVideo(u) /\ u.event = "frame" /\ pc' = "loop" /\ Same
            /\ Push([ts |-> u.ts, gen |-> u.gen]) /\ UNCHANGED <<usingAudio, lastShown>>
         \/ CurrentVideo(u) /\ u.event = "failed" /\ pc' = "closing" /\ Same /\ UNCHANGED schedVars
         \/ CurrentVideo(u) /\ u.event = "ended" /\ pc' = "loop"
            /\ StopReader /\ Reset /\ decoderName' = FALSE
  /\ UNCHANGED <<ownVars, decoder, reported, started, frame, decoded, deadline, clockVars, audioVars, outVars>>

Wake ==
  /\ pc' = "loop"
  /\ \/ Arm(6) /\ changed /\ changed' = FALSE
     \/ Arm(7) /\ 0 \in deadline /\ UNCHANGED changed
  /\ UNCHANGED <<ownVars, frameVars, readVars, schedVars, deadline, lease, audioVars, outVars>>

\* Both tasks are joined, then Ended is sent unless cancelled.
Close ==
  /\ pc = "closing" /\ pc' = "ended" /\ StopReader
  /\ audio' = [audio EXCEPT !.stage = "done"] /\ SetClock(Clear(audio.gen))
  /\ \/ GivenUp /\ UNCHANGED events
     \/ Sent([kind |-> "ended", value |-> 1])
  /\ UNCHANGED <<ownVars, frameVars, decoded, videoUpdates, schedVars, deadline, audioUpdates, shown>>

(***************************************************************************)
(* The reader and the audio task.                                          *)
(***************************************************************************)
Read(event) ==
  /\ reading /\ videoUpdates = <<>>
  /\ \E ts \in IF event = "frame" THEN 0..Top ELSE {0} :
       videoUpdates' = <<[gen |-> reader, event |-> event, ts |-> ts]>>
  /\ reading' = (event = "frame")
  /\ decoded' = IF event = "frame" THEN decoded + 1 ELSE decoded
  /\ UNCHANGED <<pc, ownVars, frameVars, reader, schedVars, deadline, clockVars, audioVars, outVars>>

ReaderReads == (decoded < MaxFrames /\ Read("frame")) \/ Read("ended") \/ Read("failed")

Says(phase, stage) ==
  /\ Len(audioUpdates) < EventCap
  /\ audioUpdates' = Append(audioUpdates, [gen |-> audio.gen, phase |-> phase])
  /\ audio' = [audio EXCEPT !.stage = stage]

\* The last report, after which the task returns and its lease is dropped.
SaysLast(phase) == Says(phase, "done") /\ SetClock(Clear(audio.gen))

AudioReports ==
  /\ \/ audio.stage = "new" /\ Says("Pending", "selected") /\ UNCHANGED clockVars
     \/ /\ audio.stage = "selected"
        /\ \/ audio.sel = "none" /\ SaysLast("NoAudio")
           \/ audio.sel = "unsupported" /\ SaysLast("Failed")
           \/ Playable(audio.sel) /\ Says("TrackSelected", "opening") /\ UNCHANGED clockVars
     \/ audio.stage = "opening" /\ Says("PcmDecoded", "decoded") /\ UNCHANGED clockVars
     \/ audio.stage = "accepted" /\ Says("PcmSubmitted", "playing") /\ UNCHANGED clockVars
     \/ audio.stage \in {"opening", "decoded", "playing"} /\ SaysLast("Failed")
  /\ UNCHANGED <<pc, ownVars, frameVars, readVars, schedVars, deadline, outVars>>

\* OutputClock::observe_write for one PCM frame: refused samples cost the lease,
\* which returns with samples accepted into an empty sink.
Leased(trusted) ==
  IF audio.dropped /\ trusted THEN [gen |-> audio.gen, anchor |-> Unset] ELSE lease

AudioWrites ==
  /\ audio.stage \in {"decoded", "playing"} /\ audio.writes < MaxWrites
  /\ \E accepted, refused, drained \in BOOLEAN :
       LET trusted == accepted /\ ~refused /\ (audio.dropped => drained)
       IN  /\ audio' = [audio EXCEPT
                !.writes = @ + 1,
                !.stage = IF accepted /\ @ = "decoded" THEN "accepted" ELSE @,
                !.dropped = refused \/ (@ /\ ~trusted)]
           /\ \/ trusted /\ \E now \in 0..Top : SetClock([Leased(trusted) EXCEPT !.anchor = {now}])
              \/ ~trusted /\ SetClock(IF refused THEN Clear(audio.gen) ELSE lease)
  /\ UNCHANGED <<pc, ownVars, frameVars, readVars, schedVars, deadline, audioUpdates, outVars>>

(***************************************************************************)
(* The runtime, the window and the wall clock.                             *)
(***************************************************************************)
Cancel ==
  /\ ~cancelled /\ pc # "ended" /\ cancelled' = TRUE
  /\ UNCHANGED <<pc, failure, catalogs, selection, frameVars, readVars, schedVars, deadline,
                 clockVars, audioVars, outVars>>

\* The window cannot present a frame it was given.
PresentationFails ==
  /\ frame.decoder # 0 /\ ~failure /\ pc # "ended" /\ failure' = TRUE
  /\ UNCHANGED <<pc, cancelled, catalogs, selection, frameVars, readVars, schedVars, deadline,
                 clockVars, audioVars, outVars>>

\* The coordinator stops polling this queue while it awaits playback teardown.
Deliver ==
  /\ events # <<>> /\ ~cancelled /\ events' = Tail(events)
  /\ shown' = [shown EXCEPT ![Head(events).kind] = Head(events).value]
  /\ UNCHANGED <<pc, ownVars, frameVars, readVars, schedVars, deadline, clockVars, audioVars>>

Later(clock) == {IF now < Top THEN now + 1 ELSE Top : now \in clock}

Tick ==
  /\ lease' = [lease EXCEPT !.anchor = Later(@)]
  /\ fallback' = Later(fallback)
  /\ deadline' = {IF d > 0 THEN d - 1 ELSE 0 : d \in deadline}
  /\ UNCHANGED <<pc, ownVars, frameVars, readVars, queue, usingAudio, lastShown, changed, audioVars, outVars>>

Init ==
  /\ pc = "catalog" /\ cancelled = FALSE /\ failure = FALSE /\ catalogs = 0
  /\ selection = [video |-> "none", audio |-> "none"]
  /\ decoder = 0 /\ decoderName = FALSE /\ reported = 0 /\ started = FALSE
  /\ frame = [decoder |-> 0, from |-> 0]
  /\ reader = 0 /\ reading = FALSE /\ decoded = 0 /\ videoUpdates = <<>>
  /\ queue = <<>> /\ fallback = Unset /\ usingAudio = FALSE /\ lastShown = Unset /\ deadline = {}
  /\ lease = Free /\ changed = FALSE
  /\ audio = [gen |-> 0, sel |-> "none", stage |-> "done", dropped |-> FALSE, writes |-> 0]
  /\ audioUpdates = <<>> /\ events = <<>>
  /\ shown = [decoder |-> 0, started |-> 0, audio |-> "none", ended |-> 0]

\* What run_inner does without waiting for the publisher or a decoder.
Proceeds == Advance \/ Announce \/ Cancelled \/ AudioUpdate \/ VideoUpdate \/ Wake \/ Close

Next == \/ FirstCatalog \/ CatalogOrDecoderFails \/ DecoderOpens \/ CatalogEnds \/ CatalogUpdate
        \/ Proceeds \/ ReaderReads \/ AudioReports \/ AudioWrites
        \/ Cancel \/ PresentationFails \/ Deliver \/ Tick

\* The tasks are scheduled, the runtime serves its events until it stops the
\* playback, and time passes.
Fairness == WF_vars(Proceeds) /\ WF_vars(Deliver) /\ WF_vars(Tick)

Spec == Init /\ [][Next]_vars /\ Fairness

(***************************************************************************)
(* Properties.                                                             *)
(***************************************************************************)
\* However catalogues, ends of tracks, refused samples and late updates
\* interleave: no expect of the loop fires; frames wait sorted, after what was
\* shown, and of the current decoder; a lease that paces the video is that of the
\* playing task and trusted; the runtime knows the decoder of the frame on the
\* screen; and nothing survives the end.
ScheduleIsSound ==
  /\ pc # "panicked"
  /\ frame.from = frame.decoder
  /\ \A i, j \in 1..Len(queue) : i < j => queue[i].ts <= queue[j].ts
  /\ \A i \in 1..Len(queue) : queue[i].gen = decoder /\ ~Outdated(queue[i])
  /\ reader \in {0, decoder}
  /\ HasAudio => lease.gen = audio.gen /\ audio.stage \in {"accepted", "playing"} /\ ~audio.dropped
  /\ events = <<>> /\ ~cancelled /\ pc \in {"loop", "select"} =>
       shown.decoder = frame.decoder /\ (shown.started = 1) = (frame.decoder # 0)
  /\ pc = "ended" => reader = 0 /\ ~reading /\ audio.stage = "done" /\ lease = Free
=============================================================================
