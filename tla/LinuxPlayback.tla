---------------------------- MODULE LinuxPlayback ----------------------------
(***************************************************************************)
(* Playback of one remote screen on Linux (runtime/playback.rs with        *)
(* playback/audio.rs and playback_sync.rs), which MediaSlot has as one     *)
(* task, and run_view of supervisor.rs that forwards its events.           *)
(*                                                                         *)
(* playback::run waits in one biased select and owns a video reader and an *)
(* audio task that run beside it and report through bounded channels.      *)
(* Both are replaced when the catalogue changes.  The audio task leases    *)
(* the media clock; while it has not anchored it, a fallback clock that    *)
(* starts with the first frame paces the video.  A clock is kept as its    *)
(* position, which every tick of the wall moves, and a deadline as the     *)
(* ticks that remain.  A wait for room in a channel is part of the step    *)
(* that it delays.                                                         *)
(***************************************************************************)
EXTENDS Integers, Sequences, FiniteSets

CONSTANTS
  Catalogs,     \* what a publisher announces: [video, audio], sets of renditions
  MaxCatalogs,  \* bound: catalogues in a run
  MaxFrames,    \* bound: frames the readers decode
  MaxWrites,    \* bound: PCM frames of one audio task
  Top,          \* bound: the last timestamp, from which every frame is due
  VideoFrames,  \* MAX_VIDEO_FRAMES
  EventCap      \* capacity of the events and AUDIO_EVENT_CAPACITY

LinuxPlaybackAssumption ==
  {MaxCatalogs, Top, VideoFrames, EventCap} \subseteq Nat \ {0}

VARIABLES
  pc,            \* where playback::run is
  cancelled,     \* the watch that the supervisor sets
  catalogs,      \* catalogues read so far
  selection,     \* Selection
  decoder,       \* FrameSequence::decoder_generation
  sequence, started,
  frame,         \* the frames watch: identity, and the decoder it came from
  reader,        \* the generation of the VideoTask, 0: None
  reading,       \* it has more to read
  decoded,       \* frames decoded so far
  videoUpdates,  \* VIDEO_EVENT_CAPACITY is 1
  queue, fallback, usingAudio,  \* VideoScheduler
  deadline,      \* of the select under way
  lease,         \* MediaClock::audio
  changed,       \* the permit of MediaClock::changed
  audio,         \* the audio Task
  audioUpdates,
  events,        \* to run_view
  shown          \* what the supervisor was told

ownVars   == <<cancelled, catalogs, selection>>
frameVars == <<decoder, sequence, started, frame>>
readVars  == <<reader, reading, decoded, videoUpdates>>
schedVars == <<queue, fallback, usingAudio, deadline>>
clockVars == <<lease, changed>>
audioVars == <<audio, audioUpdates>>
outVars   == <<events, shown>>
vars == <<pc, ownVars, frameVars, readVars, schedVars, clockVars, audioVars, outVars>>

Unset     == {}           \* an Option<Clock> is a set of at most one position
Room      == Len(events) < EventCap
AudioRoom == Len(audioUpdates) < EventCap

(***************************************************************************)
(* Selection::from_catalog: the rendition of the current name is kept      *)
(* while it is offered and supported.                                      *)
(***************************************************************************)
None               == [name |-> "", config |-> -1]
Unsupported        == [name |-> "", config |-> 0]
Playable(sel)      == sel.config > 0
Supported(offered) == {t \in offered : Playable(t)}

Pick(offered, current) ==
  LET kept == {t \in Supported(offered) : Playable(current) /\ t.name = current.name}
  IN  CHOOSE t \in IF kept # {} THEN kept ELSE Supported(offered) : TRUE

VideoOf(offered, current) ==
  IF Supported(offered) = {} THEN None ELSE Pick(offered, current)

AudioOf(offered, current) ==
  IF offered = {} THEN None
  ELSE IF Supported(offered) = {} THEN Unsupported ELSE Pick(offered, current)

FromCatalog(c, current) ==
  [video |-> VideoOf(c.video, current.video), audio |-> AudioOf(c.audio, current.audio)]

(***************************************************************************)
(* MediaClock.  A change of the presence of an anchor leaves a permit.     *)
(***************************************************************************)
Free == [gen |-> 0, anchor |-> Unset]

SetClock(new) ==
  /\ lease' = new
  /\ changed' = (changed \/ (new.anchor = Unset) # (lease.anchor = Unset))

Clear(gen)     == IF lease.gen = gen THEN Free ELSE lease

\* Task::spawn, after the task before it was joined and its lease dropped.
SpawnAudio(gen, sel) ==
  /\ audio' = [gen |-> gen, sel |-> sel, stage |-> "new", draining |-> FALSE,
               writes |-> 0, said |-> "none"]
  /\ SetClock([gen |-> gen, anchor |-> Unset])

(***************************************************************************)
(* VideoScheduler::advance.                                                *)
(***************************************************************************)
HasAudio == lease.anchor # Unset

NextFallback ==
  IF HasAudio THEN IF usingAudio THEN fallback ELSE Unset
  ELSE IF ~usingAudio /\ fallback # Unset THEN fallback
  ELSE IF queue = <<>> THEN Unset ELSE {queue[1].ts}

Clock == IF HasAudio THEN lease.anchor ELSE NextFallback

\* The frames at the front that are due: without a clock there is no frame.
Due == CHOOSE n \in 0..Len(queue) :
         /\ \A i \in 1..n, now \in Clock : queue[i].ts <= now
         /\ n < Len(queue) => \E now \in Clock : queue[n + 1].ts > now

DeadlineOf(rest)   == {rest[1].ts - now : now \in IF rest = <<>> THEN {} ELSE Clock}

Reset == queue' = <<>> /\ fallback' = Unset

ReplaceDecoder == decoder' = decoder + 1 /\ sequence' = 0

\* stop aborts and joins the reader; what it has sent remains.
StopReader == reader' = 0 /\ reading' = FALSE

(***************************************************************************)
(* playback::run up to its loop.                                           *)
(***************************************************************************)
FirstCatalog ==
  /\ pc = "catalog" /\ ~cancelled /\ catalogs' = 1
  /\ \E c \in Catalogs :
       /\ selection' = FromCatalog(c, [video |-> None, audio |-> None])
       /\ \/ /\ selection'.video # None /\ pc' = "opening" /\ ReplaceDecoder
             /\ UNCHANGED <<audio, clockVars>>
          \/ /\ selection'.video = None /\ pc' = "loop" /\ SpawnAudio(1, selection'.audio)
             /\ UNCHANGED <<decoder, sequence>>
  /\ UNCHANGED <<cancelled, started, frame, readVars, schedVars, audioUpdates, outVars>>

\* Before the audio task there is nothing to join.
EndsAt == IF audio.gen = 0 THEN "ended" ELSE "closing"

CatalogOrDecoderFails ==
  /\ pc \in {"catalog", "opening"} /\ pc' = EndsAt
  /\ UNCHANGED <<ownVars, frameVars, readVars, schedVars, clockVars, audioVars, outVars>>

DecoderOpens ==
  /\ pc = "opening" /\ ~cancelled /\ pc' = "announce"
  /\ UNCHANGED <<ownVars, frameVars, readVars, schedVars, clockVars, audioVars, outVars>>

\* Event::Video, then the reader, and before the loop the audio task.
Announce ==
  /\ pc = "announce" /\ Room /\ pc' = "loop"
  /\ events' = Append(events, [kind |-> "video", value |-> TRUE])
  /\ reader' = decoder /\ reading' = TRUE
  /\ IF audio.gen = 0 THEN SpawnAudio(1, selection.audio) ELSE UNCHANGED <<audio, clockVars>>
  /\ UNCHANGED <<ownVars, frameVars, decoded, videoUpdates, schedVars, audioUpdates, shown>>

Withdraw ==
  /\ pc = "withdraw" /\ Room /\ pc' = "loop"
  /\ events' = Append(events, [kind |-> "video", value |-> FALSE])
  /\ UNCHANGED <<ownVars, frameVars, readVars, schedVars, clockVars, audioVars, shown>>

(***************************************************************************)
(* The loop: advance, show what is due, wait.                              *)
(***************************************************************************)
ShowsFrame ==
  /\ sequence' = sequence + 1 /\ started' = TRUE
  /\ \/ /\ frame' = [decoder |-> decoder, sequence |-> sequence + 1, from |-> queue[Due].gen]
        /\ \/ started /\ pc' = "select" /\ UNCHANGED events
           \/ ~started /\ Room /\ pc' = "starting"
              /\ events' = Append(events, [kind |-> "started", value |-> TRUE])
     \/ pc' = "closing" /\ UNCHANGED <<frame, events>>   \* from_video fails

Advance ==
  /\ pc = "loop"
  /\ usingAudio' = HasAudio /\ fallback' = NextFallback
  /\ queue' = SubSeq(queue, Due + 1, Len(queue))
  /\ deadline' = DeadlineOf(queue')
  /\ IF Due > 0 THEN ShowsFrame
     ELSE pc' = "select" /\ UNCHANGED <<sequence, started, frame, events>>
  /\ UNCHANGED <<ownVars, decoder, readVars, clockVars, audioVars, shown>>

\* The select is biased: an arm is taken when none before it is ready.
Arm(n) == /\ pc = "select" /\ ~cancelled
          /\ n > 2 => 0 \notin deadline
          /\ n > 3 => ~changed

Cancelled ==
  /\ cancelled /\ pc \in {"catalog", "opening", "select"} /\ pc' = EndsAt
  /\ UNCHANGED <<ownVars, frameVars, readVars, schedVars, clockVars, audioVars, outVars>>

Wake ==
  /\ pc' = "loop"
  /\ \/ Arm(2) /\ 0 \in deadline /\ UNCHANGED changed
     \/ Arm(3) /\ changed /\ changed' = FALSE
  /\ UNCHANGED <<ownVars, frameVars, readVars, schedVars, lease, audioVars, outVars>>

CatalogEnds ==
  /\ Arm(4) /\ pc' = "closing"
  /\ UNCHANGED <<ownVars, frameVars, readVars, schedVars, clockVars, audioVars, outVars>>

\* media_changes: a rendition without a reader is opened again.
VideoChanges(next) == next.video # selection.video \/ (next.video # None /\ reader = 0)

CatalogUpdate ==
  /\ Arm(4) /\ catalogs < MaxCatalogs /\ catalogs' = catalogs + 1
  /\ \E c \in Catalogs :
       LET next == FromCatalog(c, selection)
       IN  /\ selection' = next
           /\ IF next.audio # selection.audio THEN SpawnAudio(audio.gen + 1, next.audio)
              ELSE UNCHANGED <<audio, clockVars>>
           /\ \/ /\ VideoChanges(next) /\ StopReader /\ ReplaceDecoder /\ Reset
                 /\ pc' = IF next.video # None THEN "opening" ELSE "withdraw"
              \/ /\ ~VideoChanges(next) /\ pc' = "loop"
                 /\ fallback' = IF next.audio # selection.audio THEN Unset ELSE fallback
                 /\ UNCHANGED <<reader, reading, decoder, sequence, queue>>
  /\ UNCHANGED <<cancelled, started, frame, decoded, videoUpdates, usingAudio,
                 deadline, audioUpdates, outVars>>

\* accept_audio_update
AudioUpdate ==
  /\ Arm(4) /\ audioUpdates # <<>> /\ pc' = "loop"
  /\ audioUpdates' = Tail(audioUpdates)
  /\ LET u == Head(audioUpdates)
     IN  \/ u.gen = audio.gen /\ Room
            /\ events' = Append(events, [kind |-> "audio", value |-> u.phase])
         \/ u.gen # audio.gen /\ UNCHANGED events
  /\ UNCHANGED <<ownVars, frameVars, readVars, schedVars, clockVars, audio, shown>>

\* accept_video_update
AnyVideo(update)     == TRUE
CurrentVideo(update) == update.gen = decoder

VideoUpdate ==
  /\ Arm(4) /\ audioUpdates = <<>> /\ videoUpdates # <<>> /\ Len(queue) < VideoFrames
  /\ videoUpdates' = Tail(videoUpdates)
  /\ LET u == Head(videoUpdates)
         Frame  == queue' = Append(queue, [ts |-> u.ts, gen |-> u.gen])
         Same   == UNCHANGED <<fallback, reader, reading, decoder, sequence>>
     IN  \/ ~CurrentVideo(u) /\ pc' = "loop" /\ Same /\ UNCHANGED queue
         \/ CurrentVideo(u) /\ u.event = "frame" /\ pc' = "loop" /\ Same /\ Frame
         \/ CurrentVideo(u) /\ u.event = "failed" /\ pc' = "closing" /\ Same /\ UNCHANGED queue
         \/ CurrentVideo(u) /\ u.event = "ended" /\ pc' = "withdraw"
            /\ StopReader /\ ReplaceDecoder /\ Reset
  /\ UNCHANGED <<ownVars, started, frame, decoded, usingAudio, deadline, clockVars, audioVars, outVars>>

\* Both tasks are joined.
Close ==
  /\ pc = "closing" /\ pc' = "ended" /\ StopReader
  /\ audio' = [audio EXCEPT !.stage = "done"] /\ SetClock(Clear(audio.gen))
  /\ UNCHANGED <<ownVars, frameVars, decoded, videoUpdates, schedVars, audioUpdates, outVars>>

(***************************************************************************)
(* The reader and the audio task.                                          *)
(***************************************************************************)
Read(event) ==
  /\ reading /\ videoUpdates = <<>>
  /\ \E ts \in IF event = "frame" THEN 0..Top ELSE {0} :
       videoUpdates' = <<[gen |-> reader, event |-> event, ts |-> ts]>>
  /\ reading' = (event = "frame")
  /\ decoded' = IF event = "frame" THEN decoded + 1 ELSE decoded
  /\ UNCHANGED <<pc, ownVars, frameVars, reader, schedVars, clockVars, audioVars, outVars>>

ReaderReads == \/ decoded < MaxFrames /\ Read("frame")
               \/ Read("ended")
               \/ Read("failed")

Says(phase, stage) ==
  /\ AudioRoom /\ audioUpdates' = Append(audioUpdates, [gen |-> audio.gen, phase |-> phase])
  /\ audio' = [audio EXCEPT !.stage = stage, !.said = phase]

\* The last report, after which the task returns and its lease is dropped.
SaysLast(phase) == Says(phase, "done") /\ SetClock(Clear(audio.gen))

AudioStarts ==
  /\ \/ audio.stage = "new" /\ Says("Pending", "selected") /\ UNCHANGED clockVars
     \/ /\ audio.stage = "selected"
        /\ \/ audio.sel = None /\ SaysLast("NoAudio")
           \/ audio.sel = Unsupported /\ SaysLast("Failed")
           \/ Playable(audio.sel) /\ Says("TrackSelected", "opening") /\ UNCHANGED clockVars
     \/ audio.stage = "opening" /\ Says("PcmDecoded", "decoded") /\ UNCHANGED clockVars
  /\ UNCHANGED <<pc, ownVars, frameVars, readVars, schedVars, outVars>>

\* A PCM frame is written in full, and anchors the clock unless samples that
\* were refused before are still being drained; or the sink refuses a part.
WriteInFull(drained) ==
  /\ audio' = [audio EXCEPT !.writes = @ + 1, !.draining = @ /\ ~drained]
  /\ \E now \in 0..Top :
       SetClock(IF audio'.draining THEN lease ELSE [lease EXCEPT !.anchor = {now}])

WriteInPart ==
  /\ audio' = [audio EXCEPT !.writes = @ + 1, !.draining = TRUE]
  /\ SetClock([lease EXCEPT !.anchor = Unset])

AudioWrites ==
  /\ audio.writes < MaxWrites
  /\ \/ audio.stage \in {"decoded", "playing"} /\ WriteInPart
     \/ audio.stage = "playing" /\ \E drained \in BOOLEAN : WriteInFull(drained)
  /\ UNCHANGED <<pc, ownVars, frameVars, readVars, schedVars, audioUpdates, outVars>>

\* The first samples the sink accepts are reported before the clock is anchored.
AudioSubmits ==
  /\ audio.stage = "decoded" /\ Says("PcmSubmitted", "playing")
  /\ UNCHANGED <<pc, ownVars, frameVars, readVars, schedVars, clockVars, outVars>>

AudioFails ==
  /\ audio.stage \in {"opening", "decoded", "playing"} /\ SaysLast("Failed")
  /\ UNCHANGED <<pc, ownVars, frameVars, readVars, schedVars, outVars>>

(***************************************************************************)
(* The supervisor, run_view and the wall clock.                            *)
(***************************************************************************)
Cancel ==
  /\ ~cancelled /\ pc # "ended" /\ cancelled' = TRUE
  /\ UNCHANGED <<pc, catalogs, selection, frameVars, readVars, schedVars,
                 clockVars, audioVars, outVars>>

Deliver ==
  /\ events # <<>> /\ pc # "ended"
  /\ events' = Tail(events)
  /\ LET e == Head(events)
     IN  /\ pc' = IF e.kind = "started" THEN "select" ELSE pc
         /\ shown' = IF cancelled THEN shown ELSE [shown EXCEPT ![e.kind] = e.value]
  /\ UNCHANGED <<ownVars, frameVars, readVars, schedVars, clockVars, audioVars>>

Later(clock) == {IF now < Top THEN now + 1 ELSE Top : now \in clock}

Tick ==
  /\ lease' = [lease EXCEPT !.anchor = Later(@)]
  /\ fallback' = Later(fallback)
  /\ deadline' = {IF d > 0 THEN d - 1 ELSE 0 : d \in deadline}
  /\ UNCHANGED <<pc, ownVars, frameVars, readVars, queue, usingAudio, changed, audioVars, outVars>>

Init ==
  /\ pc = "catalog" /\ cancelled = FALSE /\ catalogs = 0
  /\ selection = [video |-> None, audio |-> None]
  /\ decoder = 0 /\ sequence = 0 /\ started = FALSE
  /\ frame = [decoder |-> 0, sequence |-> 0, from |-> 0]
  /\ reader = 0 /\ reading = FALSE /\ decoded = 0 /\ videoUpdates = <<>>
  /\ queue = <<>> /\ fallback = Unset /\ usingAudio = FALSE /\ deadline = {}
  /\ lease = Free /\ changed = FALSE
  /\ audio = [gen |-> 0, sel |-> None, stage |-> "done", draining |-> FALSE,
              writes |-> 0, said |-> "none"]
  /\ audioUpdates = <<>> /\ events = <<>>
  /\ shown = [started |-> FALSE, video |-> FALSE, audio |-> "none"]

\* What playback::run does without waiting for the publisher or a decoder.
Proceeds == \/ Announce \/ Withdraw \/ Advance \/ Cancelled \/ Wake
            \/ AudioUpdate \/ VideoUpdate \/ Close

Next == \/ FirstCatalog \/ CatalogOrDecoderFails \/ DecoderOpens \/ CatalogEnds \/ CatalogUpdate
        \/ Proceeds \/ ReaderReads \/ AudioStarts \/ AudioSubmits \/ AudioWrites \/ AudioFails
        \/ Cancel \/ Deliver \/ Tick

\* The tasks are scheduled, run_view reads its events until playback returns,
\* and time passes.
Fairness == WF_vars(Proceeds) /\ WF_vars(Deliver) /\ WF_vars(Tick)

Spec == Init /\ [][Next]_vars /\ Fairness

(***************************************************************************)
(* Properties.                                                             *)
(***************************************************************************)
\* However catalogues, late updates, ends of tracks and failures interleave,
\* what plays is of the current selection: a frame was decoded by the decoder
\* its identity names and no other waits to be shown; only a sound that plays,
\* all of it, paces the video; once read, the reports say what the tasks do;
\* and nothing survives the end.
PlaybackIsCurrent ==
  /\ frame.from = frame.decoder
  /\ \A i \in 1..Len(queue) : queue[i].gen = decoder
  /\ reader \in {0, decoder}
  /\ HasAudio => lease.gen = audio.gen /\ audio.stage = "playing" /\ ~audio.draining
  /\ events = <<>> /\ ~cancelled /\ pc \in {"loop", "select"} =>
       /\ shown.video = (reader # 0)
       /\ audioUpdates = <<>> /\ audio.said # "none" => shown.audio = audio.said
  /\ pc = "ended" => reader = 0 /\ ~reading /\ audio.stage = "done" /\ lease = Free
=============================================================================
