--------------------------- MODULE WindowsPlayback ---------------------------
(***************************************************************************)
(* Playback of one remote screen on Windows (playback.rs, playback/sync.rs *)
(* and playback/audio.rs), which WindowsRuntime has as one task.           *)
(*                                                                         *)
(* Decoded frames wait in a scheduler for the position of the sound.  The  *)
(* audio task estimates that position with every write and owns the clock  *)
(* it writes to; a replaced task is aborted, not joined.  An estimate      *)
(* expires by age or when its buffer is played out, and without one the    *)
(* newest frame is shown at once.  One unit of time is about 100 ms; the   *)
(* estimate is kept as the position it has reached, which every tick       *)
(* moves, with the ticks it is good for.                                   *)
(***************************************************************************)
EXTENDS Integers, Sequences, FiniteSets

CONSTANTS
  Catalogs,     \* what a publisher announces: [video, audio]
  MaxCatalogs,  \* bound: catalogues in a run
  MaxFrames,    \* bound: frames the readers decode
  Top,          \* bound: the last timestamp
  VideoFrames,  \* MAX_VIDEO_FRAMES
  Residence,    \* MAX_VIDEO_RESIDENCE, in ticks
  LateLimit,    \* VIDEO_LATE_LIMIT
  ClockAge,     \* MAX_CLOCK_AGE
  EventCap      \* capacity of the view events

WindowsPlaybackAssumption ==
  {MaxCatalogs, MaxFrames, Top, VideoFrames, Residence, LateLimit, ClockAge, EventCap}
    \subseteq Nat \ {0}

VARIABLES
  pc,           \* where playback::run is
  cancelled,    \* the watch that stops the view
  catalogs,     \* catalogues read so far
  selection,
  syncAllowed, initialAudio,
  decoder,      \* decoder_generation
  ready,        \* decoder_ready
  lastRead,     \* last_timestamp_us
  frame,        \* the frames watch: the decoder of the last frame shown
  reader,       \* the generation of the VideoTask, 0: None
  reading, decoded, videoUpdates,
  queue, lastShown, deadline,   \* VideoScheduler, and what the select waits for
  clock,        \* AudioAnchor
  changed,      \* AudioClockReader::changed would return
  audio,        \* the audio Task
  events,       \* to the runtime
  shown         \* what the runtime was told

ownVars   == <<cancelled, catalogs, selection, initialAudio>>
frameVars == <<decoder, ready, lastRead, frame, syncAllowed>>
readVars  == <<reader, reading, decoded, videoUpdates>>
schedVars == <<queue, lastShown>>
clockVars == <<clock, changed>>
outVars   == <<events, shown>>
vars == <<pc, ownVars, frameVars, readVars, schedVars, deadline, clockVars, audio, outVars>>

Unset       == {}            \* an Option is a set of at most one value
Room        == Len(events) < EventCap
Say(e)      == Room /\ events' = Append(events, e)
Playable(a) == a \notin {"none", "unsupported"}
HasH264(c)  == c.video # "none"

(***************************************************************************)
(* AudioAnchor and VideoScheduler.                                         *)
(***************************************************************************)
Anchors == {[at |-> p, left |-> l] : p \in 0..Top, l \in 1..ClockAge}

Master == IF syncAllowed THEN clock ELSE Unset

EndlessWaits(f) == \E a \in Master : f.ts > a.at
Waits(f)        == f.age < Residence /\ EndlessWaits(f)
Dropped(f)      == f.age >= Residence \/ \E a \in Master : a.at - f.ts > LateLimit

\* advance takes the frames before the first that is early.
Taken == CHOOSE n \in 0..Len(queue) :
           /\ \A i \in 1..n : ~Waits(queue[i])
           /\ n < Len(queue) => Waits(queue[n + 1])

Selected == {i \in 1..Taken : ~Dropped(queue[i])}

Least(S)         == CHOOSE x \in S : \A y \in S : x <= y
UntilDue(rest)   == {IF rest = <<>> THEN 0 ELSE Least({rest[1].ts - a.at, Residence - rest[1].age})
                     : a \in IF rest = <<>> THEN {} ELSE Master}
DeadlineOf(rest) == {Least({rest[1].ts - a.at, Residence - rest[1].age, a.left})
                     : a \in IF rest = <<>> THEN {} ELSE Master}

Reset == queue' = <<>> /\ lastShown' = Unset

\* push: frames too many or too far behind make room.
RECURSIVE RoomFor(_, _)
RoomFor(q, ts) ==
  IF q # <<>> /\ (Len(q) >= VideoFrames \/ ts - q[1].ts > Residence)
  THEN RoomFor(Tail(q), ts) ELSE q

Push(q, last, f) ==
  IF \/ \E t \in last : f.ts <= t
     \/ q # <<>> /\ f.ts <= q[Len(q)].ts
  THEN q ELSE Append(RoomFor(q, f.ts), f)

(***************************************************************************)
(* The tasks that playback::run owns.                                      *)
(***************************************************************************)
StopReader     == reader' = 0 /\ reading' = FALSE
StartReader(g) == reader' = g /\ reading' = TRUE

\* Task::spawn, with a clock of its own; dropping the task before it aborts it.
SpawnAudio(sel) ==
  /\ audio' = [sel |-> sel, stage |-> "new", continuous |-> TRUE, dropped |-> FALSE]
  /\ clock' = Unset /\ changed' = FALSE

(***************************************************************************)
(* playback::run up to its loop.                                           *)
(***************************************************************************)
FirstCatalog ==
  /\ pc = "catalog" /\ ~cancelled /\ catalogs' = 1
  /\ \E c \in Catalogs :
       /\ selection' = c /\ initialAudio' = Playable(c.audio)
       /\ pc' = IF HasH264(c) THEN "opening" ELSE "closing"
  /\ UNCHANGED <<cancelled, frameVars, readVars, schedVars, deadline, clockVars, audio, outVars>>

CatalogOrDecoderFails ==
  /\ pc \in {"catalog", "opening"} /\ pc' = "closing"
  /\ UNCHANGED <<ownVars, frameVars, readVars, schedVars, deadline, clockVars, audio, outVars>>

\* The first decoder, or the one after a change of the catalogue.
DecoderOpens ==
  /\ pc = "opening" /\ ~cancelled /\ pc' = "loop"
  /\ decoder' = decoder + 1 /\ ready' = FALSE /\ lastRead' = Unset
  /\ StartReader(decoder') /\ Reset
  /\ syncAllowed' = initialAudio
  /\ IF decoder = 0 THEN SpawnAudio(selection.audio) ELSE UNCHANGED <<audio, clockVars>>
  /\ UNCHANGED <<ownVars, frame, decoded, videoUpdates, deadline, outVars>>

(***************************************************************************)
(* The loop: advance, show, wait.                                          *)
(***************************************************************************)
Show(f) ==
  /\ lastShown' = {f.ts} /\ frame' = f.gen /\ ready' = TRUE
  /\ pc' = IF ready THEN "select" ELSE "ready"

Advance ==
  /\ pc = "loop"
  /\ queue' = SubSeq(queue, Taken + 1, Len(queue))
  /\ deadline' = DeadlineOf(queue')
  /\ IF Selected # {}
     THEN \/ \E i \in Selected : (\A j \in Selected : j <= i) /\ Show(queue[i])
          \/ pc' = "closing" /\ UNCHANGED <<lastShown, frame, ready>>  \* from_video fails
     ELSE pc' = "select" /\ UNCHANGED <<lastShown, frame, ready>>
  /\ UNCHANGED <<ownVars, decoder, lastRead, syncAllowed, readVars, clockVars, audio, outVars>>

\* send_unless_cancelled
DecoderReady ==
  /\ pc = "ready"
  /\ \/ cancelled /\ pc' = "closing" /\ UNCHANGED events
     \/ ~cancelled /\ Say([kind |-> "ready", value |-> TRUE]) /\ pc' = "select"
  /\ UNCHANGED <<ownVars, frameVars, readVars, schedVars, deadline, clockVars, audio, shown>>

Cancelled ==
  /\ cancelled /\ pc \in {"catalog", "opening", "select"} /\ pc' = "closing"
  /\ UNCHANGED <<ownVars, frameVars, readVars, schedVars, deadline, clockVars, audio, outVars>>

\* The select is biased: an arm is taken when none before it is ready.
Arm(n) == pc = "select" /\ ~cancelled /\ (n > 2 => 0 \notin deadline) /\ (n > 3 => ~changed)

Wake ==
  /\ pc' = "loop"
  /\ \/ Arm(2) /\ 0 \in deadline /\ UNCHANGED changed
     \/ Arm(3) /\ changed /\ changed' = FALSE
     \/ Arm(4) /\ UNCHANGED changed                 \* reports.tick
  /\ UNCHANGED <<ownVars, frameVars, readVars, schedVars, deadline, clock, audio, outVars>>

CatalogEnds ==
  /\ Arm(4) /\ pc' = "closing"
  /\ UNCHANGED <<ownVars, frameVars, readVars, schedVars, deadline, clockVars, audio, outVars>>

CatalogUpdate ==
  /\ Arm(4) /\ catalogs < MaxCatalogs /\ catalogs' = catalogs + 1
  /\ \E next \in Catalogs :
       \/ ~HasH264(next) /\ pc' = "closing"
          /\ UNCHANGED <<selection, schedVars, audio, clockVars, reader, reading>>
       \/ /\ HasH264(next) /\ selection' = next
          /\ IF next.audio # selection.audio THEN Reset /\ SpawnAudio(next.audio)
             ELSE UNCHANGED <<schedVars, audio, clockVars>>
          /\ IF next.video = selection.video THEN pc' = "loop" /\ UNCHANGED <<reader, reading>>
             ELSE pc' = "opening" /\ StopReader
  /\ UNCHANGED <<cancelled, initialAudio, frameVars, decoded, videoUpdates, deadline, outVars>>

\* accept_video_update
CurrentVideo(update) == update.gen = decoder

Regresses(u) == \E t \in lastRead : u.ts < t

Accept(u) ==
  /\ pc' = "loop" /\ lastRead' = {u.ts}
  /\ LET f == [ts |-> u.ts, age |-> 0, gen |-> u.gen]
     IN  IF Regresses(u)
         THEN queue' = <<f>> /\ lastShown' = Unset /\ syncAllowed' = FALSE
         ELSE queue' = Push(queue, lastShown, f) /\ UNCHANGED <<lastShown, syncAllowed>>

VideoUpdate ==
  /\ Arm(4) /\ videoUpdates # <<>> /\ videoUpdates' = Tail(videoUpdates)
  /\ LET u == Head(videoUpdates)
     IN  \/ ~CurrentVideo(u) /\ pc' = "loop"
            /\ UNCHANGED <<schedVars, lastRead, syncAllowed>>
         \/ CurrentVideo(u) /\ u.event = "frame" /\ Accept(u)
         \/ CurrentVideo(u) /\ u.event \in {"ended", "failed"} /\ pc' = "closing"
            /\ UNCHANGED <<schedVars, lastRead, syncAllowed>>
  /\ UNCHANGED <<ownVars, decoder, ready, frame, reader, reading, decoded, deadline, clockVars, audio, outVars>>

\* The reader is joined, the audio task dropped, and the end is reported.
Close ==
  /\ pc = "closing" /\ pc' = "ended" /\ StopReader
  /\ audio' = [audio EXCEPT !.stage = "done"] /\ clock' = Unset /\ changed' = FALSE
  /\ \/ cancelled /\ UNCHANGED events
     \/ ~cancelled /\ Say([kind |-> "ended", value |-> TRUE])
  /\ UNCHANGED <<ownVars, frameVars, decoded, videoUpdates, schedVars, deadline, shown>>

(***************************************************************************)
(* The reader and the audio task.                                          *)
(***************************************************************************)
Read(event) ==
  /\ reading /\ videoUpdates = <<>>
  /\ \E ts \in IF event = "frame" THEN 0..Top ELSE {0} :
       videoUpdates' = <<[gen |-> reader, event |-> event, ts |-> ts]>>
  /\ reading' = (event = "frame")
  /\ decoded' = IF event = "frame" THEN decoded + 1 ELSE decoded
  /\ UNCHANGED <<pc, ownVars, frameVars, reader, schedVars, deadline, clockVars, audio, outVars>>

ReaderReads == (decoded < MaxFrames /\ Read("frame")) \/ Read("ended") \/ Read("failed")

Says(phase, stage) ==
  Say([kind |-> "audio", value |-> phase]) /\ audio' = [audio EXCEPT !.stage = stage]

\* The task returns and its clock writer is dropped.
SaysLast(phase) == Says(phase, "done") /\ clock' = Unset /\ changed' = TRUE

AudioReports ==
  /\ \/ audio.stage = "new" /\ Says("Pending", "selected") /\ UNCHANGED clockVars
     \/ /\ audio.stage = "selected"
        /\ \/ audio.sel = "none" /\ SaysLast("NotPublished")
           \/ audio.sel = "unsupported" /\ SaysLast("Failed")
           \/ Playable(audio.sel) /\ Says("TrackSelected", "opening") /\ UNCHANGED clockVars
     \/ audio.stage = "opening" /\ Says("Decoded", "decoded") /\ UNCHANGED clockVars
     \/ audio.stage = "accepted" /\ Says("Writing", "writing") /\ UNCHANGED clockVars
     \/ audio.stage = "writing" /\ Says("CallbackConsumed", "consumed") /\ UNCHANGED clockVars
     \/ audio.stage \in {"opening", "decoded", "writing", "consumed"} /\ SaysLast("Failed")
  /\ UNCHANGED <<pc, ownVars, frameVars, readVars, schedVars, deadline, shown>>

\* AudioTimeline::observe and AudioOutputTrust::observe: after a jump of the
\* source the task has no estimate any more, after refused samples none until
\* the sink has played out what it held.
Trusted(accepted, drops, drained) == accepted /\ ~drops /\ (audio.dropped => drained)
Estimates(trusted)                == IF audio'.continuous /\ trusted THEN Anchors ELSE {}

AudioWrites ==
  /\ audio.stage \in {"decoded", "writing", "consumed"}
  /\ \E broken, accepted, drops, drained \in BOOLEAN :
       LET trusted == Trusted(accepted, drops, drained)
       IN  /\ audio' = [audio EXCEPT
                !.stage = IF accepted /\ @ = "decoded" THEN "accepted" ELSE @,
                !.continuous = @ /\ ~broken,
                !.dropped = drops \/ (@ /\ ~trusted)]
           /\ \/ clock' = Unset
              \/ \E a \in Estimates(trusted) : clock' = {a}
  /\ changed' = TRUE
  /\ UNCHANGED <<pc, ownVars, frameVars, readVars, schedVars, deadline, outVars>>

(***************************************************************************)
(* The runtime and the wall clock.                                         *)
(***************************************************************************)
Cancel ==
  /\ ~cancelled /\ pc # "ended" /\ cancelled' = TRUE
  /\ UNCHANGED <<pc, catalogs, selection, initialAudio, frameVars, readVars, schedVars, deadline,
                 clockVars, audio, outVars>>

Deliver ==
  /\ events # <<>> /\ ~cancelled /\ events' = Tail(events)
  /\ shown' = [shown EXCEPT ![Head(events).kind] = Head(events).value]
  /\ UNCHANGED <<pc, ownVars, frameVars, readVars, schedVars, deadline, clockVars, audio>>

Tick ==
  /\ queue' = [i \in 1..Len(queue) |-> [queue[i] EXCEPT !.age = IF @ < Residence THEN @ + 1 ELSE @]]
  /\ clock' = {[at |-> a.at + 1, left |-> a.left - 1] : a \in {b \in clock : b.left > 1}}
  /\ deadline' = {IF d > 0 THEN d - 1 ELSE 0 : d \in deadline}
  /\ UNCHANGED <<pc, ownVars, frameVars, readVars, lastShown, changed, audio, outVars>>

Init ==
  /\ pc = "catalog" /\ cancelled = FALSE /\ catalogs = 0
  /\ selection = [video |-> "none", audio |-> "none"] /\ initialAudio = FALSE /\ syncAllowed = FALSE
  /\ decoder = 0 /\ ready = FALSE /\ lastRead = Unset /\ frame = 0
  /\ reader = 0 /\ reading = FALSE /\ decoded = 0 /\ videoUpdates = <<>>
  /\ queue = <<>> /\ lastShown = Unset /\ deadline = {} /\ clock = Unset /\ changed = FALSE
  /\ audio = [sel |-> "none", stage |-> "done", continuous |-> TRUE, dropped |-> FALSE]
  /\ events = <<>> /\ shown = [ready |-> FALSE, audio |-> "none", ended |-> FALSE]

\* What playback::run does without waiting for the publisher or a decoder.
Proceeds == Advance \/ DecoderReady \/ Cancelled \/ Wake \/ VideoUpdate \/ Close

Next == \/ FirstCatalog \/ CatalogOrDecoderFails \/ DecoderOpens \/ CatalogEnds \/ CatalogUpdate
        \/ Proceeds \/ ReaderReads \/ AudioReports \/ AudioWrites \/ Cancel \/ Deliver \/ Tick

\* The task is scheduled, the runtime serves its events until it stops the view,
\* and time passes.
Fairness == WF_vars(Proceeds) /\ WF_vars(Deliver) /\ WF_vars(Tick)

Spec == Init /\ [][Next]_vars /\ Fairness

(***************************************************************************)
(* Properties.                                                             *)
(***************************************************************************)
\* No wake-up is missed: a frame that waits is early against an estimate that
\* still holds, though estimates expire, move and are withdrawn while the select
\* sleeps.  Frames wait in order, after what was shown, bounded in number and
\* span, and are of the current decoder; the sound leads the video only while
\* neither has jumped; and the view is ready on a frame of its decoder only.
PresentationIsTimely ==
  /\ pc = "select" /\ queue # <<>> /\ ~changed /\ 0 \notin deadline => Waits(queue[1])
  /\ \A i, j \in 1..Len(queue) : i < j => queue[i].ts < queue[j].ts
  /\ \A i \in 1..Len(queue) : /\ queue[i].gen = decoder
                              /\ \A t \in lastShown : queue[i].ts > t
  /\ Len(queue) <= VideoFrames
  /\ queue # <<>> => queue[Len(queue)].ts - queue[1].ts <= Residence
  /\ Master # Unset => initialAudio /\ audio.continuous /\ ~audio.dropped /\ audio.stage # "done"
  /\ ready /\ pc # "opening" => frame = decoder
  /\ pc = "ended" => reader = 0 /\ ~reading /\ audio.stage = "done" /\ clock = Unset
=============================================================================
