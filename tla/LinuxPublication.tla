--------------------------- MODULE LinuxPublication ---------------------------
(***************************************************************************)
(* One publication of a Linux screen, inside the task that MediaSlot sees  *)
(* as one process: the choice of the source (linux/src/publish/source.rs), *)
(* Publication::run (session.rs) and the capture of system audio           *)
(* (audio.rs).                                                             *)
(*                                                                         *)
(* The capture thread runs the main loop of PipeWire and its realtime      *)
(* callback pushes chunks into a bounded queue that the task reads and     *)
(* encodes; the video capture is a library call that runs, ends or fails.  *)
(* Time is counted in chunks; a chunk is its number and its time.          *)
(***************************************************************************)
EXTENDS Integers, Sequences, FiniteSets, SequencesExt

CONSTANTS
  Displays,    \* what an X11 session may list
  Capacity,    \* QUEUE_CAPACITY
  Tolerance,   \* GAP_TOLERANCE_US
  MaxChunks,   \* bound: chunks captured
  MaxNow,      \* bound: the clock
  MaxPlugs     \* bound: changes of the displays

PublicationAssumption == Capacity \in Nat \ {0} /\ {Tolerance, MaxChunks, MaxNow, MaxPlugs} \subseteq Nat

VARIABLES
  desktop,     \* the session: [kind, displays], and how often it changed
  catalog,     \* SourceCatalog of the page
  task,        \* where Publication::run is, its source and its result
  cancelled,
  audio,       \* where audio::publish is; "off" without system audio
  video,       \* publish_capture: "idle", "running" or "ended"
  portal,      \* what cleanup::Owner has to close
  thread,      \* the capture thread
  started,     \* Startup::started
  startup,     \* what the startup channel holds
  quit,        \* a message to the main loop
  now,
  chunks, nextSequence, closed,   \* QueueState
  notify,      \* Notify and the one Notified future of recv
  previous,    \* Timeline::previous: a set of at most one
  encoded      \* history: the chunks written, each with the epoch it is in

sourceVars  == <<desktop, catalog>>
taskVars    == <<task, cancelled, video, portal>>
startVars   == <<thread, started, startup, quit>>
queueVars   == <<chunks, nextSequence, closed, notify>>
encoderVars == <<previous, encoded>>
vars == <<sourceVars, taskVars, audio, startVars, now, queueVars, encoderVars>>

(***************************************************************************)
(* source.rs: a choice is a display, "screen" or "window" of the portal.   *)
(***************************************************************************)
Portal == {"screen", "window"}
Enumerated == CASE desktop.kind = "wayland" -> [state |-> "portal", choices |-> {}]
                [] desktop.kind = "x11"     -> [state |-> "ready", choices |-> desktop.displays]
                [] desktop.kind = "none"    -> [state |-> "failed", choices |-> {}]

\* SourceCatalog::selected and resolve
Offers(list) == CASE list.state = "portal" -> Portal [] list.state = "ready" -> list.choices
                  [] OTHER -> {}

Refresh ==
  /\ task.at = "new" /\ catalog' \in {Enumerated, [state |-> "failed", choices |-> {}]}
  /\ UNCHANGED <<desktop, taskVars, audio, startVars, now, queueVars, encoderVars>>

Plug ==
  /\ desktop.changes < MaxPlugs
  /\ \E displays \in SUBSET Displays :
       desktop' = [desktop EXCEPT !.displays = displays, !.changes = @ + 1]
  /\ UNCHANGED <<catalog, taskVars, audio, startVars, now, queueVars, encoderVars>>

(***************************************************************************)
(* Publication::run                                                        *)
(***************************************************************************)
Start ==
  /\ task.at = "new"
  /\ \E choice \in Offers(catalog), systemAudio \in BOOLEAN :
       /\ task' = [task EXCEPT !.at = "source", !.choice = choice]
       /\ audio' = IF systemAudio THEN "idle" ELSE "off"
  /\ UNCHANGED <<sourceVars, cancelled, video, portal, startVars, now, queueVars, encoderVars>>

Cancel ==
  /\ task.at \notin {"new", "ended"} /\ ~cancelled /\ cancelled' = TRUE
  /\ UNCHANGED <<sourceVars, task, video, portal, audio, startVars, now, queueVars, encoderVars>>

Ends(result) == task' = [task EXCEPT !.at = "ended", !.result = result]

\* The choice is looked for again; a display that changed is not replaced.
Prepare ==
  /\ task.at = "source" /\ ~cancelled /\ task.choice \in Offers(Enumerated)
  /\ task' = [task EXCEPT !.at = "media"] /\ video' = "running"
  /\ portal' = (task.choice \in Portal)
  /\ audio' = IF audio = "off" THEN "off" ELSE "open"
  /\ UNCHANGED <<sourceVars, cancelled, startVars, now, queueVars, encoderVars>>

Unavailable ==
  /\ task.at = "source" /\ ~cancelled /\ Ends("source")
  /\ UNCHANGED <<sourceVars, cancelled, video, portal, audio, startVars, now, queueVars, encoderVars>>

CancelledEarly ==
  /\ task.at = "source" /\ cancelled /\ Ends("ok")
  /\ UNCHANGED <<sourceVars, cancelled, video, portal, audio, startVars, now, queueVars, encoderVars>>

\* The media future is dropped: the capture thread is told to quit and joined.
LeavesMedia(result) ==
  /\ task' = [task EXCEPT !.at = "join", !.result = result] /\ video' = "ended"
  /\ quit' = (quit \/ thread \notin {"none", "gone"})
  /\ audio' = IF audio = "off" THEN "off" ELSE "dropped"

MediaEnds ==
  /\ task.at = "media"
  /\ \/ cancelled /\ LeavesMedia("ok")
     \/ ~cancelled /\ audio = "failed" /\ LeavesMedia("media")
     \/ ~cancelled /\ video = "running" /\ LeavesMedia("media")
     \/ ~cancelled /\ video = "ended" /\ audio = "off" /\ LeavesMedia("ok")
  /\ UNCHANGED <<sourceVars, cancelled, portal, thread, started, startup, now, queueVars, encoderVars>>

\* try_join goes on with the audio.
VideoEnds ==
  /\ task.at = "media" /\ video = "running" /\ video' = "ended"
  /\ UNCHANGED <<sourceVars, task, cancelled, portal, audio, startVars, now, queueVars, encoderVars>>

Joined == thread \in {"none", "gone"}
CleanUp ==
  /\ task.at = "join" /\ Joined /\ portal' = FALSE
  /\ Ends(task.result) \/ (portal /\ Ends("cleanup"))
  /\ UNCHANGED <<sourceVars, cancelled, video, audio, startVars, now, queueVars, encoderVars>>

(***************************************************************************)
(* audio::publish: Capture::open, then recv and write for ever.            *)
(***************************************************************************)
TaskRuns == task.at = "media" /\ ~cancelled

Open ==
  /\ TaskRuns /\ audio = "open"
  /\ \/ audio' = "ready" /\ thread' = "starting"
     \/ audio' = "failed" /\ UNCHANGED thread
  /\ UNCHANGED <<sourceVars, taskVars, started, startup, quit, now, queueVars, encoderVars>>

\* The answer of the thread, or STARTUP_TIMEOUT.
Ready ==
  /\ TaskRuns /\ audio = "ready"
  /\ \/ startup = "ok" /\ audio' = "arm"
     \/ startup \in {"error", "none"} /\ audio' = "failed"
  /\ UNCHANGED <<sourceVars, taskVars, startVars, now, queueVars, encoderVars>>

\* PcmQueue::recv makes its Notified future before it looks into the queue:
\* from then on it is woken by notify_waiters, too.
ArmedNow  == "armed"
Arm ==
  /\ TaskRuns /\ audio = "arm" /\ audio' = "look" /\ notify' = [notify EXCEPT !.future = ArmedNow]
  /\ UNCHANGED <<sourceVars, taskVars, startVars, now, chunks, nextSequence, closed, encoderVars>>

\* Timeline::discontinuous and the writes to the encoder.
LateOnly(c) == \E p \in previous : c.at > p.at + 1 + Tolerance
Discontinuous(c) == \E p \in previous : c.sequence # p.sequence + 1 \/ c.at > p.at + 1 + Tolerance

Epoch == IF encoded = <<>> THEN 0 ELSE Last(encoded).epoch
Look ==
  /\ TaskRuns /\ audio = "look" /\ notify' = [notify EXCEPT !.future = IF chunks = <<>> THEN @ ELSE "none"]
  /\ \/ /\ chunks # <<>> /\ chunks' = Tail(chunks) /\ previous' = {Head(chunks)}
        /\ \/ /\ audio' = "arm"
              /\ encoded' = Append(encoded, [sequence |-> Head(chunks).sequence, at |-> Head(chunks).at,
                                             epoch |-> IF Discontinuous(Head(chunks)) THEN Epoch + 1 ELSE Epoch])
           \/ audio' = "failed" /\ UNCHANGED encoded
     \/ chunks = <<>> /\ closed /\ audio' = "failed" /\ UNCHANGED <<chunks, encoderVars>>
     \/ chunks = <<>> /\ ~closed /\ audio' = "wait" /\ UNCHANGED <<chunks, encoderVars>>
  /\ UNCHANGED <<sourceVars, taskVars, startVars, now, nextSequence, closed>>

Wait ==
  /\ TaskRuns /\ audio = "wait"
  /\ IF notify.future = "woken" \/ notify.permit
     THEN audio' = "arm" /\ notify' = [permit |-> FALSE, future |-> "none"]
     ELSE audio' = "asleep" /\ notify' = [notify EXCEPT !.future = "polled"]
  /\ UNCHANGED <<sourceVars, taskVars, startVars, now, chunks, nextSequence, closed, encoderVars>>

Wakes ==
  /\ TaskRuns /\ audio = "asleep" /\ notify.future = "woken"
  /\ audio' = "arm" /\ notify' = [notify EXCEPT !.future = "none"]
  /\ UNCHANGED <<sourceVars, taskVars, startVars, now, chunks, nextSequence, closed, encoderVars>>

(***************************************************************************)
(* The capture thread: run_pipewire and finish_capture.                    *)
(***************************************************************************)
Answers(value) == startup' = IF startup = "none" THEN value ELSE startup

\* state_changed to Streaming
Streams ==
  /\ thread \in {"starting", "running"} /\ thread' = "running" /\ started' = TRUE /\ Answers("ok")
  /\ UNCHANGED <<sourceVars, taskVars, audio, quit, now, queueVars, encoderVars>>

\* The setup fails, the stream reports an error, or the main loop is told to quit.
LoopEnds ==
  /\ thread \in {"starting", "running"} /\ thread' = "finish"
  /\ UNCHANGED <<sourceVars, taskVars, audio, started, startup, quit, now, queueVars, encoderVars>>

FinishCapture ==
  /\ thread = "finish" /\ thread' = "gone"
  /\ IF started THEN /\ closed' = TRUE /\ UNCHANGED startup
                     /\ notify' = [notify EXCEPT !.future = IF @ = "none" THEN @ ELSE "woken"]
                ELSE /\ Answers("error") /\ UNCHANGED <<closed, notify>>
  /\ UNCHANGED <<sourceVars, taskVars, audio, started, quit, now, chunks, nextSequence, encoderVars>>

\* The process callback with a valid chunk: PcmQueue::push and notify_one.
Process ==
  /\ thread \in {"starting", "running"} /\ nextSequence < MaxChunks /\ nextSequence' = nextSequence + 1
  /\ chunks' = Append(IF Len(chunks) = Capacity THEN Tail(chunks) ELSE chunks,
                      [sequence |-> nextSequence, at |-> now])
  /\ notify' = IF notify.future = "polled" THEN [notify EXCEPT !.future = "woken"]
               ELSE [notify EXCEPT !.permit = TRUE]
  /\ UNCHANGED <<sourceVars, taskVars, audio, startVars, now, closed, encoderVars>>

Tick ==
  /\ now < MaxNow /\ now' = now + 1
  /\ UNCHANGED <<sourceVars, taskVars, audio, startVars, queueVars, encoderVars>>

Init ==
  /\ \E kind \in {"wayland", "x11", "none"} : desktop = [kind |-> kind, displays |-> Displays, changes |-> 0]
  /\ catalog = [state |-> "unloaded", choices |-> {}]
  /\ task = [at |-> "new", choice |-> "screen", result |-> "none"] /\ cancelled = FALSE
  /\ audio = "off" /\ video = "idle" /\ portal = FALSE
  /\ thread = "none" /\ started = FALSE /\ startup = "none" /\ quit = FALSE /\ now = 0
  /\ chunks = <<>> /\ nextSequence = 0 /\ closed = FALSE /\ notify = [permit |-> FALSE, future |-> "none"]
  /\ previous = {} /\ encoded = <<>>

Runs      == CancelledEarly \/ CleanUp \/ (MediaEnds /\ (cancelled \/ audio = "failed"))
AudioRuns == Open \/ Ready \/ Arm \/ Look \/ Wait \/ Wakes
Next == \/ Refresh \/ Plug \/ Start \/ Cancel \/ Prepare \/ Unavailable \/ Runs \/ MediaEnds \/ VideoEnds \/ AudioRuns
        \/ Streams \/ LoopEnds \/ FinishCapture \/ Process \/ Tick

\* The task and the thread run on, and the main loop handles its messages; what
\* the desktop, the user and the sound server do may never happen, an answer to
\* the enumeration of sources included.
Fairness == /\ WF_vars(Runs) /\ WF_vars(AudioRuns)
            /\ WF_vars(FinishCapture) /\ WF_vars(quit /\ LoopEnds)

Spec == Init /\ [][Next]_vars /\ Fairness

(***************************************************************************)
(* Properties.                                                             *)
(***************************************************************************)
\* Chunks that the encoder gets in one epoch are all that were captured, in order
\* and without a silence longer than tolerated, though the queue drops the oldest;
\* and nothing of a publication outlives its task: not its thread and callback,
\* nor the grant of the portal.
PublicationIsWhole ==
  /\ \A i \in 1..Len(encoded) - 1 :
       encoded[i].epoch = encoded[i + 1].epoch =>
         /\ encoded[i + 1].sequence = encoded[i].sequence + 1
         /\ encoded[i + 1].at <= encoded[i].at + 1 + Tolerance
  /\ Len(chunks) <= Capacity
  /\ task.at = "ended" => thread \in {"none", "gone"} /\ ~portal
=============================================================================
