------------------------- MODULE WindowsPublication -------------------------
(***************************************************************************)
(* One screen after another published from Windows: the catalogue of       *)
(* sources and MediaSnapshot (windows/src/media.rs), the handlers that     *)
(* start and stop it (runtime.rs), and the system audio captured beside    *)
(* the video (audio/mod.rs, audio/wasapi.rs).                              *)
(*                                                                         *)
(* WindowsRuntime has the publication as one task.  Inside, video and      *)
(* audio are two futures of that task, so a step of audio that blocks (the *)
(* join of the WASAPI thread) holds up both; the thread sends packets into *)
(* a queue that drops when it is full.  A packet is its number.            *)
(***************************************************************************)
EXTENDS Integers, Sequences, FiniteSets, SequencesExt, FiniteSetsExt

CONSTANTS
  Sources,      \* what Windows may list: [kind, id, size]
  Mixes,        \* mix formats GetMixFormat may return
  Capacity,     \* CAPTURE_QUEUE_CAPACITY
  MaxGen,       \* bound: publications
  MaxPackets,   \* bound: packets of the device
  MaxPlugs,     \* bound: changes of the desktop
  MaxFailures   \* bound: failures of the capture

WindowsPublicationAssumption ==
  Capacity \in Nat \ {0} /\ {MaxGen, MaxPackets, MaxPlugs, MaxFailures} \subseteq Nat

VARIABLES
  desktop,      \* the sources Windows has, how often they changed
  catalog,      \* CaptureSourceCatalogSnapshot
  wanted,       \* history: the source the user picked, or the first default
  media,        \* MediaSnapshot: phase, generation, policy and source
  shownAudio,   \* AudioSnapshot::phase
  step,         \* the await a handler of the runtime is at
  task,         \* the publication task: "none", "running", "aborted", "closing", "ended"
  result,       \* of its video
  status,       \* the watched StatusUpdate and whether it was read
  audio,        \* where audio::publish is
  normalizer, gap, needsAnchor, reportedSilent, restarting,
  thread,       \* the WASAPI thread
  format,       \* of its stream
  stop,         \* Capture::stop
  queue,        \* Capture::receiver
  droppedPacket,
  made,         \* packets of the device
  failures,
  epoch         \* history: the packets of the producer's epoch, its anchor first

desktopVars == <<desktop, catalog, wanted>>
ownerVars   == <<media, shownAudio, step, task, result>>
audioVars   == <<audio, normalizer, gap, needsAnchor, reportedSilent, restarting>>
threadVars  == <<thread, format, stop, queue, droppedPacket, made, failures>>
vars == <<desktopVars, ownerVars, status, audioVars, threadVars, epoch>>

(***************************************************************************)
(* parse_mix_format, MixFormat::validate and decode_sample                 *)
(***************************************************************************)
Encodings(mix) ==
  CASE mix.tag = "float" -> IF mix.bits = 32 /\ mix.valid = 32 THEN {[of |-> "float", bytes |-> 4]} ELSE {}
    [] mix.tag = "pcm" /\ mix.bits = 8 -> IF mix.valid = 8 THEN {[of |-> "unsigned", bytes |-> 1]} ELSE {}
    [] mix.tag = "pcm" /\ mix.bits \in {16, 24, 32} ->
         IF mix.valid \in 1 .. mix.bits
         THEN {[of |-> "signed", bytes |-> mix.bits \div 8, valid |-> mix.valid]} ELSE {}
    [] OTHER -> {}

Validate(f) == f.rate > 0 /\ f.channels \in 1 .. 2 /\ f.align >= f.encoding.bytes * f.channels

\* The formats of a mix: none or one.
Parse(mix) ==
  {f \in {[encoding |-> e, rate |-> mix.rate, channels |-> mix.channels, align |-> mix.align] :
            e \in Encodings(mix)} : Validate(f)}

\* decode and remix_to_stereo have a branch for every frame of the format
Decodes(f) ==
  /\ Validate(f) /\ f.channels \in {1, 2}
  /\ \/ f.encoding = [of |-> "float", bytes |-> 4] \/ f.encoding = [of |-> "unsigned", bytes |-> 1]
     \/ /\ f.encoding.of = "signed" /\ f.encoding.bytes \in 2 .. 4
        /\ f.encoding.valid \in 1 .. 8 * f.encoding.bytes

(***************************************************************************)
(* CaptureSourceCatalogSnapshot                                            *)
(***************************************************************************)
Displays(list) == {s \in list : s.kind = "display"}
First(list) == IF Displays(list) # {} THEN Displays(list) ELSE list

Lost == [catalog EXCEPT !.selected = {}, !.invalidated = TRUE]

\* A window is known by its id, a display by all it shows.
SameSource(a, b) == IF a.kind = "window" THEN a.kind = b.kind /\ a.id = b.id ELSE a = b

Filled(list) == IF list = {} THEN "empty" ELSE "ready"

\* refreshed: the first list selects a default once; a selection that is gone
\* is not replaced.
Refreshed(list) ==
  LET same == {s \in list : \E old \in catalog.selected : SameSource(old, s)} IN
  IF catalog.selected = {} /\ ~catalog.invalidated /\ list # {}
  THEN {[catalog EXCEPT !.phase = Filled(list), !.choices = list, !.selected = {s}, !.invalidated = FALSE] : s \in First(list)}
  ELSE {[catalog EXCEPT !.phase = Filled(list), !.choices = list, !.selected = same,
           !.invalidated = catalog.invalidated \/ (catalog.selected # {} /\ same = {})]}

Free == media.phase \in {"idle", "failed"}

Plug ==
  /\ desktop.changes < MaxPlugs
  /\ \E list \in SUBSET Sources :
       /\ \A a, b \in list : a.id = b.id => a = b
       /\ desktop' = [list |-> list, changes |-> desktop.changes + 1]
  /\ UNCHANGED <<catalog, wanted, ownerVars, status, audioVars, threadVars, epoch>>

\* combine_capture_sources: without the windows the displays remain.
Listings == {desktop.list, Displays(desktop.list)}

BeginRefresh == catalog' = [catalog EXCEPT !.phase = "loading"]

\* handle_command, RefreshCaptureSources; Listed ends it
RefreshSources ==
  /\ step = "none" /\ Free /\ BeginRefresh /\ step' = "listing"
  /\ UNCHANGED <<desktop, wanted, media, shownAudio, task, result, status, audioVars, threadVars, epoch>>

Default(list) == IF wanted = {} THEN list.selected ELSE wanted

\* enumerate_capture_sources; with a source to share the handler goes on.
Enumerated(goesOn) ==
  \/ \E list \in Listings : \E after \in Refreshed(list) :
       /\ catalog' = after /\ wanted' = Default(after) /\ step' = IF after.selected = {} THEN "none" ELSE goesOn
  \/ /\ catalog' = [catalog EXCEPT !.phase = "failed"] /\ step' = "none" /\ UNCHANGED wanted

Listed ==
  /\ step = "listing" /\ Enumerated("none")
  /\ UNCHANGED <<desktop, media, shownAudio, task, result, status, audioVars, threadVars, epoch>>

Select ==
  /\ step = "none" /\ Free /\ catalog.phase = "ready"
  /\ \E s \in catalog.choices :
       catalog' = [catalog EXCEPT !.selected = {s}, !.invalidated = FALSE] /\ wanted' = {s}
  /\ UNCHANGED <<desktop, ownerVars, status, audioVars, threadVars, epoch>>

SetPolicy ==
  /\ step = "none" /\ Free
  /\ media' = [media EXCEPT !.policy = IF @ = "compatible" THEN "qhd" ELSE "compatible"]
  /\ UNCHANGED <<desktopVars, shownAudio, step, task, result, status, audioVars, threadVars, epoch>>

(***************************************************************************)
(* start_publication                                                       *)
(***************************************************************************)
Share ==
  /\ step = "none" /\ Free /\ media.gen < MaxGen /\ BeginRefresh /\ step' = "share listing"
  /\ UNCHANGED <<desktop, wanted, media, shownAudio, task, result, status, audioVars, threadVars, epoch>>

ShareListed ==
  /\ step = "share listing"
  /\ Enumerated("configure")
  /\ media' = CASE step' = "configure" -> [media EXCEPT !.phase = "preparing", !.gen = @ + 1]
                [] step' = "none" /\ catalog'.phase = "failed" -> media
                [] OTHER -> [media EXCEPT !.phase = "failed"]
  /\ shownAudio' = IF step' = "configure" THEN "preparing" ELSE shownAudio
  /\ UNCHANGED <<desktop, task, result, status, audioVars, threadVars, epoch>>

\* VideoEncodingPolicy::resolve
Resolves(policy, size) == (policy = "compatible" /\ size = "small") \/ (policy = "qhd" /\ size = "qhd")

Configured ==
  /\ step = "configure" /\ step' = "none"
  /\ \E now \in desktop.list :
       /\ \E s \in catalog.selected : SameSource(s, now) /\ Resolves(media.policy, now.size)
       /\ media' = [media EXCEPT !.phase = "sharing", !.source = {now}]
  /\ task' = "running" /\ audio' = "start" /\ restarting' = FALSE
  /\ UNCHANGED <<desktopVars, shownAudio, result, status, normalizer, gap, needsAnchor,
       reportedSilent, threadVars, epoch>>

\* prepare or configure fails; a source that is gone takes the selection with it
ConfigureFails ==
  /\ step = "configure" /\ step' = "none"
  /\ media' = [media EXCEPT !.phase = "failed"] /\ shownAudio' = "idle"
  /\ catalog' \in {catalog, Lost}
  /\ catalog' = Lost => ~\E now \in desktop.list : \E s \in catalog.selected : SameSource(s, now)
  /\ UNCHANGED <<desktop, wanted, task, result, status, audioVars, threadVars, epoch>>

(***************************************************************************)
(* StopSharing, the report of the task, and its audio                      *)
(***************************************************************************)
StopSharing ==
  /\ step = "none" /\ media.phase = "sharing"
  /\ media' = [media EXCEPT !.phase = "stopping"] /\ shownAudio' = "stopping"
  /\ step' = "stopping"
  /\ task' = IF task = "running" THEN "aborted" ELSE task
  /\ UNCHANGED <<desktopVars, result, status, audioVars, threadVars, epoch>>

Stopped ==
  /\ step = "stopping" /\ step' = "none" /\ task \in {"none", "ended"} /\ task' = "none"
  /\ media' = [media EXCEPT !.phase = "idle", !.source = {}] /\ shownAudio' = "idle" /\ result' = "ok"
  /\ UNCHANGED <<desktopVars, status, audioVars, threadVars, epoch>>

OnEnded ==
  /\ step = "none" /\ task = "ended" /\ task' = "none" /\ result' = "ok"
  /\ media' = [media EXCEPT !.phase = IF result = "ok" THEN "idle" ELSE "failed", !.source = {}]
  /\ shownAudio' = "idle" /\ catalog' = IF result = "source" THEN Lost ELSE catalog
  /\ UNCHANGED <<desktop, wanted, step, status, audioVars, threadVars, epoch>>

Shows(event) == CASE event \in {"started", "active"} -> "publishing" [] OTHER -> event

\* AudioSnapshot::apply
Applied(update) ==
  IF update.gen # media.gen \/ shownAudio \in {"idle", "stopping"} THEN shownAudio
  ELSE Shows(update.event)

OnAudio ==
  /\ step = "none" /\ status.unread
  /\ status' = [status EXCEPT !.unread = FALSE] /\ shownAudio' = Applied(status)
  /\ UNCHANGED <<desktopVars, media, step, task, result, audioVars, threadVars, epoch>>

(***************************************************************************)
(* ReadyPublication::run: video and audio are polled by one task, which    *)
(* does nothing else while the audio waits for its thread.                 *)
(***************************************************************************)
Joining == audio \in {"restart", "return"}
Exited == thread \in {"none", "gone"}
DropUnflagged == UNCHANGED stop
DropCapture == stop' = (stop \/ ~Exited)

VideoEnds ==
  /\ task = "running" /\ ~Joining
  /\ result' \in {"ok", "encoder", "source", "other"} /\ task' = "closing" /\ audio' = "off"
  /\ DropCapture
  /\ UNCHANGED <<desktopVars, media, shownAudio, step, status, normalizer, gap, needsAnchor,
       reportedSilent, restarting, thread, format, queue, droppedPacket, made, failures, epoch>>

AbortTakesEffect ==
  /\ task = "aborted" /\ ~Joining /\ audio # "off" /\ audio' = "off" /\ DropCapture
  /\ UNCHANGED <<desktopVars, ownerVars, status, normalizer, gap, needsAnchor, reportedSilent,
       restarting, thread, format, queue, droppedPacket, made, failures, epoch>>

\* Capture::close
Closed == Exited

\* The locals of publish and run go with them.
NothingLeft ==
  /\ queue' = <<>> /\ format' = {} /\ stop' = FALSE /\ droppedPacket' = FALSE
  /\ normalizer' = FALSE /\ gap' = FALSE /\ needsAnchor' = TRUE /\ reportedSilent' = FALSE
  /\ restarting' = FALSE

TaskEnds ==
  /\ \/ task = "closing" /\ task' = "ended"
     \/ task = "aborted" /\ audio = "off" /\ task' = "none"
  /\ Closed /\ NothingLeft /\ thread' = "none" /\ epoch' = <<>> /\ audio' = "off"
  /\ UNCHANGED <<desktopVars, media, shownAudio, step, result, status, made, failures>>

Emit(event) == status' = [gen |-> media.gen, event |-> event, unread |-> TRUE]

\* A task that was aborted is not polled again once a poll returns.
Polled == task = "running"

(***************************************************************************)
(* audio::publish                                                          *)
(***************************************************************************)
StartCapture ==
  /\ Polled /\ audio = "start" /\ audio' = "receive"
  /\ thread' = "opening" /\ stop' = FALSE /\ queue' = <<>> /\ droppedPacket' = FALSE
  /\ normalizer' = FALSE /\ gap' = restarting /\ needsAnchor' = TRUE /\ reportedSilent' = FALSE
  /\ UNCHANGED <<desktopVars, ownerVars, status, restarting, format, made, failures, epoch>>

\* The track or the thread cannot be created.
StartFails ==
  /\ Polled /\ audio = "start" /\ audio' = "return" /\ Emit("failed")
  /\ UNCHANGED <<desktopVars, ownerVars, normalizer, gap, needsAnchor, reportedSilent, restarting,
       threadVars, epoch>>

Fails == Emit("failed") /\ audio' = "return" /\ DropCapture

OnReady ==
  /\ Polled /\ audio = "receive" /\ queue # <<>> /\ Head(queue).is = "ready" /\ queue' = Tail(queue)
  /\ \/ Emit("started") /\ normalizer' = TRUE /\ UNCHANGED <<audio, stop>>
     \/ Fails /\ UNCHANGED normalizer
  /\ UNCHANGED <<desktopVars, ownerVars, gap, needsAnchor, reportedSilent, restarting, thread,
       format, droppedPacket, made, failures, epoch>>

Marked(packet) == gap \/ packet.discontinuity

\* anchor_epoch: the first write after a reset fixes the epoch.
Written(packet) ==
  LET begins == Marked(packet) \/ needsAnchor IN
  IF begins THEN <<packet.number>> ELSE Append(epoch, packet.number)

OnPacket ==
  /\ Polled /\ audio = "receive" /\ queue # <<>> /\ Head(queue).is = "packet" /\ queue' = Tail(queue)
  /\ LET packet == Head(queue) IN
     \/ /\ normalizer
        /\ epoch' = Written(packet) /\ gap' = (gap /\ ~Marked(packet)) /\ needsAnchor' = FALSE
        /\ reportedSilent' = packet.silent
        /\ IF packet.silent # reportedSilent THEN Emit(IF packet.silent THEN "silent" ELSE "active")
           ELSE UNCHANGED status
        /\ UNCHANGED <<audio, stop>>
     \/ normalizer /\ Fails /\ UNCHANGED <<gap, needsAnchor, reportedSilent, epoch>>
     \/ ~normalizer /\ UNCHANGED <<audio, stop, status, gap, needsAnchor, reportedSilent, epoch>>
  /\ UNCHANGED <<desktopVars, ownerVars, normalizer, restarting, thread, format, droppedPacket,
       made, failures>>

Recovers == Emit("recovering") /\ audio' = "restart" /\ DropCapture

Recoverable == {"no output", "output changed", "invalidated"}

OnStopped ==
  /\ Polled /\ audio = "receive" /\ queue # <<>> /\ Head(queue).is = "stopped" /\ queue' = Tail(queue)
  /\ IF Head(queue).kind \in Recoverable THEN Recovers ELSE Fails
  /\ UNCHANGED <<desktopVars, ownerVars, normalizer, gap, needsAnchor, reportedSilent, restarting,
       thread, format, droppedPacket, made, failures, epoch>>

\* The thread is gone and its Stopped found no room.
OnNone ==
  /\ Polled /\ audio = "receive" /\ queue = <<>> /\ thread = "gone" /\ Recovers
  /\ UNCHANGED <<desktopVars, ownerVars, normalizer, gap, needsAnchor, reportedSilent, restarting,
       thread, format, queue, droppedPacket, made, failures, epoch>>

\* 750 ms without an event
OnTimeout ==
  /\ Polled /\ audio = "receive" /\ queue = <<>> /\ thread # "gone"
  /\ ~(gap /\ reportedSilent)
  /\ IF normalizer /\ ~reportedSilent THEN Emit("silent") ELSE UNCHANGED status
  /\ reportedSilent' = TRUE /\ gap' = TRUE
  /\ UNCHANGED <<desktopVars, ownerVars, audio, normalizer, needsAnchor, restarting, threadVars, epoch>>

\* drop(capture): the thread is joined, then a second passes or publish returns.
Joined ==
  /\ Joining /\ Closed /\ queue' = <<>> /\ format' = {} /\ stop' = FALSE
  /\ audio' = IF audio = "restart" THEN "sleep" ELSE "done"
  /\ restarting' = (restarting \/ audio = "restart") /\ normalizer' = FALSE
  /\ gap' = FALSE /\ needsAnchor' = TRUE /\ reportedSilent' = FALSE /\ droppedPacket' = FALSE
  /\ UNCHANGED <<desktopVars, ownerVars, status, thread, made, failures, epoch>>

Retry ==
  /\ Polled /\ audio = "sleep" /\ audio' = "start"
  /\ UNCHANGED <<desktopVars, ownerVars, status, normalizer, gap, needsAnchor, reportedSilent,
       restarting, threadVars, epoch>>

(***************************************************************************)
(* wasapi::run: nothing waits for room in the queue.                       *)
(***************************************************************************)
\* The receiver is dropped after the thread was joined, so it is never closed.
TrySend(q, event) == IF Len(q) < Capacity THEN Append(q, event) ELSE q

Opens ==
  /\ thread = "opening" /\ thread' = "running"
  /\ \E mix \in Mixes : \E f \in Parse(mix) : format' = {f}
  /\ queue' = TrySend(queue, [is |-> "ready"])
  /\ UNCHANGED <<desktopVars, ownerVars, status, audioVars, stop, droppedPacket, made, failures, epoch>>

StopWith(kind) ==
  /\ thread' = "gone" /\ queue' = TrySend(queue, [is |-> "stopped", kind |-> kind])
  /\ failures' = failures + 1

\* ComApartment, WasapiStream::open or parse_mix_format
OpenFails ==
  /\ thread = "opening" /\ failures < MaxFailures
  /\ \E kind \in {"no output", "invalidated", "backend"} \cup
                  (IF \E mix \in Mixes : Parse(mix) = {} THEN {"format"} ELSE {}) : StopWith(kind)
  /\ UNCHANGED <<desktopVars, ownerVars, status, audioVars, format, stop, droppedPacket, made, epoch>>

\* dropped_packet
Dropped(sent) == ~sent

\* drain: a batch of one or two packets; before the first the device may have
\* lost one, which it flags.
Captures ==
  /\ thread = "running" /\ ~stop
  /\ \E lost \in {0, 1}, silent \in BOOLEAN, batch \in 1 .. 2 :
       /\ made + lost + batch <= MaxPackets /\ made' = made + lost + batch
       /\ LET packet(i, flag) == [is |-> "packet", number |-> made + lost + i, silent |-> silent,
                                  discontinuity |-> flag]
              q1 == TrySend(queue, packet(1, droppedPacket \/ lost = 1))
              dropped1 == Dropped(q1 # queue)
              q2 == IF batch = 1 THEN q1 ELSE TrySend(q1, packet(2, dropped1))
          IN queue' = q2 /\ droppedPacket' = (IF batch = 1 THEN dropped1 ELSE Dropped(q2 # q1))
  /\ UNCHANGED <<desktopVars, ownerVars, status, audioVars, thread, format, stop, failures, epoch>>

\* An error of drain loses its batch; the wait or the poll of the device fails.
CaptureFails ==
  /\ thread = "running" /\ failures < MaxFailures
  /\ \E kind \in Recoverable \cup {"backend"} : StopWith(kind)
  /\ made' \in {made, made + 1} /\ made' <= MaxPackets
  /\ UNCHANGED <<desktopVars, ownerVars, status, audioVars, format, stop, droppedPacket, epoch>>

ThreadStops ==
  /\ thread = "running" /\ stop /\ thread' = "gone"
  /\ UNCHANGED <<desktopVars, ownerVars, status, audioVars, format, stop, queue, droppedPacket, made,
       failures, epoch>>

Init ==
  /\ desktop \in {[list |-> {s}, changes |-> 0] : s \in Sources}
  /\ catalog = [phase |-> "loading", choices |-> {}, selected |-> {}, invalidated |-> FALSE]
  /\ wanted = {}
  /\ media = [phase |-> "idle", gen |-> 0, policy |-> "compatible", source |-> {}]
  /\ shownAudio = "idle" /\ step = "none" /\ task = "none" /\ result = "ok"
  /\ status = [gen |-> 0, event |-> "none", unread |-> FALSE]
  /\ audio = "off" /\ normalizer = FALSE /\ gap = FALSE /\ needsAnchor = TRUE
  /\ reportedSilent = FALSE /\ restarting = FALSE
  /\ thread = "none" /\ format = {} /\ stop = FALSE /\ queue = <<>> /\ droppedPacket = FALSE
  /\ made = 0 /\ failures = 0 /\ epoch = <<>>

Handler == Listed \/ ShareListed \/ Configured \/ ConfigureFails \/ Stopped \/ OnEnded \/ OnAudio
Command == RefreshSources \/ Select \/ SetPolicy \/ Share \/ StopSharing
Audio == StartCapture \/ OnReady \/ OnPacket \/ OnStopped \/ OnNone \/ OnTimeout \/ Joined \/ Retry
Task == AbortTakesEffect \/ TaskEnds
Thread == Opens \/ ThreadStops
Device == Plug \/ VideoEnds \/ StartFails \/ OpenFails \/ Captures \/ CaptureFails

Next == Handler \/ Command \/ Audio \/ Task \/ Thread \/ Device
\* The select of the runtime is not biased: no endless row of commands keeps it
\* from a report.
Fairness == WF_vars(Handler) /\ SF_vars(OnAudio) /\ SF_vars(OnEnded) /\ WF_vars(Audio) /\ WF_vars(Task) /\ WF_vars(Thread)
Spec == Init /\ [][Next]_vars /\ Fairness

(***************************************************************************)
(* Properties                                                              *)
(***************************************************************************)
EpochIsWhole == \A i \in 1 .. Len(epoch) - 1 : epoch[i + 1] = epoch[i] + 1
ThreadIsOwned == Exited \/ (task # "none" /\ (task = "running" => audio \in {"receive", "restart", "return"}))
AudioShownIsCurrent ==
  /\ Free <=> shownAudio = "idle"
  /\ shownAudio = "failed" => audio \in {"return", "done", "off"}
  /\ media.phase = "sharing" /\ audio = "done" /\ ~status.unread => shownAudio = "failed"
SharesTheChoice == \A s \in media.source : \E w \in wanted : SameSource(w, s)
FormatDecodes == \A f \in format : Decodes(f)

\* What is published is whole and is what the user asked for: no packet is
\* missing inside an epoch of the audio track, whoever dropped it, the queue,
\* the device or a failed capture; a WASAPI thread runs only under the
\* publication that joins it; the audio state that is shown is that of the
\* current publication, and a final failure of the audio is not hidden by
\* anything later; a source is never shared in place of one that went away;
\* and every format accepted from Windows can be decoded.
PublicationIsTrue ==
  EpochIsWhole /\ ThreadIsOwned /\ AudioShownIsCurrent /\ SharesTheChoice /\ FormatDecodes
=============================================================================
