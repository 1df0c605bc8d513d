----------------------------- MODULE MacDesktop -----------------------------
(***************************************************************************)
(* The macOS desktop interface: MoqCastApp (mac/src/app.rs, app/desktop.rs), *)
(* the presenter of pictures (app/video.rs), the player (app/player.rs),   *)
(* the bridge to the system's content picker (app/capture_picker.rs) and   *)
(* the channels it shares with the runtime (runtime.rs: RuntimeOwner).     *)
(*                                                                         *)
(* A frame of the interface takes what the picker answered, copies the     *)
(* snapshot, presents the newest picture, and handles at most one input;   *)
(* the runtime, the decoder, the picker and the window manager move in     *)
(* between.  Share and watch draw from one counter of media generations.   *)
(* The runtime is what MacRuntime does, as the interface sees it: an await *)
(* ends with the whole of its handler, and sleep is left to MacRuntime.    *)
(***************************************************************************)
EXTENDS Integers, Sequences, SequencesExt, PlayerVolume

CONSTANTS
  Inputs,       \* which groups of inputs the user gives
  Capacity,     \* COMMAND_CAPACITY
  Sources,      \* what there is to share; only "main" has system audio
  Percents,     \* volumes the slider is moved to
  MaxGen,       \* bound: no share or watch begins after this generation
  MaxEra,       \* bound: the LAN is not turned on again after this generation
  MaxPictures,  \* bound: pictures of one view
  MaxFailures   \* bound: services, routes, presentations and tasks that fail

MacDesktopAssumption ==
  /\ Inputs \subseteq {"net", "watch", "volume", "full", "button", "pick", "share"}
  /\ Capacity \in Nat \ {0}
  /\ Sources \subseteq {"main", "second", "window"}
  /\ Percents \subseteq 0 .. 100 /\ {MaxGen, MaxEra, MaxPictures, MaxFailures} \subseteq Nat

VARIABLES
  pub,          \* the published AppSnapshot
  busy,         \* the command whose handler is at an await
  queue,        \* RuntimeOwner::commands
  engine,       \* playback::Owner: its generation, volume and presentation_error
  frame,        \* the playback watch: the identity of its picture
  captured,     \* publication::Owner: what the share was started with
  failures,
  step,         \* where the frame of the interface is: "read", "present" or "draw"
  snap,         \* the snapshot of this frame
  page, dialog, \* Page, and whether a dialog is open
  pending,      \* nearby_action_pending
  presenter,    \* video::Presenter
  kind,         \* picker_kind
  picking,      \* picker_pending
  allowed,      \* capture_permission is Allowed
  picker,       \* the system's picker: shown for a kind, or with its answer
  volume,       \* PlayerVolumeState
  active,       \* Player::fullscreen
  full, asked,  \* the viewport, and the command the window manager has not applied
  lost          \* history: the latest volume was refused by the queue

runtimeVars == <<pub, busy, engine, frame, captured, failures>>
pageVars    == <<page, dialog, pending>>
pickerVars  == <<kind, picking, allowed, picker>>
playerVars  == <<presenter, volume, active, lost>>
vars == <<runtimeVars, queue, step, snap, pageVars, pickerVars, playerVars, full, asked>>

KindOf(s)  == IF s = "window" THEN "window" ELSE "display"
Watching(s)   == s.media \in {"preparing", "watching"}
Watches(s)    == Watching(s) \/ s.media = "watchFailed"
Shares(s)     == s.media \in {"sharing", "shareFailed"}
HasActiveMedia(s) == Watching(s) \/ s.media = "sharing"
Access(s)  == s.net = "on" /\ s.media = "idle"
CanWatch(s) == Access(s) /\ s.route
IsOn(s)    == s.net \notin {"stopped", "failed"}

Init ==
  /\ pub = [net |-> "starting", era |-> 1, media |-> "idle", gen |-> 0, sound |-> FALSE,
            route |-> TRUE, source |-> "none", audio |-> FALSE]
  /\ snap = pub /\ busy = "none" /\ queue = <<>> /\ engine = {} /\ frame = {} /\ captured = {}
  /\ failures = 0 /\ step = "read" /\ page = "nearby" /\ dialog = "none" /\ pending = {}
  /\ presenter = [gen |-> 0, shown |-> {}, failed |-> FALSE]
  /\ kind = "display" /\ picking = FALSE /\ allowed = FALSE /\ picker = {}
  /\ volume = NewVolume(0) /\ active = FALSE /\ full = FALSE /\ asked = {} /\ lost = FALSE

Sent == Len(queue) < Capacity

Post(op, arg) ==
  queue' = IF Sent THEN Append(queue, [op |-> op, gen |-> snap.gen, arg |-> arg]) ELSE queue

(***************************************************************************)
(* A frame of the interface                                                *)
(***************************************************************************)
\* poll_capture_picker: a selection is sent to the runtime, a refusal of the
\* queue is not noticed; the permission is asked of the system again.
Answered(answer) == answer.op # "shown"

PollPicker ==
  IF \E a \in picker : Answered(a)
  THEN \E a \in picker :
         /\ picking' = FALSE /\ picker' = {} /\ allowed' \in BOOLEAN
         /\ kind' = (IF a.op = "selected" THEN KindOf(a.source) ELSE kind)
         /\ IF a.op = "selected" THEN Post("select", a.source) ELSE UNCHANGED queue
  ELSE UNCHANGED <<pickerVars, queue>>

\* reconcile_nearby_action
Acknowledged(p) == p.era # pub.era /\ (p.on <=> pub.net # "stopped")

ReadSnapshot ==
  /\ step = "read" /\ step' = "present" /\ PollPicker /\ snap' = pub
  /\ pending' = {p \in pending : ~Acknowledged(p)}
  /\ dialog' = (IF dialog = "confirm" /\ ~IsOn(pub) THEN "none" ELSE dialog)
  /\ UNCHANGED <<runtimeVars, page, playerVars, full, asked>>

Newer(old, new) ==
  \A t \in old : new.gen > t.gen \/ (new.gen = t.gen /\ new.number > t.number)

\* Presenter::update starts afresh with every generation of a view.
Cleared(gen) == [gen |-> gen, shown |-> {}, failed |-> FALSE]
Prepared == LET gen == IF Watching(snap) THEN snap.gen ELSE 0 IN
            IF presenter.gen = gen THEN presenter ELSE Cleared(gen)
Presentable(p) == {f \in frame : f.gen = p.gen /\ ~p.failed /\ Newer(p.shown, f)}

\* fail_video tells the run the picture came from.
Told(f) == engine' = {[e EXCEPT !.told = @ \/ e.gen = f.gen] : e \in engine} /\ UNCHANGED queue

PresentPicture ==
  /\ step = "present" /\ step' = "draw"
  /\ LET p == Prepared IN
     \/ /\ presenter' = IF Presentable(p) = {} THEN p ELSE [p EXCEPT !.shown = Presentable(p)]
        /\ UNCHANGED <<engine, failures, queue>>
     \/ /\ failures < MaxFailures /\ failures' = failures + 1
        /\ presenter' = [p EXCEPT !.shown = {}, !.failed = TRUE]
        /\ \E f \in Presentable(p) : Told(f)
  /\ active' = (full /\ Watching(snap))
  /\ asked' = IF full /\ ~Watching(snap) THEN {FALSE} ELSE asked
  /\ UNCHANGED <<pub, busy, frame, captured, snap, pageVars, pickerVars, volume, lost, full>>

PlayerShown == active \/ (page = "watch" /\ Watching(snap))

\* What every frame does as it ends: the player synchronises its volume.
Drawn ==
  /\ step = "draw" /\ step' = "read"
  /\ UNCHANGED <<runtimeVars, snap, presenter, active, full>>

Shows ==
  /\ volume' = IF PlayerShown THEN SyncedTo(volume, snap.gen) ELSE volume
  /\ lost' = (lost /\ volume' = volume)

Draw == Drawn /\ Shows /\ UNCHANGED <<queue, pageVars, pickerVars, asked>>

(***************************************************************************)
(* The pages                                                               *)
(***************************************************************************)
OnPage(name, group) ==
  /\ group \in Inputs /\ Drawn /\ Shows /\ ~active /\ dialog = "none" /\ page = name /\ UNCHANGED asked

\* begin_nearby_action
Request(on) ==
  IF pending # {} \/ ~Sent THEN UNCHANGED <<queue, pending>>
  ELSE Post(IF on THEN "on" ELSE "off", 0) /\ pending' = {[on |-> on, era |-> snap.era]}

NearbyEnabled == pending = {} /\ snap.net # "stopping"

TurnOn ==
  /\ OnPage("nearby", "net") \/ OnPage("share", "net")
  /\ NearbyEnabled /\ ~IsOn(snap) /\ snap.era < MaxEra /\ Request(TRUE)
  /\ UNCHANGED <<page, dialog, pickerVars>>

TurnOff ==
  /\ OnPage("nearby", "net") /\ NearbyEnabled /\ IsOn(snap) /\ UNCHANGED <<page, pickerVars>>
  /\ IF HasActiveMedia(snap) THEN dialog' = "confirm" /\ UNCHANGED <<queue, pending>>
     ELSE Request(FALSE) /\ UNCHANGED dialog

\* The confirmation reads the snapshot once more.
ConfirmTurnOff ==
  /\ Drawn /\ Shows /\ ~active /\ dialog = "confirm" /\ dialog' = "none"
  /\ IF pending # {} \/ ~Sent THEN UNCHANGED <<queue, pending>>
     ELSE Post("off", 0) /\ pending' = {[on |-> FALSE, era |-> pub.era]}
  /\ UNCHANGED <<asked, page, pickerVars>>

CloseDialog ==
  /\ Drawn /\ Shows /\ ~active /\ dialog # "none" /\ dialog' = "none"
  /\ UNCHANGED <<queue, asked, page, pending, pickerVars>>

\* Shortcuts, the way back and the card of this computer, dialogs or not.
Navigate ==
  /\ Drawn /\ Shows /\ ~active /\ page' \in {"nearby", "share", "watch"} \ {page}
  /\ UNCHANGED <<queue, asked, dialog, pending, pickerVars>>

WatchPeer ==
  /\ OnPage("nearby", "watch") /\ UNCHANGED <<dialog, pending, pickerVars>>
  /\ \/ Watches(snap) /\ page' = "watch" /\ UNCHANGED queue
     \/ /\ pending = {} /\ CanWatch(snap) /\ ~Watches(snap) /\ Post("watch", 0)
        /\ page' = (IF Sent THEN "watch" ELSE page)

\* s2_watch_empty: a failed view is stopped on the way back.
ReturnToNearby ==
  /\ OnPage("watch", "watch") /\ ~Watching(snap) /\ UNCHANGED <<dialog, pending, pickerVars>>
  /\ IF snap.media = "watchFailed" THEN Post("stop_watch", 0) /\ page' = (IF Sent THEN "nearby" ELSE page)
     ELSE page' = "nearby" /\ UNCHANGED queue

OnShare(group) == OnPage("share", group) /\ UNCHANGED pageVars

ChooseKind ==
  /\ OnShare("pick") /\ snap.media = "idle" /\ ~picking /\ kind' \in {"display", "window"} \ {kind}
  /\ UNCHANGED <<queue, picking, allowed, picker>>

\* present_source_picker; the system may refuse the permission.
PresentPicker ==
  /\ OnShare("pick") /\ Access(snap) /\ ~picking /\ UNCHANGED <<queue, kind>>
  /\ \/ allowed' = TRUE /\ picking' = TRUE /\ picker' = {[op |-> "shown", source |-> "none"]}
     \/ ~allowed /\ UNCHANGED <<allowed, picking, picker>>

SetSystemAudio ==
  /\ OnShare("share") /\ kind = "display" /\ Access(snap) /\ snap.source = "main"
  /\ Post("audio", ~snap.audio) /\ UNCHANGED pickerVars

ShareButton ==
  /\ OnShare("share") /\ UNCHANGED pickerVars
  /\ \/ Shares(snap) /\ Post("stop_share", 0)
     \/ /\ ~Shares(snap) /\ ~picking /\ pending = {} /\ allowed /\ Access(snap)
        /\ snap.source # "none" /\ KindOf(snap.source) = kind /\ Post("share", 0)

(***************************************************************************)
(* The player                                                              *)
(***************************************************************************)
OnPlayer(group) ==
  /\ group \in Inputs /\ Drawn /\ PlayerShown /\ (active \/ dialog = "none")
  /\ UNCHANGED <<pageVars, pickerVars>>

StopPlayer ==
  OnPlayer("watch") /\ Shows /\ Post("stop_watch", 0) /\ asked' = IF active THEN {FALSE} ELSE asked

ToggleFullscreen == OnPlayer("full") /\ Shows /\ asked' = {~active} /\ UNCHANGED queue

SetVolume ==
  /\ OnPlayer("volume") /\ snap.sound
  /\ LET v == SyncedTo(volume, snap.gen) IN
     volume' \in {Muted(v)} \cup {Louder(v, p) : p \in Percents \ {v.percent}}
  /\ Post("volume", volume'.percent) /\ lost' = ~Sent /\ UNCHANGED asked

Input ==
  \/ Draw \/ TurnOn \/ TurnOff \/ ConfirmTurnOff \/ CloseDialog \/ Navigate
  \/ WatchPeer \/ ReturnToNearby \/ ChooseKind \/ PresentPicker \/ SetSystemAudio \/ ShareButton
  \/ StopPlayer \/ ToggleFullscreen \/ SetVolume

(***************************************************************************)
(* The window manager and the content picker of the system                 *)
(***************************************************************************)
ApplyViewport ==
  /\ asked # {} /\ full' \in asked /\ asked' = {}
  /\ UNCHANGED <<runtimeVars, queue, step, snap, pageVars, pickerVars, playerVars>>

\* The user may also use the window's own button.
WindowButton ==
  /\ "button" \in Inputs /\ asked = {} /\ full' = ~full
  /\ UNCHANGED <<runtimeVars, queue, step, snap, pageVars, pickerVars, playerVars, asked>>

PickerAnswers ==
  /\ \E a \in picker : a.op = "shown"
  /\ \/ picker' = {[op |-> "given up", source |-> "none"]}   \* cancelled or failed
     \/ \E s \in Sources : KindOf(s) = kind /\ picker' = {[op |-> "selected", source |-> s]}
  /\ UNCHANGED <<runtimeVars, queue, step, snap, pageVars, kind, picking, allowed, playerVars, full, asked>>

(***************************************************************************)
(* The runtime                                                             *)
(***************************************************************************)
Interface == <<step, snap, pageVars, pickerVars, playerVars, full, asked>>

Take(op) ==
  /\ busy = "none" /\ queue # <<>> /\ Head(queue).op = op /\ queue' = Tail(queue)
  /\ UNCHANGED <<failures, Interface>>

\* The pages ask for the LAN only while it is down: a discovery or a listener
\* that fails alone, and the restart it offers, are left out.
TakeNet ==
  \/ /\ Take("on") /\ ~IsOn(pub) /\ UNCHANGED <<busy, engine, frame, captured>>
     /\ pub' = [pub EXCEPT !.net = "starting", !.era = @ + 1]
  \/ /\ Take("off") /\ UNCHANGED <<engine, frame, captured>>
     /\ IF IsOn(pub) THEN pub' = [pub EXCEPT !.net = "stopping"] /\ busy' = "off"
        ELSE UNCHANGED <<pub, busy>>

\* Services that do not run ignore every command of the media.
TakeWatch ==
  /\ Take("watch") /\ UNCHANGED <<busy, captured>>
  /\ IF CanWatch(pub) /\ pub.gen < MaxGen
     THEN /\ pub' = [pub EXCEPT !.media = "preparing", !.gen = @ + 1, !.sound = FALSE]
          /\ engine' = {[gen |-> pub.gen + 1, percent |-> 100, told |-> FALSE]} /\ frame' = {}
     ELSE UNCHANGED <<pub, engine, frame>>

Adjusted(c) == {IF e.gen = c.gen THEN [e EXCEPT !.percent = c.arg] ELSE e : e \in engine}

TakeVolume ==
  /\ Take("volume") /\ UNCHANGED <<pub, busy, frame, captured>>
  /\ engine' = IF pub.net = "on" THEN Adjusted(Head(queue)) ELSE engine

TakeStopWatch ==
  /\ Take("stop_watch") /\ UNCHANGED <<pub, engine, frame, captured>>
  /\ busy' = IF pub.net = "on" /\ Watches(pub) THEN "stop" ELSE busy

SelectAnytime(source) == pub.net = "on"
CanSelect(source) == pub.net = "on" /\ ~HasActiveMedia(pub)

TakeSource ==
  \/ /\ Take("select") /\ UNCHANGED <<busy, engine, frame, captured>>
     /\ pub' = IF CanSelect(Head(queue).arg)
               THEN [pub EXCEPT !.source = Head(queue).arg, !.audio = FALSE] ELSE pub
  \/ /\ Take("audio") /\ UNCHANGED <<busy, engine, frame, captured>>
     /\ pub' = IF Access(pub) /\ (Head(queue).arg => pub.source = "main")
               THEN [pub EXCEPT !.audio = Head(queue).arg] ELSE pub

TakeShare ==
  \/ /\ Take("share") /\ UNCHANGED <<busy, engine, frame>>
     /\ IF Access(pub) /\ pub.source # "none" /\ pub.gen < MaxGen
        THEN /\ pub' = [pub EXCEPT !.media = "sharing", !.gen = @ + 1]
             /\ captured' = {[source |-> pub.source, audio |-> pub.audio]}
        ELSE UNCHANGED <<pub, captured>>
  \/ /\ Take("stop_share") /\ UNCHANGED <<busy, engine, frame>>
     /\ IF pub.net = "on" /\ Shares(pub)
        THEN pub' = [pub EXCEPT !.media = "idle", !.gen = @ + 1, !.audio = FALSE] /\ captured' = {}
        ELSE UNCHANGED <<pub, captured>>

\* teardown_media: a share's choice of audio goes with it.
NoMedia(net, era) ==
  /\ pub' = [pub EXCEPT !.net = net, !.era = era, !.media = "idle", !.gen = @ + 1,
                        !.audio = @ /\ ~Shares(pub)]
  /\ captured' = {} /\ engine' = {} /\ frame' = {}

\* The playback task is joined; stop_watch keeps a view whose task panicked.
Finish ==
  /\ busy # "none" /\ busy' = "none" /\ UNCHANGED <<queue, Interface>>
  /\ \/ busy = "off" /\ NoMedia("stopped", pub.era + 1) /\ UNCHANGED failures
     \/ /\ busy = "stop" /\ engine' = {} /\ frame' = {} /\ UNCHANGED captured
        /\ \/ pub' = [pub EXCEPT !.media = "idle", !.gen = @ + 1] /\ UNCHANGED failures
           \/ /\ engine # {} /\ failures < MaxFailures /\ failures' = failures + 1
              /\ pub' = [pub EXCEPT !.media = "watchFailed", !.gen = @ + 1]

Reports == busy = "none" /\ UNCHANGED <<busy, queue, Interface>>

\* The services start or fail to.
Started ==
  /\ Reports /\ pub.net = "starting" /\ UNCHANGED <<engine, frame, captured>>
  /\ \/ pub' = [pub EXCEPT !.net = "on"] /\ UNCHANGED failures
     \/ failures < MaxFailures /\ failures' = failures + 1 /\ pub' = [pub EXCEPT !.net = "failed"]

\* apply_playback_event
ViewMoves ==
  /\ Reports /\ engine # {} /\ UNCHANGED <<engine, frame, captured, failures>>
  /\ \/ pub' = [pub EXCEPT !.media = "watching"]
     \/ "volume" \in Inputs /\ pub' = [pub EXCEPT !.sound = ~@]
  /\ pub' # pub

\* A run ends with an error: of its own, or as presentation_error told it.
RunEnds(whether) ==
  /\ Reports /\ engine # {} /\ whether /\ engine' = {} /\ frame' = {}
  /\ pub' = [pub EXCEPT !.media = "watchFailed"] /\ UNCHANGED captured

ToldRunEnds == RunEnds(\E e \in engine : e.told) /\ UNCHANGED failures
RunFails    == RunEnds(failures < MaxFailures) /\ failures' = failures + 1

\* publication_ended: well, with an error, or because its source is gone.
ShareEnds ==
  /\ Reports /\ pub.media = "sharing" /\ captured' = {} /\ UNCHANGED <<engine, frame, failures>>
  /\ \/ pub' = [pub EXCEPT !.media = "idle", !.gen = @ + 1, !.audio = FALSE]
     \/ pub' = [pub EXCEPT !.media = "shareFailed"]
     \/ pub' = [pub EXCEPT !.media = "shareFailed", !.source = "none", !.audio = FALSE]

\* A route is withdrawn, or the services end under all of it.
Fails ==
  /\ Reports /\ failures < MaxFailures /\ failures' = failures + 1
  /\ \/ pub.route /\ pub' = [pub EXCEPT !.route = FALSE] /\ UNCHANGED <<engine, frame, captured>>
     \/ pub.net = "on" /\ NoMedia("failed", pub.era)

\* The playback task publishes a picture, whatever the runtime is doing.
Picture ==
  /\ \E e \in engine, n \in 1 .. MaxPictures :
       /\ frame = (IF n = 1 THEN {} ELSE {[gen |-> e.gen, number |-> n - 1]})
       /\ frame' = {[gen |-> e.gen, number |-> n]}
  /\ UNCHANGED <<pub, busy, engine, captured, failures, queue, Interface>>

Frame   == ReadSnapshot \/ PresentPicture \/ Input
Command == TakeNet \/ TakeWatch \/ TakeVolume \/ TakeStopWatch \/ TakeSource \/ TakeShare
Runtime == Started \/ ViewMoves \/ ToldRunEnds \/ RunFails \/ ShareEnds \/ Fails \/ Picture

Next == Frame \/ ApplyViewport \/ WindowButton \/ PickerAnswers \/ Command \/ Finish \/ Runtime

\* The interface repaints by itself, the window manager applies what it is
\* asked, the user answers the picker, the runtime gets to its commands, and
\* a playback that was told of a failed presentation ends.
Fairness ==
  /\ WF_vars(Frame) /\ WF_vars(ApplyViewport) /\ WF_vars(PickerAnswers)
  /\ WF_vars(Command) /\ WF_vars(Finish) /\ SF_vars(ToldRunEnds)

Spec     == Init /\ [][Next]_vars
FairSpec == Spec /\ Fairness

(***************************************************************************)
(* Properties                                                              *)
(***************************************************************************)
\* The volume the playback will have once the queue is through.
Volumes(e) == SelectSeq(queue, LAMBDA c : c.op = "volume" /\ c.gen = e.gen)
Coming(e) == IF Volumes(e) = <<>> THEN e.percent ELSE Last(Volumes(e)).arg

\* From one picture to the next: a later view, or a later picture of the same one.
Forward(t, u) == t.gen < u.gen \/ (t.gen = u.gen /\ t.number <= u.number)

\* What the Mac shows is what it does, although snapshots, pictures, answers
\* of the picker and commands travel on channels of their own: a picture on
\* screen is of the very view the snapshot shows and never goes back; the
\* volume shown is the one the playback of that view gets, unless the queue
\* refused it; and a share captures the source and the audio that are shown
\* for it, however late a selection arrives; while the page waits for the
\* picker, the picker is on screen or its answer is under way.
MacShowsWhatItDoes ==
  /\ [](step = "draw" => \A t \in presenter.shown : Watching(snap) /\ t.gen = snap.gen)
  /\ [][\A t \in presenter.shown, u \in presenter'.shown : Forward(t, u)]_vars
  /\ [](\A e \in engine : volume.gen = e.gen /\ ~lost => Coming(e) = volume.percent)
  /\ [](\A c \in captured : c.source = pub.source /\ c.audio = pub.audio)
  /\ [](picking => picker # {})
=============================================================================
