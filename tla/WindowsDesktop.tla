--------------------------- MODULE WindowsDesktop ---------------------------
(***************************************************************************)
(* The Windows desktop interface: MoqCastApp (windows/src/app.rs and       *)
(* app/desktop.rs), its player (player.rs, shared/ui components/player.rs) *)
(* and the channels it shares with the runtime (runtime.rs: RuntimeOwner). *)
(*                                                                         *)
(* A frame of the interface copies the snapshot, then takes the newest     *)
(* picture, then draws and handles at most one input; the runtime, the     *)
(* decoder and the window manager move between any two of these, so every  *)
(* input acts on a snapshot that may be old.  Commands go through a queue  *)
(* that refuses when it is full.  The runtime here is what WindowsRuntime  *)
(* does, as the interface can see it.                                      *)
(***************************************************************************)
EXTENDS Integers, Sequences, SequencesExt, PlayerVolume

CONSTANTS
  Inputs,       \* which groups of inputs the user gives
  Capacity,     \* COMMAND_CAPACITY
  Percents,     \* volumes the slider is moved to
  MaxGen,       \* bound: view generations
  MaxPictures,  \* bound: pictures of one view
  MaxFailures   \* bound: services and routes that fail

WindowsDesktopAssumption ==
  /\ Inputs \subseteq {"scan", "watch", "volume", "full", "share", "source"} /\ Capacity \in Nat \ {0}
  /\ Percents \subseteq 0 .. 100 /\ {MaxGen, MaxPictures, MaxFailures} \subseteq Nat

VARIABLES
  pub,          \* the published RuntimeSnapshot
  busy,         \* the command whose handler is at an await
  queue,        \* RuntimeOwner::commands
  engine,       \* ViewOwner: the generation it plays and its volume
  frame,        \* the playback watch: the identity of its picture
  failures,
  step,         \* where the frame of the interface is: "read", "commit" or "draw"
  snap,         \* MoqCastApp::snapshot
  page, dialog, \* Page, and the modal that is open
  pending,      \* nearby_turn_off_pending
  error,        \* command_error
  tab,          \* capture_kind
  texture,      \* playback_texture and playback_identity
  active,       \* FullscreenState::active
  volume,       \* PlayerVolumeState
  full, asked,  \* the viewport, and the command the window manager has not applied
  lost          \* history: the latest volume was refused by the queue

runtimeVars == <<pub, busy, engine, frame, failures>>
pageVars    == <<page, dialog, pending, tab>>
playerVars  == <<texture, active, volume, lost>>
vars == <<runtimeVars, queue, step, snap, pageVars, error, playerVars, full, asked>>

Live(s)    == s.view \in {"preparing", "viewing"}
Idle(s)    == ~Live(s) /\ s.media \in {"idle", "failed"}
IsActive(s) == s.disc \in {"starting", "ready"}
HasActiveMedia(s) == Live(s) \/ s.media = "sharing"
CanWatch(s) == ~pending /\ s.disc = "ready" /\ Idle(s) /\ s.route
CanShare(s) == ~pending /\ s.disc = "ready" /\ Idle(s) /\ s.catalog = "ready" /\ s.source = tab

Init ==
  /\ pub = [disc |-> "starting", view |-> "idle", gen |-> 0, sound |-> FALSE, route |-> TRUE,
            media |-> "idle", catalog |-> "ready", source |-> "display"]
  /\ snap = pub /\ busy = "none" /\ queue = <<>> /\ engine = {} /\ frame = {} /\ failures = 0
  /\ step = "read" /\ page = "nearby" /\ dialog = "none" /\ pending = FALSE /\ error = FALSE
  /\ tab = "display" /\ texture = {} /\ active = FALSE
  /\ volume = NewVolume(0)
  /\ full = FALSE /\ asked = {} /\ lost = FALSE

(***************************************************************************)
(* A frame of the interface                                                *)
(***************************************************************************)
StillPending == pub.disc = "stopping" \/ (pending /\ pub.disc \notin {"stopped", "failed"})

\* The snapshot is copied; a pending turn-off ends with what it shows.
ReadSnapshot ==
  /\ step = "read" /\ step' = "commit" /\ snap' = pub
  /\ pending' = StillPending
  /\ dialog' = (IF dialog = "confirm" /\ pub.disc \in {"stopped", "failed"} THEN "none" ELSE dialog)
  /\ UNCHANGED <<runtimeVars, queue, page, tab, error, playerVars, full, asked>>

Newer(old, new) == \A t \in old : new.gen > t.gen \/ (new.gen = t.gen /\ new.number > t.number)
ShouldCommit(new) == new.gen = snap.gen /\ Newer(texture, new)

\* update_playback_texture reads the picture after the snapshot; then the
\* viewport is brought in line with the view.
CommitPicture ==
  /\ step = "commit" /\ step' = "draw"
  /\ texture' = IF ~Live(snap) THEN {}
                ELSE IF \E f \in frame : ShouldCommit(f) THEN frame ELSE texture
  /\ active' = (full /\ snap.view = "viewing")
  /\ asked' = IF full /\ snap.view # "viewing" THEN {FALSE} ELSE asked
  /\ UNCHANGED <<runtimeVars, queue, snap, pageVars, error, volume, lost, full>>

PlayerShown == active \/ (page = "watch" /\ Live(snap))

Synced == SyncedTo(volume, snap.gen)

Sent == Len(queue) < Capacity

Send(op, arg) ==
  /\ error' = ~Sent
  /\ queue' = IF Sent THEN Append(queue, [op |-> op, gen |-> snap.gen, arg |-> arg]) ELSE queue

\* What every frame does as it ends: show() synchronises the volume.
Drawn ==
  /\ step = "draw" /\ step' = "read"
  /\ UNCHANGED <<runtimeVars, snap, texture, active, full>>

Shows ==
  /\ volume' = IF PlayerShown THEN Synced ELSE volume
  /\ lost' = (lost /\ volume' = volume)

Quiet == UNCHANGED <<queue, error>>

Draw == Drawn /\ Shows /\ Quiet /\ UNCHANGED <<pageVars, asked>>

\* An input of the page: nothing else is over it.
OnPage(name) ==
  Drawn /\ Shows /\ ~active /\ dialog = "none" /\ page = name /\ UNCHANGED asked

(***************************************************************************)
(* The Nearby page and its dialogs                                         *)
(***************************************************************************)
RequestTurnOff ==
  IF pending \/ snap.disc = "stopping" THEN Quiet /\ UNCHANGED pending
  ELSE Send("stop_scan", 0) /\ pending' = Sent

TurnOn ==
  /\ "scan" \in Inputs /\ OnPage("nearby") /\ ~pending /\ snap.disc \in {"stopped", "failed"}
  /\ Send("start_scan", 0) /\ UNCHANGED pageVars

TurnOff ==
  /\ "scan" \in Inputs /\ OnPage("nearby") /\ ~pending /\ snap.disc = "ready"
  /\ IF HasActiveMedia(snap) THEN dialog' = "confirm" /\ Quiet /\ UNCHANGED pending
     ELSE RequestTurnOff /\ UNCHANGED dialog
  /\ UNCHANGED <<page, tab>>

OnDialog(name) == Drawn /\ Shows /\ ~active /\ dialog = name /\ dialog' = "none" /\ UNCHANGED asked

ConfirmTurnOff == OnDialog("confirm") /\ RequestTurnOff /\ UNCHANGED <<page, tab>>

CloseDialog ==
  \E name \in {"confirm", "panel"} : OnDialog(name) /\ Quiet /\ UNCHANGED <<page, pending, tab>>

\* The settings, or the details of a device.
OpenPanel ==
  /\ "scan" \in Inputs /\ Drawn /\ Shows /\ ~active /\ dialog = "none" /\ dialog' = "panel"
  /\ Quiet /\ UNCHANGED <<asked, page, pending, tab>>

\* The card of this computer leads to the player or to the sharing settings.
OpenMedia ==
  /\ OnPage("nearby") /\ page' = (IF Live(snap) THEN "watch" ELSE "share")
  /\ Quiet /\ UNCHANGED <<dialog, pending, tab>>

WatchPeer ==
  /\ "watch" \in Inputs /\ OnPage("nearby")
  /\ \/ Live(snap) /\ Quiet /\ page' = "watch"
     \/ CanWatch(snap) /\ Send("watch", 0) /\ page' = (IF Sent THEN "watch" ELSE page)
  /\ UNCHANGED <<dialog, pending, tab>>

Back ==
  /\ \E name \in {"watch", "share"} : OnPage(name)
  /\ page' = "nearby" /\ Quiet /\ UNCHANGED <<dialog, pending, tab>>

(***************************************************************************)
(* The sharing page                                                        *)
(***************************************************************************)
OnShare(group) == group \in Inputs /\ OnPage("share") /\ UNCHANGED <<page, dialog, pending>>

ShareButton ==
  /\ OnShare("share") /\ UNCHANGED tab
  /\ \/ snap.media = "sharing" /\ Send("stop_share", 0)
     \/ snap.media # "sharing" /\ snap.disc \in {"stopped", "failed"} /\ ~pending /\ Send("start_scan", 0)
     \/ CanShare(snap) /\ Send("share", 0)

ChooseTab ==
  /\ OnShare("share") /\ snap.media # "sharing" /\ tab' \in {"display", "window"} \ {tab} /\ Quiet

SelectSource ==
  /\ OnShare("source") /\ snap.media # "sharing" /\ snap.catalog = "ready" /\ Send("select", tab) /\ UNCHANGED tab

RefreshSources ==
  /\ OnShare("source") /\ snap.media # "sharing" /\ snap.catalog # "loading" /\ Send("refresh", 0) /\ UNCHANGED tab

(***************************************************************************)
(* The player                                                              *)
(***************************************************************************)
OnPlayer ==
  /\ "watch" \in Inputs /\ Drawn /\ PlayerShown /\ (active \/ dialog = "none")
  /\ UNCHANGED <<pageVars>>

StopPlayer ==
  /\ OnPlayer /\ Shows /\ Send("stop_watch", 0) /\ asked' = IF active THEN {FALSE} ELSE asked

ToggleFullscreen ==
  /\ "full" \in Inputs /\ OnPlayer /\ Shows /\ snap.view = "viewing" /\ texture # {} /\ asked' = {~active} /\ Quiet

LeaveFullscreen == OnPlayer /\ Shows /\ active /\ asked' = {FALSE} /\ Quiet

SetVolume ==
  /\ "volume" \in Inputs /\ OnPlayer /\ snap.sound
  /\ volume' \in {Muted(Synced)} \cup {Louder(Synced, p) : p \in Percents \ {Synced.percent}}
  /\ Send("volume", volume'.percent) /\ lost' = ~Sent
  /\ UNCHANGED asked

Input ==
  \/ Draw \/ TurnOn \/ TurnOff \/ ConfirmTurnOff \/ CloseDialog \/ OpenPanel \/ OpenMedia
  \/ WatchPeer \/ Back \/ ShareButton \/ ChooseTab \/ SelectSource \/ RefreshSources
  \/ StopPlayer \/ ToggleFullscreen \/ LeaveFullscreen \/ SetVolume

(***************************************************************************)
(* The window manager                                                      *)
(***************************************************************************)
ApplyViewport ==
  /\ asked # {} /\ full' \in asked /\ asked' = {}
  /\ UNCHANGED <<runtimeVars, queue, step, snap, pageVars, error, playerVars>>

(***************************************************************************)
(* The runtime                                                             *)
(***************************************************************************)
Interface == <<step, snap, pageVars, error, playerVars, full, asked>>

Take(op) ==
  /\ busy = "none" /\ queue # <<>> /\ Head(queue).op = op /\ queue' = Tail(queue)
  /\ UNCHANGED <<failures, Interface>>

TakeScan ==
  \/ /\ Take("start_scan") /\ UNCHANGED <<busy, engine, frame>>
     /\ pub' = IF pub.disc \in {"stopped", "failed"} THEN [pub EXCEPT !.disc = "starting"] ELSE pub
  \/ /\ Take("stop_scan") /\ UNCHANGED <<engine, frame>>
     /\ IF IsActive(pub) THEN pub' = [pub EXCEPT !.disc = "stopping"] /\ busy' = "stop_scan"
        ELSE UNCHANGED <<pub, busy>>

\* start_view and ViewOwner::start.
TakeWatch ==
  /\ Take("watch") /\ UNCHANGED <<busy>>
  /\ IF pub.disc = "ready" /\ Idle(pub) /\ pub.route /\ pub.gen < MaxGen
     THEN /\ pub' = [pub EXCEPT !.view = "preparing", !.gen = @ + 1, !.sound = FALSE]
          /\ engine' = {[gen |-> pub.gen + 1, percent |-> 100]} /\ frame' = {}
     ELSE UNCHANGED <<pub, engine, frame>>

Adjusted(c) == {IF e.gen = c.gen THEN [e EXCEPT !.percent = c.arg] ELSE e : e \in engine}

TakeVolume ==
  Take("volume") /\ engine' = Adjusted(Head(queue)) /\ UNCHANGED <<pub, busy, frame>>

\* The phase Stopping is not published: the handler awaits the playback task first.
TakeStopWatch ==
  /\ Take("stop_watch") /\ UNCHANGED <<pub, frame>>
  /\ IF Live(pub) THEN busy' = "stop_watch" /\ engine' = {} ELSE UNCHANGED <<busy, engine>>

TakeShare ==
  \/ /\ Take("share") /\ UNCHANGED <<engine, frame>>
     /\ IF pub.disc = "ready" /\ Idle(pub)
        THEN /\ pub' = [pub EXCEPT !.catalog = "loading"] /\ busy' = "share"
        ELSE UNCHANGED <<pub, busy>>
  \/ /\ Take("stop_share") /\ UNCHANGED <<busy, engine, frame>>
     /\ pub' = IF pub.media = "sharing" THEN [pub EXCEPT !.media = "idle"] ELSE pub

TakeSource ==
  \/ /\ Take("select") /\ UNCHANGED <<busy, engine, frame>>
     /\ pub' = IF pub.media # "sharing" THEN [pub EXCEPT !.source = Head(queue).arg] ELSE pub
  \/ /\ Take("refresh") /\ UNCHANGED <<engine, frame>>
     /\ IF pub.media # "sharing" THEN pub' = [pub EXCEPT !.catalog = "loading"] /\ busy' = "refresh"
        ELSE UNCHANGED <<pub, busy>>

NoMedia(disc) == [pub EXCEPT !.disc = disc, !.view = IF Live(pub) THEN "idle" ELSE @,
                             !.media = IF @ = "sharing" THEN "idle" ELSE @]

\* The handler's awaits are over: a stop joined the playback task.
Finish ==
  /\ busy # "none" /\ busy' = "none"
  /\ CASE busy = "stop_scan" -> /\ \E end \in {"stopped", "failed"} : pub' = NoMedia(end)
                                /\ frame' = {} /\ engine' = {}
       [] busy = "stop_watch" -> pub' = [pub EXCEPT !.view = "idle"] /\ frame' = {} /\ UNCHANGED engine
       [] busy = "share" -> /\ \E end \in {"sharing", "failed"} :
                                  pub' = [pub EXCEPT !.media = end, !.catalog = "ready"]
                            /\ UNCHANGED <<engine, frame>>
       [] busy = "refresh" -> pub' = [pub EXCEPT !.catalog = "ready"] /\ UNCHANGED <<engine, frame>>
  /\ UNCHANGED <<queue, failures, Interface>>

\* The start task reports; a refresh of the sources follows it.
Started ==
  /\ busy = "none" /\ pub.disc = "starting"
  /\ \/ pub' = [pub EXCEPT !.disc = "ready", !.catalog = "loading"] /\ busy' = "refresh" /\ UNCHANGED failures
     \/ /\ failures < MaxFailures /\ failures' = failures + 1
        /\ pub' = [pub EXCEPT !.disc = "failed", !.catalog = "loading"] /\ busy' = "refresh"
  /\ UNCHANGED <<queue, engine, frame, Interface>>

\* apply_view_event.
ViewMoves ==
  /\ busy = "none" /\ Live(pub)
  /\ \/ pub' = [pub EXCEPT !.view = "viewing"] /\ UNCHANGED <<engine, frame>>
     \/ "volume" \in Inputs /\ pub' = [pub EXCEPT !.sound = ~@] /\ UNCHANGED <<engine, frame>>
     \/ \E end \in {"idle", "failed"} : pub' = [pub EXCEPT !.view = end] /\ engine' = {} /\ frame' = {}
  /\ pub' # pub
  /\ UNCHANGED <<busy, queue, failures, Interface>>

ShareEnds ==
  /\ busy = "none" /\ pub.media = "sharing" /\ pub' = [pub EXCEPT !.media = "failed"]
  /\ UNCHANGED <<busy, queue, engine, frame, failures, Interface>>

\* A route goes, or a service ends under all of it.
Fails ==
  /\ busy = "none" /\ failures < MaxFailures /\ failures' = failures + 1
  /\ \/ pub.route /\ pub' = [pub EXCEPT !.route = FALSE] /\ UNCHANGED <<engine, frame>>
     \/ pub.disc = "ready" /\ pub' = NoMedia("failed") /\ engine' = {} /\ frame' = {}
  /\ UNCHANGED <<busy, queue, Interface>>

\* The playback task publishes a picture, whatever the runtime is doing.
Picture ==
  /\ Live(pub)
  /\ \E n \in 1 .. MaxPictures :
       /\ frame = (IF n = 1 THEN {} ELSE {[gen |-> pub.gen, number |-> n - 1]})
       /\ frame' = {[gen |-> pub.gen, number |-> n]}
  /\ UNCHANGED <<pub, busy, engine, failures, queue, Interface>>

Frame   == ReadSnapshot \/ CommitPicture \/ Input
Command == TakeScan \/ TakeWatch \/ TakeVolume \/ TakeStopWatch \/ TakeShare \/ TakeSource
Runtime == Started \/ ViewMoves \/ ShareEnds \/ Fails \/ Picture

Next == Frame \/ ApplyViewport \/ Command \/ Finish \/ Runtime

\* The interface repaints by itself, the window manager applies what it is
\* asked, and the runtime gets to its commands.
Fairness == WF_vars(Frame) /\ WF_vars(ApplyViewport) /\ WF_vars(Command) /\ WF_vars(Finish)

Spec     == Init /\ [][Next]_vars
FairSpec == Spec /\ Fairness

(***************************************************************************)
(* Properties                                                              *)
(***************************************************************************)
\* The volume the playback will have once the queue is through.
Volumes(e) == SelectSeq(queue, LAMBDA c : c.op = "volume" /\ c.gen = e.gen)
Coming(e) == IF Volumes(e) = <<>> THEN e.percent ELSE Last(Volumes(e)).arg

\* From one picture to the next: a later view, or a later picture of the same one.
Forward(t, u) == t.gen < u.gen \/ (t.gen = u.gen /\ t.number <= u.number)

\* Between snapshots, pictures and commands that travel on channels of their
\* own: the picture on screen is never of a view later than the shown one,
\* goes with the view that ended, and never goes back; the volume the player
\* shows is the one the playback of the same view gets, unless the queue
\* refused it, whatever views came and went in between.
ShowsTheCurrentView ==
  /\ [](\A t \in texture : t.gen <= snap.gen /\ (step = "draw" => Live(snap)))
  /\ [](\A e \in engine : volume.gen = e.gen /\ ~lost => Coming(e) = volume.percent)
  /\ [][\A t \in texture, u \in texture' : Forward(t, u)]_vars
=============================================================================
