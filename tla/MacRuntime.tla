------------------------------ MODULE MacRuntime ------------------------------
(***************************************************************************)
(* The macOS runtime (mac/src/runtime.rs with the owners of publication.rs *)
(* and playback.rs).                                                       *)
(*                                                                         *)
(* One loop waits in one of six places (`mode`): for services that start,  *)
(* on running services, after a failure, while the user has turned the LAN *)
(* off, while the system sleeps, or no longer.  `todo` holds what a        *)
(* handler that awaits still has to do.  Share and watch have one          *)
(* lifecycle and one generation; the publication is a future the loop      *)
(* polls itself, playback a task that reports through a bounded queue.     *)
(* Requests to turn the LAN on or off and events of the system come through *)
(* two queues that the loop serves in no fixed order.  Media commands act   *)
(* on running services only, so their place in the queue does not matter.  *)
(***************************************************************************)
EXTENDS Naturals, Sequences

CONSTANTS
  EventCap,   \* PLAYBACK_EVENT_CAPACITY
  MaxAsks,    \* bound: requests to turn the LAN on or off
  MaxSleeps,  \* bound: events of the system, suspend or resume
  MaxMedia    \* bound: no share or watch begins after this generation

MacAssumption ==
  /\ EventCap \in Nat \ {0}
  /\ MaxAsks \in Nat /\ MaxSleeps \in Nat /\ MaxMedia \in Nat

VARIABLES
  mode, todo,        \* where the loop waits; the rest of the running handler
  lan, sys, quit,    \* queued requests and system events; Shutdown was sent
  asks, sleeps,      \* how many were made
  pending, moved,    \* nearby_action_pending; discovery is of a later generation
  asked, ignored,    \* history: the last request, and that it was dropped
  resumed, restart,  \* wait_while_suspended
  services,          \* network::Services exist
  session, stopping, \* SessionPhase, nearby_stopping
  media, owner, gen, \* MediaPhase, MediaOwner, generation of the lifecycle
  source, sysAudio, shareAudio,  \* share_selection, share_system_audio, ShareAudioPhase
  stage, stageGen, soundtrack,   \* publication Stage, its generation, audio running
  handle, cancel, task, taskGen, \* playback Owner and its task
  frame,             \* generation of the frame in the channel, 0: None
  events             \* playback events

waitVars  == <<mode, todo>>
askVars   == <<lan, sys, quit, asks, sleeps, pending, asked, ignored>>
sleepVars == <<resumed, restart>>
netVars   == <<services, session, stopping, moved>>
slotVars  == <<media, owner, gen>>
choiceVars == <<source, sysAudio, shareAudio>>
pubVars   == <<stage, stageGen, soundtrack>>
taskVars  == <<handle, cancel, task, taskGen, frame, events>>
mediaVars == <<slotVars, choiceVars, pubVars, taskVars>>
vars == <<waitVars, askVars, sleepVars, netVars, mediaVars>>

Modes    == {"starting", "serving", "failed", "stopped", "asleep", "exited"}
Requests == {"On", "Off"}
Phases   == {"Idle", "PreparingWatch", "Watching", "PreparingShare", "Sharing",
             "Stopping", "Failed"}
Sources  == {"none", "window", "mainDisplay"}   \* only the last has system audio
Live     == {"opening", "first", "playing", "ending"}
Reports  == [type : {"Started", "Audio", "Ended"}, gen : Nat]
StepNames == {"joinMedia", "joinWatch", "closeServices", "toStart", "toSleep", "toStopped",
              "toFailed", "toExit"}

TaskLive   == task \in Live
Waiting(m) == mode = m /\ todo = <<>>
AtStep(s)  == todo # <<>> /\ Head(todo) = s
NextStep   == todo' = Tail(todo)
AtWatch    == owner = "Watch" /\ media \in {"PreparingWatch", "Watching"}
AtShare    == owner = "Share" /\ media \in {"PreparingShare", "Sharing"}

-----------------------------------------------------------------------------
(* AppSnapshot.                                                            *)

Choice(on, audio) == sysAudio' = on /\ shareAudio' = audio

\* clear_media_fields, and reset_share_audio after a share.
Vacate ==
  /\ owner' = "none"
  /\ IF owner = "Share" THEN Choice(FALSE, "Off") ELSE UNCHANGED <<sysAudio, shareAudio>>

ClearMedia == media' = "Idle" /\ gen' = gen + 1 /\ Vacate

Access == session = "Listening" /\ ~stopping /\ media = "Idle"

-----------------------------------------------------------------------------
(* Leaving a mode: teardown_media, the services, and where to go.          *)

PublicationKept    == UNCHANGED pubVars
PublicationDropped == stage' = "idle" /\ soundtrack' = FALSE /\ UNCHANGED stageGen

TeardownMedia ==
  /\ ClearMedia /\ PublicationDropped
  /\ cancel' = handle
  /\ UNCHANGED <<source, handle, task, taskGen, frame, events>>

Leave(steps) ==
  /\ todo' = steps
  /\ TeardownMedia /\ UNCHANGED <<mode, sleepVars, services, session, moved>>

WatchExited     == handle => ~TaskLive

Joined == handle' = FALSE /\ cancel' = FALSE /\ task' = IF TaskLive THEN task ELSE "none"

JoinMedia ==
  /\ AtStep("joinMedia") /\ WatchExited /\ NextStep
  /\ IF task = "panicked" THEN ClearMedia ELSE UNCHANGED <<slotVars, sysAudio, shareAudio>>
  /\ session' = IF ~stopping THEN session
                ELSE IF task = "panicked" THEN "Failed" ELSE "Stopped"
  /\ Joined /\ frame' = 0
  /\ UNCHANGED <<mode, askVars, sleepVars, services, stopping, moved, source, pubVars, taskGen,
                 events>>

\* A failed cleanup, of the task or of the services, shows only where the user
\* turned them off (complete_network_turn_off).
CloseServices(clean) ==
  /\ AtStep("closeServices") /\ NextStep
  /\ services' = FALSE
  /\ session' = IF stopping /\ ~clean THEN "Failed" ELSE session
  /\ UNCHANGED <<mode, askVars, sleepVars, stopping, moved, mediaVars>>

\* The snapshot gets a new generation of discovery, except by a failure.
Begins == moved' = (pending # "none")

\* begin_network_start
Starts == mode' = "starting" /\ session' = "Starting" /\ Begins /\ UNCHANGED stopping
\* suspend_snapshot, wait_while_suspended
Sleeps(again) ==
  /\ mode' = "asleep" /\ session' = "Stopped" /\ Begins /\ UNCHANGED stopping
  /\ resumed' = FALSE /\ restart' = again
\* mark_network_stopped; only a failed turn-off leaves Failed behind.
Stops(failed) ==
  /\ mode' = "stopped" /\ session' = (IF failed THEN "Failed" ELSE "Stopped")
  /\ stopping' = FALSE /\ Begins
Fails == mode' = "failed" /\ session' = "Failed" /\ UNCHANGED <<stopping, moved>>
Exits == mode' = "exited" /\ session' = "Stopped" /\ Begins /\ UNCHANGED stopping

Arrive ==
  /\ todo \in {<<"toStart">>, <<"toSleep">>, <<"toStopped">>, <<"toFailed">>, <<"toExit">>}
  /\ NextStep
  /\ \/ AtStep("toStart") /\ Starts /\ UNCHANGED sleepVars
     \/ AtStep("toSleep") /\ Sleeps(TRUE)
     \/ AtStep("toStopped") /\ Stops(stopping /\ session = "Failed") /\ UNCHANGED sleepVars
     \/ AtStep("toFailed") /\ Fails /\ UNCHANGED sleepVars
     \/ AtStep("toExit") /\ Exits /\ UNCHANGED sleepVars
  /\ UNCHANGED <<askVars, services, mediaVars>>

-----------------------------------------------------------------------------
(* Requests and system events, mode by mode.                               *)

Take(c) ==
  /\ todo = <<>> /\ lan # <<>> /\ Head(lan) = c /\ lan' = Tail(lan)
  /\ UNCHANGED <<sys, quit, asks, sleeps, pending, asked>>

TakeSys(e) ==
  /\ todo = <<>> /\ sys # <<>> /\ Head(sys) = e /\ sys' = Tail(sys)
  /\ UNCHANGED <<lan, quit, asks, sleeps, pending, asked, ignored>>

\* Shutdown is behind every request in its queue.
TakeQuit == todo = <<>> /\ quit /\ lan = <<>> /\ UNCHANGED askVars

Stays == UNCHANGED <<waitVars, sleepVars, netVars, mediaVars>>

\* wait_while_suspended keeps the last request for the wake.
IntentForgotten(on) == UNCHANGED restart
IntentKept(on)      == restart' = on

OnRestart ==
  /\ Take("On") /\ UNCHANGED ignored
  /\ \/ mode = "serving" /\ Leave(<<"joinMedia", "closeServices", "toStart">>) /\ UNCHANGED stopping
     \/ /\ mode \in {"starting", "failed", "stopped"} /\ Starts
        /\ UNCHANGED <<todo, sleepVars, services, mediaVars>>
     \/ /\ mode = "asleep" /\ IntentKept(TRUE)
        /\ UNCHANGED <<waitVars, resumed, netVars, mediaVars>>

\* A request to turn off that finds the network failed or off has no effect.
OnOff ==
  /\ Take("Off") /\ ignored' = (mode = "failed")
  /\ \/ mode = "serving" /\ Leave(<<"joinMedia", "closeServices", "toStopped">>) /\ stopping' = TRUE
     \/ mode = "starting" /\ Leave(<<"joinMedia", "toStopped">>) /\ UNCHANGED stopping
     \/ mode \in {"failed", "stopped"} /\ Stays
     \/ /\ mode = "asleep" /\ IntentKept(FALSE)
        /\ UNCHANGED <<waitVars, resumed, netVars, mediaVars>>

OnSuspend ==
  /\ TakeSys("Suspend")
  /\ \/ mode = "serving" /\ Leave(<<"joinMedia", "closeServices", "toSleep">>) /\ UNCHANGED stopping
     \/ mode = "starting" /\ Leave(<<"joinMedia", "toSleep">>) /\ UNCHANGED stopping
     \/ /\ mode \in {"failed", "stopped"} /\ Sleeps(mode = "failed")
        /\ UNCHANGED <<todo, services, mediaVars>>
     \/ mode = "asleep" /\ ~resumed /\ Stays

OnResume ==
  /\ TakeSys("Resume")
  /\ \/ mode \in {"starting", "serving", "failed", "stopped"} /\ Stays
     \/ /\ mode = "asleep" /\ ~resumed /\ resumed' = TRUE
        /\ UNCHANGED <<waitVars, restart, netVars, mediaVars>>

\* Queued requests are taken first.
Wake ==
  /\ Waiting("asleep") /\ resumed /\ lan = <<>> /\ ~quit
  /\ IF restart THEN Starts ELSE Stops(FALSE)
  /\ resumed' = FALSE /\ UNCHANGED <<restart, todo, askVars, services, mediaVars>>

OnShutdown ==
  /\ TakeQuit
  /\ \/ mode = "serving" /\ Leave(<<"joinMedia", "closeServices", "toExit">>) /\ UNCHANGED stopping
     \/ mode = "starting" /\ Leave(<<"joinMedia", "toExit">>) /\ UNCHANGED stopping
     \/ /\ mode \in {"failed", "stopped", "asleep"} /\ Exits
        /\ UNCHANGED <<todo, sleepVars, services, mediaVars>>

-----------------------------------------------------------------------------
(* Services.                                                               *)

StartSucceeds ==
  /\ Waiting("starting") /\ mode' = "serving"
  /\ services' = TRUE /\ session' = "Listening"
  /\ UNCHANGED <<todo, askVars, sleepVars, stopping, moved, mediaVars>>

StartFails ==
  /\ Waiting("starting") /\ Fails
  /\ UNCHANGED <<todo, askVars, sleepVars, services, mediaVars>>

\* Discovery, sessions and directory have all ended.
ServicesEnd ==
  /\ Waiting("serving") /\ Leave(<<"joinMedia", "closeServices", "toFailed">>)
  /\ UNCHANGED <<stopping, askVars>>

ListenerStops ==
  /\ Waiting("serving") /\ session = "Listening" /\ session' = "Failed"
  /\ UNCHANGED <<waitVars, askVars, sleepVars, services, stopping, moved, mediaVars>>

-----------------------------------------------------------------------------
(* Commands on media.                                                      *)

Idles == UNCHANGED <<waitVars, askVars, sleepVars, netVars>>

WatchScreen ==
  /\ Waiting("serving") /\ Access /\ gen < MaxMedia
  /\ media' = "PreparingWatch" /\ owner' = "Watch" /\ gen' = gen + 1
  /\ handle' = TRUE /\ cancel' = FALSE /\ task' = "opening" /\ taskGen' = gen + 1
  /\ frame' = 0
  /\ Idles /\ UNCHANGED <<choiceVars, pubVars, events>>

StopWatching ==
  /\ Waiting("serving") /\ owner = "Watch"
  /\ media \in {"PreparingWatch", "Watching", "Failed"}
  /\ media' = "Stopping" /\ gen' = gen + 1 /\ cancel' = handle
  /\ todo' = <<"joinWatch">>
  /\ UNCHANGED <<mode, askVars, sleepVars, netVars, owner, choiceVars, pubVars, handle,
                 task, taskGen, frame, events>>

\* A task that panicked leaves Failed, until the stop is repeated.
JoinWatch ==
  /\ AtStep("joinWatch") /\ WatchExited /\ NextStep
  /\ IF task = "panicked" THEN media' = "Failed" /\ UNCHANGED <<owner, sysAudio, shareAudio>>
     ELSE media' = "Idle" /\ Vacate
  /\ Joined /\ frame' = 0
  /\ UNCHANGED <<mode, askVars, sleepVars, netVars, gen, source, pubVars, taskGen, events>>

SelectSource(s) ==
  /\ Waiting("serving") /\ media \in {"Idle", "Failed"}
  /\ source' = s /\ Choice(FALSE, "Off")
  /\ Idles /\ UNCHANGED <<slotVars, pubVars, taskVars>>

SetSystemAudio(on) ==
  /\ Waiting("serving") /\ media = "Idle" /\ (on => source = "mainDisplay")
  /\ Choice(on, "Off")
  /\ Idles /\ UNCHANGED <<source, slotVars, pubVars, taskVars>>

StartSharing ==
  /\ Waiting("serving") /\ Access /\ source # "none" /\ gen < MaxMedia
  /\ media' = "PreparingShare" /\ owner' = "Share" /\ gen' = gen + 1
  /\ Choice(sysAudio, IF sysAudio THEN "Preparing" ELSE "Off")
  /\ stage' = "preparing" /\ stageGen' = gen + 1 /\ soundtrack' = FALSE
  /\ Idles /\ UNCHANGED <<source, taskVars>>

StopSharing ==
  /\ Waiting("serving") /\ owner = "Share"
  /\ media \in {"PreparingShare", "Sharing", "Failed"}
  /\ media' = "Idle" /\ gen' = gen + 1 /\ Vacate /\ PublicationDropped
  /\ Idles /\ UNCHANGED <<source, taskVars>>

-----------------------------------------------------------------------------
(* The publication, polled by the loop.                                    *)

Polled(at) == Waiting("serving") /\ stage = at /\ Idles /\ UNCHANGED taskVars
CurrentShare == AtShare /\ stageGen = gen

Announced(sound) ==
  /\ Polled("preparing") /\ stage' = "running" /\ soundtrack' = (sound = "Included")
  /\ (sound = "Off" <=> ~sysAudio)
  /\ IF CurrentShare /\ media = "PreparingShare"
     THEN media' = "Sharing" /\ shareAudio' = sound ELSE UNCHANGED <<media, shareAudio>>
  /\ UNCHANGED <<owner, gen, source, sysAudio, stageGen>>

AudioFails ==
  /\ Polled("running") /\ soundtrack /\ soundtrack' = FALSE
  /\ shareAudio' = IF CurrentShare THEN "Failed" ELSE shareAudio
  /\ UNCHANGED <<slotVars, source, sysAudio, stage, stageGen>>

\* Preparing fails, or capture and encoding end; the source may be gone.
PublicationEnds(result) ==
  /\ Polled("preparing") \/ Polled("running")
  /\ stage = "running" => result # "gone"
  /\ stage = "preparing" => result # "ok"
  /\ stage' = "idle" /\ soundtrack' = FALSE /\ UNCHANGED stageGen
  /\ IF ~CurrentShare THEN UNCHANGED <<slotVars, choiceVars>>
     ELSE IF result = "ok" THEN ClearMedia /\ UNCHANGED source
     ELSE /\ media' = "Failed" /\ UNCHANGED <<owner, gen>>
          /\ source' = IF result = "gone" THEN "none" ELSE source
          /\ Choice(sysAudio /\ result # "gone", "Off")

-----------------------------------------------------------------------------
(* The playback task and its reports.                                      *)

TaskMoves(from, to) ==
  /\ task = from /\ task' = to
  /\ UNCHANGED <<waitVars, askVars, sleepVars, netVars, slotVars, choiceVars, pubVars,
                 handle, cancel, taskGen>>

Quietly      == UNCHANGED <<frame, events>>
Report(type) ==
  /\ Len(events) < EventCap
  /\ events' = Append(events, [type |-> type, gen |-> taskGen]) /\ UNCHANGED frame

Shows      == /\ (TaskMoves("opening", "first") \/ TaskMoves("playing", "playing"))
              /\ frame' = taskGen /\ UNCHANGED events
Started    == TaskMoves("first", "playing") /\ Report("Started")
Sounds     == TaskMoves("playing", "playing") /\ Report("Audio")
Breaks     == \E s \in {"opening", "playing"} : TaskMoves(s, "ending") /\ Quietly
Panics     == \E s \in {"opening", "playing"} : TaskMoves(s, "panicked") /\ Quietly
Ended      == TaskMoves("ending", "done") /\ Report("Ended")

ReportInsisted == task \notin {"first", "ending"}
ReportGivenUp  == TRUE

Cancelled ==
  /\ cancel /\ ReportGivenUp
  /\ \E s \in Live : TaskMoves(s, "done") /\ Quietly

CurrentWatch(e) == AtWatch /\ e.gen = gen

OnPlayback ==
  /\ Waiting("serving") /\ events # <<>> /\ events' = Tail(events)
  /\ LET e == Head(events) IN
     \/ /\ e.type = "Started"
        /\ media' = IF CurrentWatch(e) THEN "Watching" ELSE media
        /\ UNCHANGED frame
     \/ e.type = "Audio" /\ UNCHANGED <<media, frame>>
     \/ /\ e.type = "Ended"     \* with an error: Ok is only said to a cancel
        /\ media' = IF CurrentWatch(e) THEN "Failed" ELSE media
        /\ frame' = IF CurrentWatch(e) THEN 0 ELSE frame
  /\ Idles /\ UNCHANGED <<owner, gen, choiceVars, pubVars, handle, cancel, task, taskGen>>

-----------------------------------------------------------------------------
(* The user and the system.                                                *)

\* The button offers Off while discovery is active, else On, and waits for
\* the snapshot to answer the last request (begin_nearby_action).
UserAsks(c) ==
  /\ pending = "none" /\ ~stopping /\ ~quit /\ asks < MaxAsks /\ asks' = asks + 1
  /\ \/ c = "Off" /\ mode \in {"starting", "serving"}
     \/ c = "On" /\ mode \in {"serving", "failed", "stopped"}
  /\ lan' = Append(lan, c) /\ asked' = c /\ ignored' = FALSE
  /\ pending' = c /\ moved' = FALSE
  /\ UNCHANGED <<sys, quit, sleeps, waitVars, sleepVars, services, session, stopping, mediaVars>>

\* reconcile_nearby_action
Acknowledge ==
  /\ pending # "none" /\ moved
  /\ mode # "asleep" /\ (mode \in {"stopped", "exited"} <=> pending = "Off")
  /\ pending' = "none" /\ moved' = FALSE
  /\ UNCHANGED <<lan, sys, quit, asks, sleeps, asked, ignored, waitVars, sleepVars, services,
                 session, stopping, mediaVars>>

SystemSays(e) ==
  /\ mode # "exited" /\ sleeps < MaxSleeps /\ sleeps' = sleeps + 1
  /\ sys' = Append(sys, e)
  /\ UNCHANGED <<lan, quit, asks, pending, asked, ignored>> /\ Stays

UserQuits ==
  /\ ~quit /\ quit' = TRUE
  /\ UNCHANGED <<lan, sys, asks, sleeps, pending, asked, ignored>> /\ Stays

\* The program starts its network at once.
Init ==
  /\ mode = "starting" /\ todo = <<>>
  /\ lan = <<>> /\ sys = <<>> /\ quit = FALSE /\ asks = 0 /\ sleeps = 0
  /\ pending = "none" /\ moved = FALSE
  /\ asked = "nothing" /\ ignored = FALSE /\ resumed = FALSE /\ restart = TRUE
  /\ services = FALSE /\ session = "Starting" /\ stopping = FALSE
  /\ media = "Idle" /\ owner = "none" /\ gen = 0
  /\ source = "none" /\ sysAudio = FALSE /\ shareAudio = "Off"
  /\ stage = "idle" /\ stageGen = 0 /\ soundtrack = FALSE
  /\ handle = FALSE /\ cancel = FALSE /\ task = "none" /\ taskGen = 0
  /\ frame = 0 /\ events = <<>>

World == \/ \E c \in Requests : UserAsks(c)
         \/ \E e \in {"Suspend", "Resume"} : SystemSays(e)
         \/ UserQuits \/ Acknowledge

Handler  == JoinMedia \/ JoinWatch \/ Arrive \/ \E clean \in BOOLEAN : CloseServices(clean)
Control  == OnRestart \/ OnOff \/ OnSuspend \/ OnResume \/ Wake \/ OnShutdown
Services == StartSucceeds \/ StartFails \/ ServicesEnd \/ ListenerStops

Command  == \/ WatchScreen \/ StopWatching \/ StartSharing \/ StopSharing
            \/ \E s \in Sources \ {"none"} : SelectSource(s)
            \/ \E on \in BOOLEAN : SetSystemAudio(on)

Publication == \/ \E sound \in {"Off", "Included", "Failed"} : Announced(sound)
               \/ AudioFails \/ \E r \in {"ok", "failed", "gone"} : PublicationEnds(r)

Playback == Shows \/ Started \/ Sounds \/ Breaks \/ Panics \/ Ended \/ Cancelled \/ OnPlayback

Next == World \/ Handler \/ Control \/ Services \/ Command \/ Publication \/ Playback

\* The loop goes on with a handler and, as select chooses at random, takes in
\* the end every request and event that keeps being there; a cancelled task
\* sees its cancel.
Fairness ==
  /\ WF_vars(Handler) /\ WF_vars(Cancelled) /\ WF_vars(Wake) /\ WF_vars(Acknowledge)
  /\ SF_vars(OnRestart \/ OnOff) /\ SF_vars(OnSuspend \/ OnResume) /\ SF_vars(OnShutdown)

Spec == Init /\ [][Next]_vars /\ Fairness

-----------------------------------------------------------------------------
(* Properties.                                                             *)

\* The parts of the type invariant.
WaitFlags ==
  /\ quit \in BOOLEAN /\ moved \in BOOLEAN /\ ignored \in BOOLEAN
  /\ resumed \in BOOLEAN /\ restart \in BOOLEAN
  /\ services \in BOOLEAN /\ stopping \in BOOLEAN

MediaFlags ==
  /\ sysAudio \in BOOLEAN /\ soundtrack \in BOOLEAN
  /\ handle \in BOOLEAN /\ cancel \in BOOLEAN

LoopPhases ==
  /\ mode \in Modes /\ session \in {"Starting", "Listening", "Failed", "Stopped"}
  /\ pending \in Requests \cup {"none"} /\ asked \in Requests \cup {"nothing"}

MediaPhases ==
  /\ media \in Phases /\ owner \in {"none", "Watch", "Share"} /\ source \in Sources
  /\ shareAudio \in {"Off", "Preparing", "Included", "Failed"}
  /\ stage \in {"idle", "preparing", "running"}
  /\ task \in Live \cup {"none", "done", "panicked"}

Generations ==
  /\ asks \in Nat /\ sleeps \in Nat
  /\ gen \in Nat /\ stageGen \in Nat /\ taskGen \in Nat /\ frame \in Nat

Queues ==
  /\ todo \in Seq(StepNames)
  /\ lan \in Seq(Requests) /\ sys \in Seq({"Suspend", "Resume"})
  /\ events \in Seq(Reports) /\ Len(events) <= EventCap

\* Every variable has its type; the queue of playback events is bounded.
TypeOK == WaitFlags /\ MediaFlags /\ LoopPhases /\ MediaPhases /\ Generations /\ Queues

\* One owner at a time, and what it owns is what runs: the publication is of
\* the generation shown, a live task is the watch shown or is being joined,
\* the task a new watch would displace is gone (debug_assert of Owner::start),
\* audio is never promised for a source that has none nor shown without a
\* share, and no frame of an earlier watch is left on the screen.
MacOwners ==
  /\ TypeOK
  /\ stage # "idle" <=> AtShare
  /\ stage # "idle" => stageGen = gen
  /\ TaskLive => handle /\ ((AtWatch /\ taskGen = gen) \/ todo # <<>>)
  /\ ~(TaskLive /\ stage # "idle")
  /\ media = "Idle" /\ todo = <<>> => ~handle
  /\ media = "Idle" <=> owner = "none"
  /\ sysAudio => source = "mainDisplay"
  /\ shareAudio # "Off" => AtShare
  /\ frame # 0 /\ todo = <<>> => AtWatch /\ frame = gen

\* Outside of running services nothing of the LAN or of the media exists:
\* after a failed start, a failure, a turn-off, on the way to sleep.
DownIsDark ==
  todo = <<>> /\ mode # "serving" =>
    /\ ~services /\ session # "Listening" /\ ~stopping
    /\ media = "Idle" /\ stage = "idle" /\ ~TaskLive /\ frame = 0

\* The network is up or off as the user last asked, however requests, sleep,
\* wake and failures interleave.  `ignored` excepts the request to turn off
\* that meets a failed network (OffIsAcknowledged).
NetworkFollowsRequests ==
  todo = <<>> /\ lan = <<>> =>
    /\ mode \in {"starting", "serving"} => asked # "Off" \/ ignored
    /\ mode = "stopped" => asked = "Off"

\* A request is answered, so that its button works again; asleep, the answer
\* waits for the wake.
Answered == pending = "none" \/ mode \in {"asleep", "exited"}

\* As the test nearby_off_acknowledgement_allows_reopening_without_clearing_early
\* says, a request to turn off is acknowledged and the LAN can be opened again.
OffIsAcknowledged == pending = "Off" ~> Answered
=============================================================================
