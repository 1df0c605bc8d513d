# MoQ Cast desktop: a TLA+ model of the LAN screen sharing programs

MoQ Cast is a desktop program that shares a screen on the local network. Each
app announces itself over mDNS, opens a listener, keeps one session to every
peer it finds, and lets the user either share the own screen or watch one remote
screen. There is a Linux, a Windows and a macOS app with the same job, a few
shared crates, and a Windows tray companion that only does discovery.

The control logic of an app is one asynchronous *supervisor* (or runtime) that
owns everything and a crowd of tokio tasks and threads that report back to it.
This project models that logic, checks it with TLC, and proves the safety of the
Linux supervisor, of its playback audio and of the sessions of all three systems
with TLAPS, for every value of the constants.

Paths below are relative to the repository; `supervisor.rs` is
`linux/src/runtime/supervisor.rs`, `snapshot.rs` is `linux/src/app/snapshot.rs`.

## 1. The system

| Component | State it keeps | Operations | Module |
|---|---|---|---|
| Linux media slot (`supervisor.rs`, media half of `snapshot.rs`, `publish/session.rs`) | `MediaState`, `PublishResources`, `ViewResources`, catalogue, directory and routes | start/stop share and watch, reports of their tasks, announcements, Off | `MediaSlot`, `MediaLease` |
| Linux LAN discovery (`supervisor.rs`, `network/service.rs`) | `DiscoveryState`, `DiscoveryResources`, services being retired | start, retry, recovery, Off, service events | `LanDiscovery` |
| Linux outbound mesh (`supervisor.rs`, `network/discovery.rs`, `network/peer.rs`) | `PeerRegistry`, `PeerResources` per peer, device rows | found, lost, dial, refresh, retry, ready, closed, Off | `PeerMesh` |
| Linux inbound sessions (`supervisor.rs`, `network/server.rs`) | numbered `PeerResources`, session count | accept, ready, closed, Off | `InboundSessions` |
| Linux playback (`runtime/playback*.rs`) | selection, decoder, video scheduler, clocks | catalogues, frames, anchors, teardown | `LinuxPlayback` |
| Linux playback audio (`playback/audio.rs`, `playback_audio_continuity.rs`) | one audio generation, sink, continuity | frames, writes, anchors, stop and abort | `LinuxAudio` |
| Linux publication (`publish/*.rs`) | source, PCM queue, timeline, result | choice of source, capture, encode, cancel | `LinuxPublication` |
| Windows runtime (`windows/src/runtime.rs`, `media.rs`) | services, share and view slots, event queues | commands, reports, stops, restarts | `WindowsRuntime` |
| Windows sessions (`session/*.rs`) | phases, generations, transports per peer | found, lost, dial, transitions, shutdown | `WindowsSessions` |
| Windows playback (`playback.rs`, `playback/*.rs`) | scheduler, estimate of the sound | catalogues, frames, clock | `WindowsPlayback` |
| Windows publication (`media.rs`, `audio/*.rs`) | catalogue, capture thread, its queue | refresh, share, capture, restart | `WindowsPublication` |
| macOS runtime (`mac/src/runtime.rs`, `publication.rs`) | network owner, media owner, pending requests | requests, sleep, wake, failures, quit | `MacRuntime` |
| macOS sessions (`network/**`) | rows, transports, one dial | advertisements, transitions, shutdown | `MacSessions` |
| macOS playback (`playback.rs`, `playback/*.rs`) | sorted scheduler, leases, fallback clock | catalogues, frames, presentation errors | `MacPlayback` |
| Windows and macOS windows (`app.rs`, `app/*.rs`, `player.rs`) | snapshot, picture, pending inputs | frames of the interface, inputs, commands | `WindowsDesktop`, `MacDesktop`, `PlayerVolume` |
| Tray companion (`windows-lite/src`) | registry, snapshot, rate limit, ids | browse, serve, quit | `TrayCompanion` |
| Diagnostics (`shared/diagnostics/src`) | rings, writer queue, files | record, write, snapshot, export, rotate | `Diagnostics`, `LogFiles` |
| Cleanup errors, view facts (`shared/task-cleanup.rs`, `shared/lan-state`) | collected failures; none | join, record; `access`, `visible` | operators of the Linux modules |
| Bandwidth estimates, build provenance, vendored crates | | | not modelled |

A supervisor is a `tokio::select!` over commands, queues and tasks. Handlers run
one at a time, but next to the tasks, and the handlers that stop something
`await` a task in the middle. Four things make this hard:

* **Bounded queues and joins.** A task may block sending its report into a full
  queue, while the loop, which drains that queue, waits for the task.
* **Late reports.** A report made before a stop, a restart or a new dial is
  handled after it. Every kind of report carries a generation or key, and each
  handler has its own guard and its own idea of what a stale report still owns.
* **Two copies.** Rows and routes, discovery and services, a session and its
  row, a snapshot and the picture on screen are separate variables.
* **Partial failure.** A task can fail while Off joins a dozen of them.

What makes the components correct: the slot never has two activities and every
`expect` is justified; exactly one thing drives discovery and a stopped LAN is
reopened only by the user; a healthy session survives lost advertisements, a
report meets only its own dial, every connection has an owner and a dial keeps
its deadline; only the current decoder and sound feed the picture; every unit of
sound, every line of a log and every gap of a recording is accounted for; and
every stop returns. `PROJECT.json` lists the hazards with the lines where they
bite, the properties that cover them, and the uncovered ones with the reason.

## 2. How the modules correspond to the code

* `pc` (or `todo`, `step`) says where the loop is. A handler without an await is
  one action; one that awaits is cut there (`StopLan`, `StopLanJoined`,
  `StopLanDrain`). Between the parts only tasks run, never another handler.
* A task is a small state in a variable or an element of a set; an aborted one
  may still get its one report out until the abort takes effect, because the
  runtime has several threads.
* A queue is a sequence with a capacity; a sender without room waits.
* A rejected command, and a report whose handler only logs, is a stutter unless
  it takes something off a queue.
* Definitions that come in pairs, the one marked or preceded by *defective
  variant*, hold the plausible bugs each property was tried against. They are
  part of no specification.

**MediaSlot.** `media`/`mediaPath` are `MediaState`; `pubGen`, `pubHandle`,
`pubCancel` the fields of `PublishResources`, `pubTask`/`pubRun` the task and
the generation it captured; likewise for the view. `shown` and `frame` say which
view generation is behind the status line and the frame. An `expect` that could
fail sends `pc` to `"panicked"`. The report of a publication gives up on
cancellation first (a biased select); those of a view do not. The rest of the
supervisor appears by its effects (`LanLaunch`, `LanReady`, `PrunePeer`,
`LanQueues`), which allows more orders than the program has, not fewer.

**LanDiscovery.** One generation is one attempt to have services up. `start`,
`retry`, `services` hold the generation their handle refers to; `retiring` are
services being shut down. `CancelCurrent` is `cancel_current`, `Recover` is
`recover_discovery`.

**PeerMesh.** `out[p]` is the `PeerResources` of a peer, kept as a tombstone so
that its generation only grows. `attempt.born` is the generation at which the
deadline of the attempt began: "the same deadline" without a clock.

**InboundSessions.** Entries are numbered, never reused, closed together.

**WindowsRuntime, MacRuntime.** `todo` is the rest of the handler that is at an
await. The publication and the view report through queues of their own on
Windows and one queue on macOS, where share and watch draw from one counter of
generations. `pending`, `asked` of `MacRuntime` are the interface's memory of a
request that is not answered.

**WindowsSessions, MacSessions.** The session loop with its observers of
transports. In `MacSessions` a dial is a future that every other event cuts
short and resumes, and `elapsed` counts its time against the deadline.

**LinuxPlayback, WindowsPlayback, MacPlayback.** A clock is kept as the position
it has reached and a deadline as what remains; one `Tick` moves them. Readers
and the audio task are processes with bounded channels. `LinuxAudio` opens the
audio task of `LinuxPlayback`: frames in parts, the sink, the anchor, and
teardown by its owner for a reason. As in the code, an anchored clock runs on
after an underrun until the end of the frame is written, and if `playback::run`
itself is dropped by a panic the task is aborted without reason or summary.

**LinuxPublication, WindowsPublication.** The capture thread, the bounded queue,
the encoder and the futures of one task. On Windows the join of the WASAPI
thread blocks the task that audio and video share.

**WindowsDesktop, MacDesktop.** A frame of the interface copies the snapshot,
takes the newest picture, draws and handles at most one input, and everything
else moves in between. As in the code the last picture of a view may remain
under the *Preparing* of the next one. `ViewPhase::Stopping` and
`MediaPhase::Preparing` are never published by the Windows runtime and so never
seen. A frame that arrives late is kept off the screen by `ShouldCommit` on
Windows and by `Presentable` on macOS, and dropping the generation from either is
found; `Newer` is defensive, because the channel of pictures never goes back, and
so is the check of the volume's generation on macOS, where commands keep their
order. The info panel, settings, the diagnostics
page, notices and sleep are left out, and so is a discovery or listener that
fails alone.

**TrayCompanion.** Browser, bridge and tray threads; the loopback HTTP page with
its grant, origin check, opaque ids and sliding rate limit. An id is the number
of its draw and so never drawn twice; the page remembers every pair of id and
device it was told, so that an id can meet requests made after its device left
and came back.

**Diagnostics, LogFiles.** Rings whose lock is only tried, the writer's queue
with half its room for details, losses, snapshots, export and shutdown; below,
rotation by size and age and retention over restarts and file system failures.
Every step of a write, a rotation or a reset may fail after those before it took
effect: the file may be rotated while the counters are reset or stale, and a line
torn in half takes room without being counted. `FileRotate::rotate` itself is
external and either rotates or does not.

## 3. What TLC checks

The media slot, discovery and mesh of Linux have an MC module each and its audio
a configuration; the inbound sessions, the other systems, the playbacks, the
publications, the interfaces and the log are checked in one run per question. Such a
module (`MCSessions`, `MCRuntimes`, `MCPlayback`, `MCPipelines`, `MCDesktops`) instantiates the components, and
`build` picks the one that runs while the variables of the others stay as they
start. So each behaviour is one of a single component, the state space is the
sum and not the product, and one property asks the same question of all builds.
`MCSessions` and `MCRuntimes` extend the module of macOS, take the others as
instances and leave every bound to the configuration, so that the same text is
checked by TLC and proved by TLAPS for every size of each build. Where one bound
does for two builds of macOS, a second constant says what the smaller of them
leaves out (`FewSleeps`, `FewMedia`).

| Run | Bounds | States | Shows |
|---|---|---|---|
| `media_slot` | 2 screens, queue 1, 3 generations | 0.8 M | types, exclusive slot, no panic, directory, current view only, Off leaves nothing, refinement of `MediaLease` with its liveness, ended activities free the slot |
| `lan_discovery` | 1 peer, queues 2, 2 retries, 3 generations | 0.26 M | one driver, ownership, admission, only the user reopens, a scan settles, Off completes |
| `peer_mesh` | 1 peer, 2 identities, 2 addresses, 2 retries, queue 2 | 0.26 M | ownership, rows, healthy sessions kept, deadlines, a known peer settles, Off completes |
| `sessions` | 3 inbound on Linux, 2 peers on Windows, 1 on macOS with 2 identities, queues 2 | 0.45 M | rows follow sessions and, for a device that keeps its identity, *Connecting* is pending; counts; dials and shutdown end |
| `runtimes` | queues 1, 2 activities; 2 requests, 1 or 2 sleeps on macOS | 0.35 M | one owner, nothing left open, network as asked, handlers return, refinement of `MediaLease` |
| `playback` | 2 catalogues with 1 frame, or 1 with 2 frames | 0.9 M | only the current generation is shown, frames when due, playback ends |
| `linux_audio` | 2 generations, 3 frames of 3 units in chunks of 2, sink 3 | 0.8 M | sound is accounted, a generation ends |
| `pipelines` | publications: queues of 1, up to 3 chunks or packets, 2 publications; records: 2 lines, 1 or 2 threads, queue 2, rings 1; files: 5 lines and 4 ticks in files of 2 with a history of 1, 4 lines and 3 ticks in files of 1 with a history of 2 | 0.95 M | gaps are seen, source as picked, records accounted, files keep the latest, captures, exports and shutdowns end |
| `desktops` | queue 1; up to 2 views and 2 pictures, on macOS generations up to 3; tray: 2 devices, up to 4 requests and 4 snapshots | 0.72 M | what is shown is what runs, ids stay with their device, inputs take effect |
| `mac_runtime_off` | no media, 1 request, 2 sleeps | small | violated: see section 6 |
| `mac_sessions_row` | 1 peer, 2 identities, queue 2 | small | violated: see section 6 |
| `logs_daily` | retention 3, rotation interval 2 | small | violated: see section 6 |

Why the bounds are enough. *Generations:* guards compare a report with the
current generation; start, stop and a new start need at most three, and a report
of the first is then older than two changes. *Queues:* a queue of one makes every
second sender block, one of two adds the order of two reports. *Peers and
screens:* their rows are independent in the code; two make a set that is neither
empty nor complete, and in `PeerMesh` one peer with two identities and addresses
reaches every branch of the registry. *Retries:* two distinguish first, last and
exhausted. *Frames and chunks:* with a scheduler of one or two, two frames are
one that waits and one that replaces it or is late. *Views and pictures:* the
second picture of a view can be missed, or arrive behind that of the next view; a
stop raises the generation on macOS, so a second view is generation 3. *Ids:*
four snapshots let a device leave, another come and the first return; four
requests let the page ask before, between and after. *Log:* five lines fill a
file of two twice over, four lines fill, rotate and drop a file of one with a
history of two.

`CHECK_DEADLOCK FALSE` stands where the program may stop: a LAN that is off with
no command left, closed services, ended playback and exited
programs. In the other runs deadlock is checked.

### Fairness

Weak fairness on the loops' own steps: tokio polls its select, a resumed handler
continues, an abort takes effect, a cancelled task stops, a thread runs, a frame
of the interface is drawn. Strong fairness where a task waits for room in a
queue, because tokio's bounded channel serves waiting senders in arrival order,
and where an unbiased `select!` picks at random among ready branches
(`OnAudio`, `OnEnded` of `WindowsPublication`, the requests of `MacRuntime`).
A dial ends by its deadline and a backoff or scan window by its timer. No
fairness is assumed of the user, the network, a library failure, or a task that
is not obliged to end. Three choices are worth naming. `MacSessions` has liveness
only for a device that keeps its identity (`"mac, steady"`): one that flips
identities forever keeps a dial going forever; nor is its row judged by the strict reading of
*Connecting* elsewhere (section 6). `Diagnostics` uses weak fairness
with a bounded number of lines: producers that never pause could starve a
blocking export. And only the small variant of a component (`WinRuns`,
`MacRuns`, ...) carries fairness where the larger one is there for safety.

## 4. What is proved

TLAPS checks the following for every set of peers, screens, identities and
addresses, every queue capacity, retry limit and bound of generations. TLC shows
each property on the instance of section 3; the theorem removes the bounds.

| Module | Theorems | Property of a run |
|---|---|---|
| `MediaSlotProofs` | `TypeCorrect`, `SlotExclusive`, `HandlersDoNotPanic`, `DirectoryMatchesRoutes`, `ViewerShowsTheCurrentView`, `OffIsClean` | all six invariants of `media_slot` |
| | `ReportsMeetPhase` | the inductive invariant |
| | `SlotIsALease` | the safety half of `ImplementsLease` |
| `LanDiscoveryProofs` | `LanOwnedAndQuiet`, `LanActiveHasOneDriver`, `LanReadyOnLiveServicesOnly`, `LanOnlyTheUserReopens` | every safety property of `lan_discovery` |
| | `LanTypeCorrect`, `LanInvariantHolds` | types and the inductive invariant |
| `PeerMeshProofs` | `MeshOwnedAndQuiet`, `MeshRowShowsTheSession`, `MeshHealthySessionIsKept`, `MeshDeadlineIsNotExtended` | every safety property of `peer_mesh` |
| | `MeshTypeCorrect`, `MeshInvariantHolds` | types and the inductive invariant |
| `LinuxAudioProofs` | `AudioIsAccounted`, `AudioInvariantHolds` | `SoundIsAccounted` of `linux_audio` |
| `WindowsSessionsProofs` | `WindowsRowsAreDriven`, `WindowsSnapshotIsTrue`, `SessionsInvariantHolds` | the Windows halves of `RowsFollowSessions` and `InboundIsTrue` |
| `SessionsProofs` | `RowsAlwaysFollow`, `InboundIsAlwaysTrue` | both invariants of `sessions`, of the composition, with what a steady identity adds |
| | `MacRowsFollowTransport`, `MacInvariantHolds` | the macOS half of `RowsFollowSessions` |
| | `InboundIsOwned`, `ViewersAreCounted`, `InboundInvariantHolds` | the Linux half of `InboundIsTrue` |
| `RuntimesProofs` | `OneOwnerAlways`, `NetworkAlwaysFollows` | both invariants of `runtimes`, of the composition |
| | `WindowsMediaIsALease` | the safety half of `ImplementsLease` |
| | `WindowsInvariantHolds`, `MacInvariantHolds` | the inductive invariants |
| `QueueLemmas` | what a sequence holds after `Tail`, `Append`, `SelectSeq` | cited by the others |

**Assumptions.** On constants only. `SlotAssumption`, `DiscoveryAssumption`,
`MeshAssumption`, `InboundAssumption`: queues have room for at least one report
(tokio refuses a channel of none) and the bounds are numbers. `NoneAssumption`
and the first line of `SlotAssumption`: the values that stand for `None` are none
of the others. `LinuxAudioAssumption`: a frame, a chunk, the sink and the queue
hold at least one unit; gaps between frames may be any integer, backwards too.
TLC evaluates them in every run. `InboundAssumption`, `SessionsAssumption` and
`MacSessionsAssumption` (the dialled devices are devices, the inbound sessions
finitely many, no identity is the one that stands for none) are hypotheses of
their theorems because the modules are instantiated; `MCSessions`
asserts all three (`BuildsAssumption`) of constants of its own, so that what is
proved of the composition holds for every size of each build. `MCRuntimes` does
the same for `WindowsAssumption` and `MacAssumption` (`RuntimesAssumption`).

**Argument.** None of the properties is inductive: a handler is right about the
report in front of it only because of what the queue, the tasks and the phase
say about each other. Each proof has an invariant that says so. TLC checked it
on the bounded instance first, then there is a lemma per action or shared
helper, a step per disjunct of `Next`, and temporal reasoning in the last line.

* *MediaSlot*: `ReportsMeetTheirPhase`. A queued end of an activity is of the
  current generation only if the slot is in a phase that accepts it, and at most
  one such report or task exists. Hence no `expect` fires. `ViewIsCurrent` adds
  that outside a view nothing is shown and a live playback is the current one;
  `SlotIsALease` maps each step to one of `MediaLease` or to a stutter.
* *LanDiscovery*: `LanInvariant`. Every current start, backoff or service belongs
  to the current generation and a phase that waits for exactly it; a report of an
  older one meets a guard. A late success is in `retiring` until it is shut down.
* *PeerMesh*: `MeshInvariant`. An entry agrees with its task, its connection and
  its reports (`EntriesAgree`); a row agrees with its entry or with a report that
  will correct it (`RowsFollow`); Off has joined what it relies on
  (`OffIsPrepared`). The two action properties follow from it step by step.
* *LinuxAudio*: `AudioInvariant`. Until a unit is dropped or a timestamp jumps
  the sink holds exactly the units before the next to be written, so the anchor
  is the position of the oldest unit not yet played; what was sent is what was
  played, is in the sink, or is counted as dropped.
* *InboundSessions*: `InboundInvariant`. A number is used once, its accept task
  ends before anything else carries it, and a queued close is of a session that
  is closed; so a report from before Off or a restart can own nothing.
* *WindowsSessions*: `SessionsInvariant`. No report is of a dial still to come, so
  that a new generation makes every queued one stale (`ReportsArePast`). The
  state of a dial is what its observer has told and was read; a finished observer
  has its end in the queue behind all else it said (`ObserverAgrees`). A row is
  of the current dial or of an older one that ended (`Follows`). An inbound
  session reports its beginning before its end and each once, which is why the
  count, which stops at zero, never has to (`InboundAgrees`, `Counted`).
* *MacSessions*: `MacInvariant`. A generation is told by one bit, so a new dial
  makes every queued report of its peer stale at once (`Outdated`), and what is
  left of the queue is what the current observer has told (`Orderly`: a beginning
  before an end, nothing twice, and an end behind every beginning of a task that
  is done). The state of a peer lags behind its observer by those reports
  (`StateLags`), the known inbound sessions in the same way (`KnownLags`). While
  an old connection is being replaced nothing is claimed of its state
  (`Replaced`), and the row of the peer in hand may miss its advertisement
  (`Taking`). TLC checked the invariant with two peers and a queue of three.
  For the build whose devices keep their identity, `SteadyInvariant`: nothing is
  dialled while a session is up, and a session that is or comes up still has the
  row of its dial; hence *Connecting* never stands over an established one.
* *WindowsRuntime*: `WindowsInvariant`. The steps left to the running handler are
  in the one order in which the code takes them (`InOrder`), so the step at hand
  says which tasks are joined already (`TasksAreJoined`). A handle is of the
  activity shown, on services that are up, and of the latest generation
  (`HandlesAreShown`); a report of an end is not queued while its task runs
  (`WinReportsAreOfTasks`), hence what frees the media frees it after the end;
  what is open is of the services or of the start under way (`ServicesAreOwned`).
  `WindowsMediaIsALease` classifies every step by what the lease sees of it.
* *MacRuntime*: `MacInvariant`. A handler that leaves a mode ends in one of five
  goals, and its last step is that goal (`Rests`, `Goal`). The services are up in
  the mode that serves and until the handler closes them (`NetworkIsHeld`); the
  media is held by what the snapshot shows or by the handler that joins it
  (`MediaIsHeld`); and where the loop is, or is heading, is where the last request
  that was read sends it, across sleep and wake (`IntentIsFollowed`), from which
  `NetworkFollowsRequests` follows once no request is queued.
* *The compositions*: a step of the build that runs is a step of its module and
  leaves the variables of the others alone, so the invariants of all hold together.

The proofs changed the models where these could not be reasoned about: two CASE
expressions (`Update` of `PeerMesh`, the status of `WindowsPublication`) had
guards that overlap, which leaves the choice open although the code takes the
first, and the parts of `SoundIsAccounted` were given names. The types of
`MacSessions` did not say what a queued report can be (`Reports`), which its
invariant needs; those of the two runtimes were split into parts that a prover
can take one at a time. `Leave` of `MacRuntime` takes its whole list of steps.

## 5. What is only model-checked

* Liveness under fairness and anything with ENABLED is beyond TLAPS:
  `EndedActivityFreesTheSlot`, the liveness half of `ImplementsLease`,
  `ScanSettles`, `OffCompletes`, `KnownPeerIsSettled`, `GenerationEnds`, and the
  *Settle* and *End* properties of the other runs.
* The playbacks, the publications, the interfaces, the tray and the diagnostics:
  their safety holds on the instances of section 3. `WindowsPlayback` declares a
  RECURSIVE operator (`RoomFor`), which rules out proofs in a module that
  reaches it.
* What the theorems say is about the model of one component. That each one
  stands for its neighbours by their effects is argued in section 2, not proved.

## 6. Where the code and its own words disagree

Three disagreements have a run that TLC must find violated.

* `mac_runtime_off`: a request to turn off that reaches `wait_for_network_restart`
  (`mac/src/runtime.rs:1067`) is dropped. The interface keeps its *Off* pending
  and the button disabled, also after the network is up again. The test
  `nearby_off_acknowledgement_allows_reopening_without_clearing_early`
  (`mac/src/app/tests/layout.rs:659`) says Off is acknowledged.
* `mac_sessions_row`: a device with an established session is lost, found under
  another identity, which leaves the row alone, and found under the first one
  again. `connect` keeps the transport, and `mac/src/network/mod.rs:94` sets the
  row to *Connecting*, where it stays until the session ends.
  `shared/lan-state/src/lib.rs:12` calls *Connecting* a pending attempt.
  `RowsFollowTransport` makes this one exception, and `sessions` asserts that
  there is none while identities do not change.
* `logs_daily`: the age of a log file is taken from the time of its last write
  (`shared/diagnostics/src/output.rs:73`), so a program restarted at least once
  per interval never rotates by age. The test at `output.rs:482` says retained
  logs rotate at least daily.

Others were met while modelling and have no run, as their subject is abstracted:

* `linux/src/runtime/playback.rs:316` computes the largest age of video once and
  reuses it when a new catalogue reopens the decoder (line 456), although sound
  may have come or gone; `mac/src/playback.rs:517` and `:729`,
  `windows/src/playback.rs:548` and `:720` do the same. The tests at
  `linux/src/runtime/playback.rs:639` and `mac/src/playback.rs:1208` expect the
  age of the two selections to differ.
* `windows-lite/src/discovery.rs:136` counts the lease from the last resolved
  record, whatever its TTL; the comment at line 13 calls it an additional cap
  for stale entries, yet a device that stays and is not resolved again goes too.
* `windows/src/app.rs:191` ignores whether a volume command was accepted, while
  `shared/ui/src/components/player.rs:67` has stored the new percentage and
  drops the same value when it is asked for again.
* `windows/src/app/desktop.rs:341` sends `ShareScreen` without a source, so the
  one shared is the one selected when the command is handled; the test at line
  1045 is named `source_tab_must_match_the_source_sent_for_sharing`.

## 7. What is left out or assumed

* The Linux supervisor as a whole: the product of its four modules is beyond TLC.
* Resampling, codecs, capture and display APIs, mDNS and QUIC themselves; text,
  layout, logging, redaction, the bandwidth label and build provenance.
* `project_peer` (`supervisor.rs:1664`) finds its registry entry. A task ends
  with a result: a panic of library code inside the start task is not modelled.
  `moq_tokio::Connection` reconnects by itself and reports only its end.
* A device lost and found again begins a dial with a deadline of its own.
* Generations do not wrap: they are 64 bits wide. In the models they stop at a
  bound, and the actions that would raise one further are disabled there.
* A refresh of sources that succeeds after a share failed on its source puts the
  catalogue back to *Ready*; the model allows it and no property judges it.
