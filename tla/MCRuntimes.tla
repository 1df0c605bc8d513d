------------------------------ MODULE MCRuntimes ------------------------------
(***************************************************************************)
(* The runtime of the Windows and of the macOS app, in the build that      *)
(* runs.  A build holds its own variables; those of the other stay as they *)
(* start.                                                                  *)
(*                                                                         *)
(* The module extends that of macOS, whose variables and constants keep    *)
(* their names.  macOS runs in two ways, for the number of states: in      *)
(* "mac" the system speaks less often, in "mac, asleep" less is shared and *)
(* watched.  In the run that is once, and nothing at all.                  *)
(***************************************************************************)
EXTENDS MacRuntime

CONSTANTS
  MediaCap, ViewCap, MaxServices, WinMaxMedia, MaxViews,  \* of Windows
  FewSleeps,  \* bound: events of the system in "mac"
  FewMedia    \* bound: no share or watch is of a later generation in "mac, asleep"

VARIABLES
  build,
  winTodo, running, disc, localId, failure, lifeGen, lifeActive, starting, polled, winServices,
  open, winMedia, mediaGen, pubGen, pubHandle, pubAbort, pubTask, pubRun, view, viewGen, ownGen,
  viewHandle, winCancel, viewTask, viewRun, speakers, winFrame, mediaQ, viewQ

Win == INSTANCE WindowsRuntime WITH
  MaxMedia <- WinMaxMedia, todo <- winTodo, services <- winServices, media <- winMedia,
  cancel <- winCancel, frame <- winFrame

ASSUME RuntimesAssumption == Win!WindowsAssumption /\ MacAssumption

winVars == <<winTodo, running, disc, localId, failure, lifeGen, lifeActive, starting, polled,
             winServices, open, winMedia, mediaGen, pubGen, pubHandle, pubAbort, pubTask, pubRun,
             view, viewGen, ownGen, viewHandle, winCancel, viewTask, viewRun, speakers, winFrame,
             mediaQ, viewQ>>

SleepsLittle == sleeps' <= FewSleeps
SharesLittle == media' = "Idle" \/ gen' <= FewMedia

AnyInit ==
  /\ build \in {"windows", "mac", "mac, asleep"}
  /\ Win!Init /\ Init

AnyNext ==
  \/ build = "windows" /\ Win!Next /\ UNCHANGED <<build, vars>>
  \/ build = "mac" /\ Next /\ SleepsLittle /\ UNCHANGED <<build, winVars>>
  \/ build = "mac, asleep" /\ Next /\ SharesLittle /\ UNCHANGED <<build, winVars>>

WinRuns == build = "windows"
MacRuns == build = "mac"

\* The fairness of each module, where it is the one that runs.
AnyFairness ==
  /\ WF_winVars(WinRuns /\ Win!Handler)
  /\ WF_winVars(WinRuns /\ Win!PubAborted)
  /\ WF_winVars(WinRuns /\ Win!ViewCancelled)
  /\ WF_winVars(WinRuns /\ Win!OnMediaEnded)
  /\ WF_winVars(WinRuns /\ Win!HandleView)
  /\ WF_vars(MacRuns /\ Handler)
  /\ WF_vars(MacRuns /\ Cancelled)
  /\ WF_vars(MacRuns /\ Wake)
  /\ WF_vars(MacRuns /\ Acknowledge)
  /\ SF_vars(MacRuns /\ (OnRestart \/ OnOff))
  /\ SF_vars(MacRuns /\ (OnSuspend \/ OnResume))
  /\ SF_vars(MacRuns /\ OnShutdown)

AnySpec == AnyInit /\ [][AnyNext]_<<build, winVars, vars>> /\ AnyFairness

(***************************************************************************)
(* Properties                                                              *)
(***************************************************************************)
\* One activity at a time, shown as what it is and owned by what will join it,
\* and nothing of it left where the network is down: WindowsOwners, MacOwners,
\* NothingLeftOpen and DownIsDark.
OneOwner == Win!WindowsOwners /\ MacOwners /\ Win!NothingLeftOpen /\ DownIsDark

\* The media of the Windows runtime is one lease (MediaLease).
ImplementsLease == Win!ImplementsLease

Busy ==
  \/ WinRuns /\ winTodo # <<>>
  \/ MacRuns /\ ((quit /\ mode # "exited") \/ (~Answered /\ ~ignored))

\* Every handler returns to its select, although the tasks it joins may be
\* waiting for room in the queues it does not drain; quitting ends; and a
\* request is answered, so that its button works again.
RequestsEnd == Busy ~> ~Busy
===============================================================================
