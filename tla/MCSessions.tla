------------------------------ MODULE MCSessions ------------------------------
(***************************************************************************)
(* The sessions with other devices, in the build that runs: on Linux those *)
(* that come in, on Windows and macOS those that go out, too.  A build     *)
(* holds its own variables; those of the others stay as they start.        *)
(*                                                                         *)
(* The module extends that of macOS, whose variables and constants keep    *)
(* their names, and takes those of Linux and Windows as instances, that of *)
(* Windows with its proofs.  In the run "far" is dialled and "near" dials. *)
(* In "mac, steady" the one device keeps its identity, so that its dials   *)
(* must come to an end; in "mac" it changes it at will.                    *)
(***************************************************************************)
EXTENDS MacSessions

CONSTANTS
  MaxInbound, LinuxQueueCap,                            \* of Linux
  WinPeers, WinDials, WinInbounds, WinQueueCap, MaxGen  \* of Windows

VARIABLES
  build,
  pc, listening, origins, nextId, accepting, connected, viewers, tasks, aborted, conns, opq,
  winPhase, adv, winRow, winScreens, winState, winOut, winInbound, count, winListener, winQueue

Linux == INSTANCE InboundSessions WITH QueueCap <- LinuxQueueCap, count <- viewers

Windows == INSTANCE WindowsSessionsProofs WITH
  Peers <- WinPeers, Dials <- WinDials, Inbounds <- WinInbounds, QueueCap <- WinQueueCap,
  phase <- winPhase, row <- winRow, screens <- winScreens, state <- winState, out <- winOut,
  inbound <- winInbound, listener <- winListener, queue <- winQueue

ASSUME BuildsAssumption ==
  Linux!InboundAssumption /\ Windows!SessionsAssumption /\ MacSessionsAssumption

linuxVars   == <<pc, listening, origins, nextId, accepting, connected, viewers, tasks, aborted, conns, opq>>
windowsVars == <<winPhase, adv, winRow, winScreens, winState, winOut, winInbound, count, winListener,
                 winQueue>>

SteadyIdentity == \A p \in Peers : reg'[p] \in {"none", "a"}

AnyInit ==
  /\ build \in {"linux", "windows", "mac", "mac, steady"}
  /\ Linux!Init /\ Windows!Init /\ Init

AnyNext ==
  \/ build = "linux" /\ Linux!Next /\ UNCHANGED <<build, windowsVars, vars>>
  \/ build = "windows" /\ Windows!Next /\ UNCHANGED <<build, linuxVars, vars>>
  \/ build = "mac" /\ Next /\ UNCHANGED <<build, linuxVars, windowsVars>>
  \/ build = "mac, steady" /\ Next /\ SteadyIdentity /\ UNCHANGED <<build, linuxVars, windowsVars>>

WinRuns    == build = "windows"
SteadyRuns == build = "mac, steady"

\* The fairness of WindowsSessions and of MacSessions, each in its build.
AnyFairness ==
  /\ \A p \in WinPeers :
       /\ WF_windowsVars(WinRuns /\ Windows!DeadlinePasses(p))
       /\ WF_windowsVars(WinRuns /\ Windows!ObserverReports(p))
       /\ WF_windowsVars(WinRuns /\ Windows!StopOutbound(p))
  /\ WF_windowsVars(WinRuns /\ Windows!Receive)
  /\ WF_windowsVars(WinRuns /\ Windows!ListenerShutDown)
  /\ WF_windowsVars(WinRuns /\ Windows!Closed)
  /\ \A p \in Peers :
       /\ WF_vars(SteadyRuns /\ TimePasses(p)) /\ WF_vars(SteadyRuns /\ TimesOut(p))
       /\ SF_vars(SteadyRuns /\ ObserverReports(p)) /\ WF_vars(SteadyRuns /\ StopOutbound(p))
  /\ WF_vars(SteadyRuns /\ Connect) /\ SF_vars(SteadyRuns /\ Receive)
  /\ WF_vars(SteadyRuns /\ ListenerShutDown)
  /\ WF_vars(SteadyRuns /\ DropConnecting) /\ WF_vars(SteadyRuns /\ Closed)

AnySpec == AnyInit /\ [][AnyNext]_<<build, linuxVars, windowsVars, vars>> /\ AnyFairness

(***************************************************************************)
(* Properties                                                              *)
(***************************************************************************)

\* What a device row says of a session is so, or is about to be corrected:
\* RowsAreDriven of Windows and RowsFollowTransport of macOS.  A row of macOS may
\* say Connecting of a session that is up until that session ends, but only after
\* the device has changed its identity: with a steady one Connecting is pending.
RowsFollowSessions ==
  /\ Windows!RowsAreDriven /\ RowsFollowTransport
  /\ SteadyRuns => ConnectingIsPending

\* The number of viewers and the screens on show are right, and on Linux no
\* inbound session is left without an owner that closes it.
InboundIsTrue == Linux!OwnedAndQuiet /\ Linux!CountIsTrue /\ Windows!SnapshotIsTrue

Dialing  == \/ WinRuns /\ winRow["far"].phase = "Connecting"
            \/ SteadyRuns /\ state["far"] = "Connecting" /\ phase # "closed"
Stopping == (WinRuns /\ winPhase = "stopping") \/ (SteadyRuns /\ phase = "stopping")
Taken    == SteadyRuns /\ connecting # Nobody

\* A dial ends, also when new addresses restart it again and again, an
\* advertisement that was taken is answered, and a shutdown ends, whatever the
\* network and a full queue do.
SessionsSettle == (Dialing ~> ~Dialing) /\ ((Stopping \/ Taken) ~> ~(Stopping \/ Taken))

(***************************************************************************)
(* Why a row with a steady identity says no more than the state: nothing   *)
(* is dialled while a session is up, and a session that is up, or comes    *)
(* up, has the row of its dial.                                            *)
(***************************************************************************)
SteadyRow(p) ==
  /\ row[p].current => row[p].session = state[p]
  /\ Active(state[p]) => row[p].current
  /\ Taking(p) => state[p] # "Connected"
  /\ ~Replaced(p) /\ Says(queue, Outgoing(p), "Connected") => state[p] = "Connecting"
  /\ p \notin Dials => out[p].task = "none"

SteadyInvariant ==
  /\ \A p \in Peers : reg[p] \in {"none", "a"}
  /\ Running => \A p \in Peers : SteadyRow(p)
=============================================================================
