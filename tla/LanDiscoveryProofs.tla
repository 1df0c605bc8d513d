-------------------------- MODULE LanDiscoveryProofs --------------------------
(***************************************************************************)
(* Proofs about LanDiscovery: types first, then the inductive invariant    *)
(* behind its safety properties, part by part, and last the properties.    *)
(***************************************************************************)
EXTENDS LanDiscovery, QueueLemmas

USE DEF rowVars, handleVars, taskVars

-----------------------------------------------------------------------------
(* Types.                                                                  *)

\* A report that a worker sends is one of the service queue's.
LEMMA ReportsAreTyped ==
  /\ \A g \in Nat, p \in Peers, t \in {"Found", "Lost"} : Report(t, g, p) \in Reports
  /\ \A g \in Nat, t \in {"ScanFinished", "DiscoveryStopped", "ListenerStopped"} :
       Report(t, g, "none") \in Reports
  BY DEF Report, Reports

\* What a task may report is one of the operation queue's.
LEMMA OutcomesAreTyped ==
  ASSUME NEW t \in TaskSet, NEW e \in Outcomes(t)
  PROVE  e \in Operations /\ e.gen = t.gen
<1>1. t.gen \in Nat
  BY DEF TaskSet
<1>2. /\ Started(t.gen, TRUE) \in Operations /\ Started(t.gen, FALSE) \in Operations
      /\ Restart(t.gen) \in Operations
  BY <1>1 DEF Operations, Started, Restart
<1>3. e \in {Started(t.gen, TRUE), Started(t.gen, FALSE), Restart(t.gen)}
  BY DEF Outcomes
<1>4. \A x \in {Started(t.gen, TRUE), Started(t.gen, FALSE), Restart(t.gen)} : x.gen = t.gen
  BY DEF Started, Restart
<1> QED BY <1>2, <1>3, <1>4

\* A new generation keeps the types of the handles and tasks.
LEMMA CancelIsTyped ==
  ASSUME TypeOK, NEW launched \in SUBSET TaskSet, CancelCurrent(launched)
  PROVE  /\ gen' \in Nat /\ services' \in Nat /\ registry' \in SUBSET Peers
         /\ retiring' \in SUBSET Nat /\ tasks' \in SUBSET TaskSet /\ aborted' \in SUBSET TaskSet
  BY DEF TypeOK, CancelCurrent

\* recover_discovery keeps every type.
LEMMA RecoverIsTyped ==
  ASSUME TypeOK, Recover
  PROVE  /\ state' \in States /\ localId' \in Nat /\ found' \in SUBSET Peers
         /\ start' \in Nat /\ retry' \in Nat /\ attempts' \in 0 .. RetryLimit
         /\ gen' \in Nat /\ services' \in Nat /\ registry' \in SUBSET Peers
         /\ retiring' \in SUBSET Nat /\ tasks' \in SUBSET TaskSet /\ aborted' \in SUBSET TaskSet
<1> USE DiscoveryAssumption
<1>1. localId' \in Nat /\ found' \in SUBSET Peers /\ start' \in Nat
  BY DEF Recover, RevokeAdmission, ForgetRows
<1>2. CASE BudgetLeft
  <2>1. CancelCurrent({Task("retry", gen + 1)}) /\ attempts' = attempts + 1
        /\ retry' = gen + 1 /\ state' = "Scanning"
    BY <1>2 DEF Recover
  <2>2. {Task("retry", gen + 1)} \in SUBSET TaskSet
    BY DEF TypeOK, Task, TaskSet
  <2>3. attempts' \in 0 .. RetryLimit /\ retry' \in Nat /\ state' \in States
    BY <1>2, <2>1 DEF TypeOK, BudgetLeft, States, Active
  <2> QED BY <1>1, <2>1, <2>2, <2>3, CancelIsTyped
<1>3. CASE ~BudgetLeft
  <2>1. CancelCurrent({}) /\ attempts' = attempts /\ retry' = 0 /\ state' = "Error"
    BY <1>3 DEF Recover
  <2>2. attempts' \in 0 .. RetryLimit /\ retry' \in Nat /\ state' \in States
    BY <2>1 DEF TypeOK, States
  <2> QED BY <1>1, <2>1, <2>2, CancelIsTyped
<1> QED BY <1>2, <1>3

\* Every variable keeps its type, for all peers, capacities and retry limits.
THEOREM LanTypeCorrect == Spec => []TypeOK
<1>1. Init => TypeOK
  <2> SUFFICES ASSUME Init PROVE TypeOK
    OBVIOUS
  <2>1. attempts \in 0 .. RetryLimit
    BY DiscoveryAssumption DEF Init
  <2>2. opq \in Seq(Operations) /\ svcq \in Seq(Reports)
    BY DEF Init
  <2> QED BY <2>1, <2>2 DEF Init, TypeOK, States
<1>2. TypeOK /\ [Next]_vars => TypeOK'
  <2> SUFFICES ASSUME TypeOK, [Next]_vars PROVE TypeOK'
    OBVIOUS
  <2> USE DiscoveryAssumption
  <2>1. CASE StartDiscovery \/ RetryDiscovery
    <3>1. Relaunch /\ pc' = pc /\ found' \in SUBSET Peers
      BY <2>1 DEF StartDiscovery, RetryDiscovery, Relaunch, TypeOK
    <3>2. {Task("start", gen + 1)} \in SUBSET TaskSet
      BY DEF TypeOK, Task, TaskSet
    <3>3. /\ gen' \in Nat /\ services' \in Nat /\ registry' \in SUBSET Peers
          /\ retiring' \in SUBSET Nat /\ tasks' \in SUBSET TaskSet /\ aborted' \in SUBSET TaskSet
      BY <3>1, <3>2, CancelIsTyped DEF Relaunch
    <3>4. /\ start' \in Nat /\ retry' \in Nat /\ attempts' \in 0 .. RetryLimit
          /\ localId' \in Nat /\ origins' \in BOOLEAN /\ state' \in States
      BY <3>1 DEF Relaunch, TypeOK, States, Active
    <3> QED BY <3>1, <3>3, <3>4 DEF Relaunch, TypeOK
  <2>2. CASE StopLan
    BY <2>2 DEF StopLan, TypeOK
  <2>3. CASE StopLanJoined
    BY <2>3 DEF StopLanJoined, TypeOK
  <2>4. ASSUME NEW f \in BOOLEAN, StopLanDrain(f) PROVE TypeOK'
    <3>1. opq' \in Seq(Operations) /\ svcq' \in Seq(Reports)
      BY <2>4 DEF StopLanDrain
    <3>2. state' \in States /\ cleanup' \in BOOLEAN /\ origins' \in BOOLEAN
      BY <2>4 DEF StopLanDrain, States
    <3> QED BY <2>4, <3>1, <3>2 DEF StopLanDrain, TypeOK
  <2>5. CASE OnServicesStarted
    <3>1. /\ opq' \in Seq(Operations) /\ Head(opq) \in Operations
          /\ UNCHANGED <<pc, svcq, origins>>
      BY <2>5, TailShifts DEF OnServicesStarted, TakeOperation, TypeOK
    <3>2. Head(opq).gen \in Nat
      BY <3>1 DEF Operations
    <3>3. CASE ~(Current(Head(opq)) /\ state \in Active)
      <4>1. open' \in SUBSET Nat /\ cleanup' \in BOOLEAN
        BY <2>5, <3>3 DEF OnServicesStarted, LateShutDown, TypeOK
      <4> QED BY <2>5, <3>1, <3>3, <4>1 DEF OnServicesStarted, TypeOK
    <3>4. CASE Current(Head(opq)) /\ state \in Active /\ Head(opq).ok
      <4>1. workers' \in SUBSET WorkerSet
        BY <2>5, <3>2, <3>4 DEF OnServicesStarted, TypeOK, WorkerSet
      <4>2. /\ start' = 0 /\ localId' = Head(opq).gen /\ services' = Head(opq).gen /\ registry' = {}
            /\ UNCHANGED <<state, found, gen, retry, attempts, retiring, tasks, aborted, open, cleanup>>
        BY <2>5, <3>4 DEF OnServicesStarted
      <4>3. localId' \in Nat /\ services' \in Nat /\ start' \in Nat /\ registry' \in SUBSET Peers
        BY <3>2, <4>2
      <4> QED BY <3>1, <4>1, <4>2, <4>3 DEF TypeOK
    <3>5. CASE Current(Head(opq)) /\ state \in Active /\ ~Head(opq).ok
      <4>1. Recover /\ UNCHANGED <<workers, open, cleanup>>
        BY <2>5, <3>5 DEF OnServicesStarted
      <4> QED BY <3>1, <4>1, RecoverIsTyped DEF TypeOK
    <3> QED BY <3>3, <3>4, <3>5
  <2>6. CASE OnRestartDiscovery
    <3>1. opq' \in Seq(Operations) /\ UNCHANGED <<pc, svcq>>
      BY <2>6, TailShifts DEF OnRestartDiscovery, TakeOperation, TypeOK
    <3>2. Task("start", gen) \in TaskSet
      BY DEF TypeOK, Task, TaskSet
    <3>3. /\ retry' \in Nat /\ start' \in Nat /\ localId' \in Nat /\ origins' \in BOOLEAN
          /\ tasks' \in SUBSET TaskSet
      <4>1. CASE Current(Head(opq)) /\ state \in Active
        BY <2>6, <3>2, <4>1 DEF OnRestartDiscovery, TypeOK
      <4>2. CASE ~(Current(Head(opq)) /\ state \in Active)
        BY <2>6, <4>2 DEF OnRestartDiscovery, TypeOK
      <4> QED BY <4>1, <4>2
    <3>4. UNCHANGED <<state, found, gen, attempts, services, registry, retiring, aborted,
                      workers, open, cleanup>>
      BY <2>6 DEF OnRestartDiscovery
    <3> QED BY <3>1, <3>3, <3>4 DEF TypeOK
  <2>7. CASE HandleService
    <3>1. /\ svcq' \in Seq(Reports) /\ Head(svcq) \in Reports /\ svcq # <<>>
          /\ UNCHANGED <<pc, opq, origins, cleanup, workers, open>>
      <4>1. /\ svcq # <<>> /\ svcq' = Tail(svcq)
            /\ UNCHANGED <<pc, opq, origins, cleanup, workers, open>>
        BY <2>7 DEF HandleService, OnStaleReport, OnFound, OnLost, OnScanFinished,
           OnServiceStopped, TakeReport
      <4>2. svcq \in Seq(Reports)
        BY DEF TypeOK
      <4> QED BY <4>1, <4>2, TailShifts
    <3>2. CASE OnStaleReport
      BY <3>1, <3>2 DEF OnStaleReport, TypeOK
    <3>3. CASE OnFound
      <4>1. Head(svcq).peer \in Peers
        BY <3>1, <3>3 DEF OnFound, TakeReport, Reports
      <4>2. found' \in SUBSET Peers /\ registry' \in SUBSET Peers /\ state' \in States
        BY <3>3, <4>1 DEF OnFound, TypeOK, States, Active
      <4> QED BY <3>1, <3>3, <4>2 DEF OnFound, TypeOK
    <3>4. CASE OnLost
      <4>1. found' \in SUBSET Peers /\ registry' \in SUBSET Peers /\ state' \in States
        BY <3>4 DEF OnLost, TypeOK, States, Active
      <4> QED BY <3>1, <3>4, <4>1 DEF OnLost, TypeOK
    <3>5. CASE OnScanFinished
      <4>1. state' \in States
        BY <3>5 DEF OnScanFinished, AfterScan, TypeOK, States, Active
      <4> QED BY <3>1, <3>5, <4>1 DEF OnScanFinished, TypeOK
    <3>6. CASE OnServiceStopped
      <4>1. Recover
        BY <3>6 DEF OnServiceStopped
      <4> QED BY <3>1, <4>1, RecoverIsTyped DEF TypeOK
    <3> QED BY <2>7, <3>2, <3>3, <3>4, <3>5, <3>6 DEF HandleService
  <2>8. ASSUME NEW t \in tasks \cup aborted, TaskReports(t) PROVE TypeOK'
    <3>1. t \in TaskSet
      BY DEF TypeOK
    <3>2. PICK e \in Outcomes(t) :
            /\ opq' = Append(opq, e)
            /\ open' = IF e.type = "ServicesStarted" /\ e.ok THEN open \cup {e.gen} ELSE open
      BY <2>8 DEF TaskReports
    <3>3. e \in Operations /\ e.gen \in Nat
      BY <3>1, OutcomesAreTyped DEF TaskSet
    <3>4. opq' \in Seq(Operations)
      BY <3>2, <3>3, AppendAdds DEF TypeOK
    <3>5. open' \in SUBSET Nat
      BY <3>2, <3>3 DEF TypeOK
    <3> QED BY <2>8, <3>4, <3>5 DEF TaskReports, TypeOK
  <2>9. ASSUME NEW t \in aborted, AbortTakesEffect(t) PROVE TypeOK'
    BY <2>9 DEF AbortTakesEffect, TypeOK
  <2>10. ASSUME NEW g \in retiring, ShutDown(g) PROVE TypeOK'
    BY <2>10 DEF ShutDown, TypeOK
  <2>11. CASE WorkerStep
    <3>1. PICK g \in Working : BrowseReports(g) \/ BrowseStops(g) \/ ListenStops(g) \/ ScanWindowEnds(g)
      BY <2>11 DEF WorkerStep
    <3>2. g \in Nat
      BY <3>1 DEF Working, TypeOK, WorkerSet
    <3>3. \E e \in Reports : Reported(e)
      BY <3>1, <3>2, ReportsAreTyped DEF BrowseReports, BrowseStops, ListenStops, WorkerStops,
         ScanWindowEnds
    <3>4. svcq' \in Seq(Reports)
      BY <3>3, AppendAdds DEF Reported, TypeOK
    <3>5. workers' \in SUBSET WorkerSet
      BY <3>1 DEF BrowseReports, BrowseStops, ListenStops, WorkerStops, ScanWindowEnds, TypeOK
    <3> QED BY <3>3, <3>4, <3>5 DEF Reported, TypeOK
  <2>12. CASE UNCHANGED vars
    BY <2>12 DEF vars, TypeOK
  <2> QED BY <2>1, <2>2, <2>3, <2>4, <2>5, <2>6, <2>7, <2>8, <2>9, <2>10, <2>11, <2>12
          DEF Next, Off, HandleOperation, TaskStep
<1> QED BY <1>1, <1>2, PTL DEF Spec

-----------------------------------------------------------------------------
(* The inductive invariant.                                                *)

\* A result that brought services up.
IsUp(e) == e.type = "ServicesStarted" /\ e.ok

\* What carries a generation carries the current one or an earlier one, and
\* only what was not stopped carries the current one.
GenerationsAgree ==
  /\ services \in {0, gen}
  /\ \A t \in tasks : t.gen = gen /\ t.gen # 0
  /\ \A t \in aborted : t.gen < gen /\ t.gen # 0
  /\ \A g \in retiring : g < gen /\ g # 0
  /\ \A w \in workers : w.gen # 0 /\ (w.gen = services \/ w.gen \in retiring)
  /\ \A i \in 1 .. Len(opq) : opq[i].gen <= gen /\ opq[i].gen # 0
  /\ \A i \in 1 .. Len(svcq) : /\ svcq[i].gen <= gen /\ svcq[i].gen # 0
                               /\ svcq[i].gen = gen => services = gen

\* One driver at most, and one exactly while discovery is active.
OneDriver ==
  /\ \A s, t \in tasks : s = t
  /\ \A i, j \in 1 .. Len(opq) : opq[i].gen = gen /\ opq[j].gen = gen => i = j
  /\ tasks # {} => services = 0
  /\ \A i \in 1 .. Len(opq) : opq[i].gen = gen => services = 0 /\ tasks = {}
  /\ (pc = "select" /\ state \in Active) <=>
       (services # 0 \/ tasks # {} \/ \E i \in 1 .. Len(opq) : opq[i].gen = gen)

\* The current services, and those whose result is queued, are open.
ServicesAreUp ==
  /\ \A i \in 1 .. Len(opq) : opq[i].gen = gen /\ IsUp(opq[i]) => gen \in open
  /\ services # 0 => services \in open /\ origins
  /\ localId # 0 => localId = services

\* Every task is in a handle and every listener in the hands of someone.
PartsAreHeld ==
  /\ tasks \subseteq Held
  /\ \A g \in open :
       /\ g # 0
       /\ \/ g = services \/ g \in retiring
          \/ \E i \in 1 .. Len(opq) : IsUp(opq[i]) /\ opq[i].gen = g

\* What Off has done by the place where it waits.
OffIsPrepared ==
  /\ pc # "select" => start = 0 /\ retry = 0
  /\ pc = "offMesh" => aborted = {} /\ retiring = {} /\ attempts = 0
  /\ ~origins => services = 0
  /\ OffIsQuiet

LanInvariant ==
  GenerationsAgree /\ OneDriver /\ ServicesAreUp /\ PartsAreHeld /\ OffIsPrepared

\* Generations are numbers, wherever they are.
LEMMA GenerationsAreNumbers ==
  ASSUME TypeOK
  PROVE  /\ gen \in Nat /\ services \in Nat /\ localId \in Nat
         /\ \A t \in tasks \cup aborted : t.gen \in Nat
         /\ \A g \in retiring \cup open : g \in Nat
         /\ \A w \in workers : w.gen \in Nat
         /\ Len(opq) \in Nat /\ \A i \in 1 .. Len(opq) : opq[i] \in Operations /\ opq[i].gen \in Nat
         /\ Len(svcq) \in Nat /\ \A i \in 1 .. Len(svcq) : svcq[i].gen \in Nat
<1>1. /\ \A t \in tasks \cup aborted : t.gen \in Nat
      /\ \A w \in workers : w.gen \in Nat
  BY DEF TypeOK, TaskSet, WorkerSet
<1>2. Len(opq) \in Nat /\ \A i \in 1 .. Len(opq) : opq[i] \in Operations
  BY PlacesAreTyped DEF TypeOK
<1>3. \A e \in Operations : e.gen \in Nat
  BY DEF Operations
<1>4. Len(svcq) \in Nat /\ \A i \in 1 .. Len(svcq) : svcq[i] \in Reports
  BY PlacesAreTyped DEF TypeOK
<1>5. \A r \in Reports : r.gen \in Nat
  BY DEF Reports
<1> QED BY <1>1, <1>2, <1>3, <1>4, <1>5 DEF TypeOK

\* A new generation leaves everything that runs, waits or listens behind it.
LEMMA NewGenerationAgrees ==
  ASSUME TypeOK, TypeOK', LanInvariant,
         gen' = gen + 1, services' = 0,
         \A s, t \in tasks' : s = t, \A t \in tasks' : t.gen = gen + 1,
         aborted' = aborted \cup tasks, retiring' = retiring \cup ({services} \ {0}),
         UNCHANGED <<open, workers>>,
         opq' = opq \/ (opq # <<>> /\ opq' = Tail(opq) /\ ~IsUp(opq[1])),
         svcq' = svcq \/ (svcq # <<>> /\ svcq' = Tail(svcq))
  PROVE  /\ GenerationsAgree'
         /\ \A i \in 1 .. Len(opq') : opq'[i].gen # gen'
         /\ \A g \in open' : /\ g # 0
                             /\ \/ g = services' \/ g \in retiring'
                                \/ \E i \in 1 .. Len(opq') : IsUp(opq'[i]) /\ opq'[i].gen = g
<1> USE DEF LanInvariant
<1>1. /\ gen \in Nat /\ services \in {0, gen}
      /\ \A t \in tasks : t.gen = gen /\ t.gen # 0
      /\ \A t \in aborted : t.gen < gen /\ t.gen # 0
      /\ \A g \in retiring : g < gen /\ g # 0 /\ g \in Nat
      /\ \A w \in workers : w.gen # 0 /\ (w.gen = services \/ w.gen \in retiring)
      /\ \A t \in aborted : t.gen \in Nat
  BY GenerationsAreNumbers DEF GenerationsAgree
<1>2. PICK d \in {0, 1} :
        /\ opq' # opq => d = 1
        /\ \A i \in 1 .. Len(opq') : i + d \in 1 .. Len(opq) /\ opq'[i] = opq[i + d]
        /\ \A i \in 1 .. Len(opq) : (i = 1 /\ d = 1) \/ (i - d \in 1 .. Len(opq') /\ opq'[i - d] = opq[i])
  <2>1. opq \in Seq(Operations) /\ (opq' = opq \/ (opq # <<>> /\ opq' = Tail(opq)))
    BY DEF TypeOK
  <2> QED BY <2>1, QueueKeptOrTaken
<1>3. PICK c \in {0, 1} :
        \A i \in 1 .. Len(svcq') : i + c \in 1 .. Len(svcq) /\ svcq'[i] = svcq[i + c]
  <2>1. svcq \in Seq(Reports)
    BY DEF TypeOK
  <2> QED BY <2>1, QueueKeptOrTaken
<1>4. \A i \in 1 .. Len(opq') : opq'[i].gen <= gen /\ opq'[i].gen # 0 /\ opq'[i].gen \in Nat
  <2>1. \A i \in 1 .. Len(opq) : opq[i].gen <= gen /\ opq[i].gen # 0 /\ opq[i].gen \in Nat
    BY GenerationsAreNumbers DEF GenerationsAgree
  <2> QED BY <1>2, <2>1
<1>5. \A i \in 1 .. Len(svcq') : svcq'[i].gen <= gen /\ svcq'[i].gen # 0 /\ svcq'[i].gen \in Nat
  <2>1. \A i \in 1 .. Len(svcq) : svcq[i].gen <= gen /\ svcq[i].gen # 0 /\ svcq[i].gen \in Nat
    BY GenerationsAreNumbers DEF GenerationsAgree
  <2> QED BY <1>3, <2>1
<1>6. GenerationsAgree'
  <2>1. \A t \in aborted' : t.gen < gen' /\ t.gen # 0
    BY <1>1
  <2>2. \A g \in retiring' : g < gen' /\ g # 0
    BY <1>1
  <2>3. \A w \in workers' : w.gen # 0 /\ (w.gen = services' \/ w.gen \in retiring')
    BY <1>1
  <2>4. \A i \in 1 .. Len(opq') : opq'[i].gen <= gen' /\ opq'[i].gen # 0
    BY <1>1, <1>4
  <2>5. \A i \in 1 .. Len(svcq') : svcq'[i].gen <= gen' /\ svcq'[i].gen # 0 /\ svcq'[i].gen # gen'
    BY <1>1, <1>5
  <2> QED BY <1>1, <2>1, <2>2, <2>3, <2>4, <2>5 DEF GenerationsAgree
<1>7. \A i \in 1 .. Len(opq') : opq'[i].gen # gen'
  BY <1>1, <1>4
<1>8. ASSUME NEW g \in open'
      PROVE  /\ g # 0
             /\ \/ g = services' \/ g \in retiring'
                \/ \E i \in 1 .. Len(opq') : IsUp(opq'[i]) /\ opq'[i].gen = g
  <2>1. /\ g # 0
        /\ \/ g = services \/ g \in retiring
           \/ \E i \in 1 .. Len(opq) : IsUp(opq[i]) /\ opq[i].gen = g
    BY DEF PartsAreHeld
  <2>2. CASE g = services \/ g \in retiring
    BY <2>1, <2>2
  <2>3. CASE \E i \in 1 .. Len(opq) : IsUp(opq[i]) /\ opq[i].gen = g
    <3>1. PICK i \in 1 .. Len(opq) : IsUp(opq[i]) /\ opq[i].gen = g
      BY <2>3
    <3>2. CASE opq' = opq
      BY <2>1, <3>1, <3>2
    <3>3. CASE opq' # opq
      <4>1. i # 1
        BY <3>1, <3>3
      <4>2. i - d \in 1 .. Len(opq') /\ opq'[i - d] = opq[i]
        BY <1>2, <4>1
      <4> QED BY <2>1, <3>1, <4>2
    <3> QED BY <3>2, <3>3
  <2> QED BY <2>1, <2>2, <2>3
<1> QED BY <1>6, <1>7, <1>8

\* A command that starts the LAN again.
LEMMA RelaunchKeepsIt ==
  ASSUME TypeOK, TypeOK', LanInvariant, Relaunch, pc = "select"
  PROVE  LanInvariant'
<1>1. /\ tasks \subseteq Held /\ gen \in Nat
  BY DEF LanInvariant, PartsAreHeld, TypeOK
<1>2. /\ gen' = gen + 1 /\ services' = 0 /\ localId' = 0
      /\ tasks' = {Task("start", gen + 1)} /\ aborted' = aborted \cup tasks
      /\ retiring' = retiring \cup ({services} \ {0})
      /\ start' = gen + 1 /\ retry' = 0 /\ attempts' = 0 /\ origins' = TRUE
      /\ state' = "Scanning" /\ pc' = "select"
      /\ UNCHANGED <<workers, open, opq, svcq>>
  BY <1>1 DEF Relaunch, CancelCurrent
<1>3. \A t \in tasks' : t.gen = gen + 1
  BY <1>2 DEF Task
<1>4. /\ GenerationsAgree'
      /\ \A i \in 1 .. Len(opq') : opq'[i].gen # gen'
      /\ \A g \in open' : /\ g # 0
                          /\ \/ g = services' \/ g \in retiring'
                             \/ \E i \in 1 .. Len(opq') : IsUp(opq'[i]) /\ opq'[i].gen = g
  BY <1>2, <1>3, NewGenerationAgrees
<1>5. OneDriver'
  BY <1>2, <1>4 DEF OneDriver, Active
<1>6. ServicesAreUp'
  BY <1>2, <1>4 DEF ServicesAreUp
<1>7. tasks' \subseteq Held'
  BY <1>2 DEF Held, Task
<1>8. PartsAreHeld'
  BY <1>4, <1>7 DEF PartsAreHeld
<1>9. OffIsPrepared'
  BY <1>2 DEF OffIsPrepared, OffIsQuiet
<1> QED BY <1>4, <1>5, <1>6, <1>8, <1>9 DEF LanInvariant

\* recover_discovery, when its report has been taken off its queue.
LEMMA RecoverKeepsIt ==
  ASSUME TypeOK, TypeOK', LanInvariant, Recover, pc = "select", pc' = "select",
         UNCHANGED <<workers, open, origins>>,
         \/ opq # <<>> /\ opq' = Tail(opq) /\ svcq' = svcq /\ ~IsUp(opq[1])
         \/ svcq # <<>> /\ svcq' = Tail(svcq) /\ opq' = opq
  PROVE  LanInvariant'
<1>1. /\ tasks \subseteq Held /\ gen \in Nat
  BY DEF LanInvariant, PartsAreHeld, TypeOK
<1>2. /\ gen' = gen + 1 /\ services' = 0 /\ localId' = 0 /\ start' = 0
      /\ aborted' = aborted \cup tasks /\ retiring' = retiring \cup ({services} \ {0})
      /\ \/ tasks' = {Task("retry", gen + 1)} /\ retry' = gen + 1 /\ state' = "Scanning"
         \/ tasks' = {} /\ retry' = 0 /\ state' = "Error"
  <2>1. CASE BudgetLeft
    BY <1>1, <2>1 DEF Recover, CancelCurrent, RevokeAdmission
  <2>2. CASE ~BudgetLeft
    BY <1>1, <2>2 DEF Recover, CancelCurrent, RevokeAdmission
  <2> QED BY <2>1, <2>2
<1>3. /\ \A t \in tasks' : t.gen = gen + 1
      /\ \A s, t \in tasks' : s = t
  BY <1>2 DEF Task
<1>4. /\ GenerationsAgree'
      /\ \A i \in 1 .. Len(opq') : opq'[i].gen # gen'
      /\ \A g \in open' : /\ g # 0
                          /\ \/ g = services' \/ g \in retiring'
                             \/ \E i \in 1 .. Len(opq') : IsUp(opq'[i]) /\ opq'[i].gen = g
  BY <1>2, <1>3, NewGenerationAgrees
<1>5. OneDriver'
  BY <1>2, <1>3, <1>4 DEF OneDriver, Active
<1>6. ServicesAreUp'
  BY <1>2, <1>4 DEF ServicesAreUp
<1>7. tasks' \subseteq Held'
  BY <1>2 DEF Held, Task
<1>8. PartsAreHeld'
  BY <1>4, <1>7 DEF PartsAreHeld
<1>9. origins
  BY DEF LanInvariant, OffIsPrepared, OffIsQuiet
<1>10. OffIsPrepared'
  BY <1>9 DEF OffIsPrepared, OffIsQuiet
<1> QED BY <1>4, <1>5, <1>6, <1>8, <1>10 DEF LanInvariant

\* The first part of stop_lan.
LEMMA StopLanKeepsIt ==
  ASSUME TypeOK, TypeOK', LanInvariant, StopLan
  PROVE  LanInvariant'
<1>1. /\ tasks \subseteq Held /\ gen \in Nat
  BY DEF LanInvariant, PartsAreHeld, TypeOK
<1>2. /\ gen' = gen + 1 /\ services' = 0 /\ localId' = 0 /\ start' = 0 /\ retry' = 0
      /\ tasks' = {} /\ aborted' = aborted \cup tasks
      /\ retiring' = retiring \cup ({services} \ {0})
      /\ pc' = "offJoin"
      /\ UNCHANGED <<attempts, workers, open, origins, opq, svcq>>
  BY <1>1 DEF StopLan
<1>3. /\ GenerationsAgree'
      /\ \A i \in 1 .. Len(opq') : opq'[i].gen # gen'
      /\ \A g \in open' : /\ g # 0
                          /\ \/ g = services' \/ g \in retiring'
                             \/ \E i \in 1 .. Len(opq') : IsUp(opq'[i]) /\ opq'[i].gen = g
  BY <1>2, NewGenerationAgrees
<1>4. OneDriver'
  BY <1>2, <1>3 DEF OneDriver
<1>5. ServicesAreUp'
  BY <1>2, <1>3 DEF ServicesAreUp
<1>6. PartsAreHeld'
  BY <1>2, <1>3 DEF PartsAreHeld
<1>7. OffIsPrepared'
  BY <1>2 DEF OffIsPrepared, OffIsQuiet, LanInvariant
<1> QED BY <1>3, <1>4, <1>5, <1>6, <1>7 DEF LanInvariant

\* The joins of stop_lan.
LEMMA StopLanJoinedKeepsIt ==
  ASSUME TypeOK, LanInvariant, StopLanJoined
  PROVE  LanInvariant'
<1> USE DEF LanInvariant, StopLanJoined
<1>1. GenerationsAgree'
  BY DEF GenerationsAgree
<1>2. OneDriver'
  BY DEF OneDriver
<1>3. ServicesAreUp'
  BY DEF ServicesAreUp
<1>4. PartsAreHeld'
  BY DEF PartsAreHeld, Held
<1>5. OffIsPrepared'
  BY DEF OffIsPrepared, OffIsQuiet, AllJoined
<1> QED BY <1>1, <1>2, <1>3, <1>4, <1>5

\* The last part of stop_lan: with nothing left to own them the listeners
\* found in the queue were the only ones open.
LEMMA StopLanDrainKeepsIt ==
  ASSUME TypeOK, LanInvariant, NEW f \in BOOLEAN, StopLanDrain(f)
  PROVE  LanInvariant'
<1> USE DEF LanInvariant
<1>1. /\ pc = "offMesh" /\ pc' = "select" /\ opq' = <<>> /\ svcq' = <<>>
      /\ localId' = 0 /\ origins' = FALSE
      /\ UNCHANGED <<gen, start, retry, attempts, services, retiring, tasks, aborted, workers>>
  BY DEF StopLanDrain
<1>2. state' \notin Active
  BY DEF StopLanDrain, Active
<1>3. tasks = {} /\ services = 0
  BY <1>1 DEF OneDriver
<1>4. start = 0 /\ retry = 0 /\ aborted = {} /\ retiring = {} /\ attempts = 0
  BY <1>1 DEF OffIsPrepared
<1>5. workers = {}
  BY <1>3, <1>4 DEF GenerationsAgree
<1>6. open' = {}
  <2>1. \A g \in open : \E i \in 1 .. Len(opq) : IsUp(opq[i]) /\ opq[i].gen = g
    BY <1>3, <1>4 DEF PartsAreHeld
  <2>2. \A g \in open : g \in {e.gen : e \in {o \in Queued(opq) : o.type = "ServicesStarted" /\ o.ok}}
    BY <2>1 DEF Queued, IsUp
  <2> QED BY <2>2 DEF StopLanDrain
<1>7. \A i \in 1 .. Len(opq') : FALSE
  BY <1>1
<1>8. \A i \in 1 .. Len(svcq') : FALSE
  BY <1>1
<1>9. GenerationsAgree'
  BY <1>1, <1>3, <1>4, <1>5, <1>7, <1>8 DEF GenerationsAgree
<1>10. OneDriver'
  BY <1>1, <1>2, <1>3, <1>7 DEF OneDriver
<1>11. ServicesAreUp'
  BY <1>1, <1>3, <1>7 DEF ServicesAreUp
<1>12. PartsAreHeld'
  BY <1>1, <1>3, <1>6 DEF PartsAreHeld
<1>13. OffIsPrepared'
  BY <1>1, <1>3, <1>4, <1>5, <1>6 DEF OffIsPrepared, OffIsQuiet
<1> QED BY <1>9, <1>10, <1>11, <1>12, <1>13

\* The end of a report that a handler takes and leaves without effect on what
\* drives discovery: a queue loses its head.
LEMMA TakenKeepsIt ==
  ASSUME TypeOK, LanInvariant, pc = "select", pc' = "select",
         UNCHANGED <<localId, gen, start, retry, services, retiring, tasks, aborted, workers,
                     origins>>,
         state' \in Active <=> state \in Active,
         \/ /\ opq # <<>> /\ opq' = Tail(opq) /\ svcq' = svcq
            /\ opq[1].gen # gen
            /\ open' = IF IsUp(opq[1]) THEN open \ {opq[1].gen} ELSE open
         \/ svcq # <<>> /\ svcq' = Tail(svcq) /\ opq' = opq /\ open' = open
  PROVE  LanInvariant'
<1> USE DEF LanInvariant
<1>1. PICK d \in {0, 1} :
        /\ opq' # opq => d = 1
        /\ \A i \in 1 .. Len(opq') : i + d \in 1 .. Len(opq) /\ opq'[i] = opq[i + d]
        /\ \A i \in 1 .. Len(opq) : (i = 1 /\ d = 1) \/ (i - d \in 1 .. Len(opq') /\ opq'[i - d] = opq[i])
  <2>1. opq \in Seq(Operations) /\ (opq' = opq \/ (opq # <<>> /\ opq' = Tail(opq)))
    BY DEF TypeOK
  <2> QED BY <2>1, QueueKeptOrTaken
<1>2. PICK c \in {0, 1} :
        \A i \in 1 .. Len(svcq') : i + c \in 1 .. Len(svcq) /\ svcq'[i] = svcq[i + c]
  <2>1. svcq \in Seq(Reports)
    BY DEF TypeOK
  <2> QED BY <2>1, QueueKeptOrTaken
<1>3. \A g \in open : g = gen => g \in open'
  OBVIOUS
<1>4. \A i \in 1 .. Len(opq) : opq[i].gen = gen =>
        \E j \in 1 .. Len(opq') : opq'[j] = opq[i]
  <2> SUFFICES ASSUME NEW i \in 1 .. Len(opq), opq[i].gen = gen
               PROVE  \E j \in 1 .. Len(opq') : opq'[j] = opq[i]
    OBVIOUS
  <2>1. CASE opq' = opq
    BY <2>1
  <2>2. CASE opq' # opq
    <3>1. i # 1
      BY <2>2
    <3> QED BY <1>1, <3>1
  <2> QED BY <2>1, <2>2
<1>5. GenerationsAgree'
  <2>1. \A i \in 1 .. Len(opq') : opq'[i].gen <= gen /\ opq'[i].gen # 0
    BY <1>1 DEF GenerationsAgree
  <2>2. \A i \in 1 .. Len(svcq') : /\ svcq'[i].gen <= gen /\ svcq'[i].gen # 0
                                   /\ svcq'[i].gen = gen => services = gen
    BY <1>2 DEF GenerationsAgree
  <2> QED BY <2>1, <2>2 DEF GenerationsAgree
<1>6. OneDriver'
  <2>1. \A i, j \in 1 .. Len(opq') : opq'[i].gen = gen /\ opq'[j].gen = gen => i = j
    <3> SUFFICES ASSUME NEW i \in 1 .. Len(opq'), NEW j \in 1 .. Len(opq'),
                        opq'[i].gen = gen, opq'[j].gen = gen
                 PROVE  i = j
      OBVIOUS
    <3>1. /\ i + d \in 1 .. Len(opq) /\ opq'[i] = opq[i + d]
          /\ j + d \in 1 .. Len(opq) /\ opq'[j] = opq[j + d]
      BY <1>1
    <3>2. i + d = j + d
      BY <3>1 DEF OneDriver
    <3> QED BY <3>2
  <2>2. \A i \in 1 .. Len(opq') : opq'[i].gen = gen => services = 0 /\ tasks = {}
    BY <1>1 DEF OneDriver
  <2>3. (\E i \in 1 .. Len(opq') : opq'[i].gen = gen) <=> (\E i \in 1 .. Len(opq) : opq[i].gen = gen)
    <3>1. ASSUME NEW i \in 1 .. Len(opq'), opq'[i].gen = gen
          PROVE  \E j \in 1 .. Len(opq) : opq[j].gen = gen
      BY <1>1, <3>1
    <3>2. ASSUME NEW i \in 1 .. Len(opq), opq[i].gen = gen
          PROVE  \E j \in 1 .. Len(opq') : opq'[j].gen = gen
      BY <1>4, <3>2
    <3> QED BY <3>1, <3>2
  <2> QED BY <2>1, <2>2, <2>3 DEF OneDriver
<1>7. ServicesAreUp'
  <2>1. \A i \in 1 .. Len(opq') : opq'[i].gen = gen /\ IsUp(opq'[i]) => gen \in open'
    BY <1>1, <1>3 DEF ServicesAreUp
  <2>2. services # 0 => services \in open' /\ origins
    BY <1>3 DEF ServicesAreUp, GenerationsAgree
  <2> QED BY <2>1, <2>2 DEF ServicesAreUp
<1>8. PartsAreHeld'
  <2>1. ASSUME NEW g \in open'
        PROVE  /\ g # 0
               /\ \/ g = services \/ g \in retiring
                  \/ \E i \in 1 .. Len(opq') : IsUp(opq'[i]) /\ opq'[i].gen = g
    <3>1. g \in open /\ (opq' # opq /\ IsUp(opq[1]) => g # opq[1].gen)
      OBVIOUS
    <3>2. CASE \E i \in 1 .. Len(opq) : IsUp(opq[i]) /\ opq[i].gen = g
      <4>1. PICK i \in 1 .. Len(opq) : IsUp(opq[i]) /\ opq[i].gen = g
        BY <3>2
      <4>2. CASE opq' = opq
        BY <3>1, <4>1, <4>2 DEF PartsAreHeld
      <4>3. CASE opq' # opq
        <5>1. i # 1
          BY <3>1, <4>1, <4>3
        <5>2. i - d \in 1 .. Len(opq') /\ opq'[i - d] = opq[i]
          BY <1>1, <5>1
        <5> QED BY <3>1, <4>1, <5>2 DEF PartsAreHeld
      <4> QED BY <4>2, <4>3
    <3>3. CASE g = services \/ g \in retiring
      BY <3>1, <3>3 DEF PartsAreHeld
    <3> QED BY <3>1, <3>2, <3>3 DEF PartsAreHeld
  <2>2. tasks' \subseteq Held'
    BY DEF PartsAreHeld, Held
  <2> QED BY <2>1, <2>2 DEF PartsAreHeld
<1>9. OffIsPrepared'
  <2>1. origins
    BY DEF OffIsPrepared, OffIsQuiet
  <2> QED BY <2>1 DEF OffIsPrepared, OffIsQuiet
<1> QED BY <1>5, <1>6, <1>7, <1>8, <1>9

\* The result of a start: late, up, or failed.
LEMMA OnServicesStartedKeepsIt ==
  ASSUME TypeOK, TypeOK', LanInvariant, OnServicesStarted
  PROVE  LanInvariant'
<1>1. /\ pc = "select" /\ pc' = "select" /\ svcq' = svcq /\ origins' = origins
      /\ opq # <<>> /\ opq' = Tail(opq) /\ Head(opq) = opq[1] /\ 1 \in 1 .. Len(opq)
      /\ opq[1].type = "ServicesStarted"
  BY TailShifts DEF OnServicesStarted, TakeOperation, TypeOK
<1>2. opq[1].gen = gen => state \in Active
  BY <1>1 DEF LanInvariant, OneDriver
<1>3. CASE ~(Current(opq[1]) /\ state \in Active)
  <2>1. /\ open' = IF IsUp(opq[1]) THEN open \ {opq[1].gen} ELSE open
        /\ UNCHANGED <<rowVars, handleVars, retiring, tasks, aborted, workers>>
    BY <1>1, <1>3 DEF OnServicesStarted, LateShutDown, IsUp
  <2>2. opq[1].gen # gen
    BY <1>2, <1>3 DEF Current
  <2>3. /\ UNCHANGED <<localId, gen, start, retry, services, retiring, tasks, aborted, workers,
                       origins>>
        /\ state' \in Active <=> state \in Active
    BY <1>1, <2>1
  <2> QED BY <1>1, <2>1, <2>2, <2>3, TakenKeepsIt
<1>4. CASE Current(opq[1]) /\ state \in Active /\ opq[1].ok
  <2> USE DEF LanInvariant
  <2>1. /\ localId' = gen /\ services' = gen /\ start' = 0
        /\ workers' = workers \cup [kind : {"browse", "scan", "listen"}, gen : {gen}]
        /\ UNCHANGED <<state, gen, retry, attempts, retiring, tasks, aborted, open>>
    BY <1>1, <1>4 DEF OnServicesStarted, Current
  <2>2. /\ tasks = {} /\ services = 0 /\ gen \in open /\ gen # 0 /\ gen \in Nat
    BY <1>1, <1>4 DEF OneDriver, ServicesAreUp, IsUp, Current, GenerationsAgree, TypeOK
  <2>3. /\ \A i \in 1 .. Len(opq') : i + 1 \in 1 .. Len(opq) /\ opq'[i] = opq[i + 1]
        /\ \A i \in 1 .. Len(opq) : i = 1 \/ (i - 1 \in 1 .. Len(opq') /\ opq'[i - 1] = opq[i])
    <3>1. opq \in Seq(Operations)
      BY DEF TypeOK
    <3>2. \A i \in 1 .. Len(opq') : i + 1 \in 1 .. Len(opq) /\ opq'[i] = opq[i + 1]
      BY <1>1, <3>1, TailShifts
    <3>3. \A i \in 1 .. Len(opq) : i = 1 \/ (i - 1 \in 1 .. Len(opq') /\ opq'[i - 1] = opq[i])
      BY <1>1, <3>1, TailKeepsTheRest
    <3> QED BY <3>2, <3>3
  <2>4. \A i \in 1 .. Len(opq') : opq'[i].gen # gen
    <3> SUFFICES ASSUME NEW i \in 1 .. Len(opq'), opq'[i].gen = gen PROVE FALSE
      OBVIOUS
    <3>1. i + 1 = 1
      BY <1>1, <1>4, <2>3 DEF OneDriver, Current
    <3> QED BY <3>1
  <2>5. GenerationsAgree'
    <3>1. \A w \in workers' : w.gen # 0 /\ (w.gen = services' \/ w.gen \in retiring')
      BY <2>1, <2>2 DEF GenerationsAgree
    <3>2. \A i \in 1 .. Len(opq') : opq'[i].gen <= gen /\ opq'[i].gen # 0
      BY <2>3 DEF GenerationsAgree
    <3> QED BY <1>1, <2>1, <3>1, <3>2 DEF GenerationsAgree
  <2>6. OneDriver'
    BY <1>1, <1>4, <2>1, <2>2, <2>4 DEF OneDriver
  <2>7. origins
    BY <1>1 DEF OffIsPrepared, OffIsQuiet
  <2>8. ServicesAreUp'
    BY <1>1, <2>1, <2>2, <2>4, <2>7 DEF ServicesAreUp
  <2>9. PartsAreHeld'
    <3>1. ASSUME NEW g \in open
          PROVE  /\ g # 0
                 /\ \/ g = gen \/ g \in retiring
                    \/ \E i \in 1 .. Len(opq') : IsUp(opq'[i]) /\ opq'[i].gen = g
      <4>1. CASE \E i \in 1 .. Len(opq) : IsUp(opq[i]) /\ opq[i].gen = g
        <5>1. PICK i \in 1 .. Len(opq) : IsUp(opq[i]) /\ opq[i].gen = g
          BY <4>1
        <5>2. i = 1 \/ (i - 1 \in 1 .. Len(opq') /\ opq'[i - 1] = opq[i])
          BY <2>3
        <5> QED BY <1>4, <5>1, <5>2 DEF PartsAreHeld, Current
      <4>2. CASE g = services \/ g \in retiring
        BY <2>2, <4>2 DEF PartsAreHeld
      <4> QED BY <4>1, <4>2 DEF PartsAreHeld
    <3> QED BY <2>1, <2>2, <3>1 DEF PartsAreHeld
  <2>10. OffIsPrepared'
    BY <1>1, <2>7 DEF OffIsPrepared, OffIsQuiet
  <2> QED BY <2>5, <2>6, <2>8, <2>9, <2>10
<1>5. CASE Current(opq[1]) /\ state \in Active /\ ~opq[1].ok
  <2>1. Recover /\ UNCHANGED <<workers, open, origins>> /\ ~IsUp(opq[1])
    BY <1>1, <1>5 DEF OnServicesStarted, IsUp
  <2> QED BY <1>1, <2>1, RecoverKeepsIt
<1> QED BY <1>3, <1>4, <1>5

\* The wake-up of a retry: it starts the services of its generation, or is late.
LEMMA OnRestartDiscoveryKeepsIt ==
  ASSUME TypeOK, TypeOK', LanInvariant, OnRestartDiscovery
  PROVE  LanInvariant'
<1>1. /\ pc = "select" /\ pc' = "select" /\ svcq' = svcq
      /\ opq # <<>> /\ opq' = Tail(opq) /\ Head(opq) = opq[1] /\ 1 \in 1 .. Len(opq)
      /\ opq[1].type = "RestartDiscovery" /\ ~IsUp(opq[1])
      /\ UNCHANGED <<state, gen, attempts, services, retiring, aborted, workers, open>>
  BY TailShifts DEF OnRestartDiscovery, TakeOperation, TypeOK, IsUp
<1>2. opq[1].gen = gen => state \in Active
  BY <1>1 DEF LanInvariant, OneDriver
<1>3. CASE ~(Current(opq[1]) /\ state \in Active)
  <2>1. UNCHANGED <<retry, start, tasks, localId, origins>>
    BY <1>1, <1>3 DEF OnRestartDiscovery
  <2>2. opq[1].gen # gen
    BY <1>2, <1>3 DEF Current
  <2>3. state' \in Active <=> state \in Active
    BY <1>1
  <2> QED BY <1>1, <2>1, <2>2, <2>3, TakenKeepsIt
<1>4. CASE Current(opq[1]) /\ state \in Active
  <2> USE DEF LanInvariant
  <2>1. /\ retry' = 0 /\ start' = gen /\ localId' = 0 /\ origins' = TRUE
        /\ tasks' = tasks \cup {Task("start", gen)}
    BY <1>1, <1>4 DEF OnRestartDiscovery
  <2>2. /\ tasks = {} /\ services = 0 /\ gen # 0
    BY <1>1, <1>4 DEF OneDriver, Current, GenerationsAgree
  <2>3. /\ \A i \in 1 .. Len(opq') : i + 1 \in 1 .. Len(opq) /\ opq'[i] = opq[i + 1]
        /\ \A i \in 1 .. Len(opq) : i = 1 \/ (i - 1 \in 1 .. Len(opq') /\ opq'[i - 1] = opq[i])
    <3>1. opq \in Seq(Operations)
      BY DEF TypeOK
    <3>2. \A i \in 1 .. Len(opq') : i + 1 \in 1 .. Len(opq) /\ opq'[i] = opq[i + 1]
      BY <1>1, <3>1, TailShifts
    <3>3. \A i \in 1 .. Len(opq) : i = 1 \/ (i - 1 \in 1 .. Len(opq') /\ opq'[i - 1] = opq[i])
      BY <1>1, <3>1, TailKeepsTheRest
    <3> QED BY <3>2, <3>3
  <2>4. \A i \in 1 .. Len(opq') : opq'[i].gen # gen
    <3> SUFFICES ASSUME NEW i \in 1 .. Len(opq'), opq'[i].gen = gen PROVE FALSE
      OBVIOUS
    <3>1. i + 1 = 1
      BY <1>1, <1>4, <2>3 DEF OneDriver, Current
    <3> QED BY <3>1
  <2>5. GenerationsAgree'
    <3>1. \A i \in 1 .. Len(opq') : opq'[i].gen <= gen /\ opq'[i].gen # 0
      BY <2>3 DEF GenerationsAgree
    <3>2. \A t \in tasks' : t.gen = gen /\ t.gen # 0
      BY <2>1, <2>2 DEF Task
    <3> QED BY <1>1, <3>1, <3>2 DEF GenerationsAgree
  <2>6. OneDriver'
    BY <1>1, <1>4, <2>1, <2>2, <2>4 DEF OneDriver
  <2>7. ServicesAreUp'
    BY <1>1, <2>1, <2>2, <2>4 DEF ServicesAreUp
  <2>8. PartsAreHeld'
    <3>1. ASSUME NEW g \in open
          PROVE  /\ g # 0
                 /\ \/ g = services \/ g \in retiring
                    \/ \E i \in 1 .. Len(opq') : IsUp(opq'[i]) /\ opq'[i].gen = g
      <4>1. CASE \E i \in 1 .. Len(opq) : IsUp(opq[i]) /\ opq[i].gen = g
        <5>1. PICK i \in 1 .. Len(opq) : IsUp(opq[i]) /\ opq[i].gen = g
          BY <4>1
        <5>2. i - 1 \in 1 .. Len(opq') /\ opq'[i - 1] = opq[i]
          BY <1>1, <2>3, <5>1
        <5> QED BY <5>1, <5>2 DEF PartsAreHeld
      <4>2. CASE g = services \/ g \in retiring
        BY <4>2 DEF PartsAreHeld
      <4> QED BY <4>1, <4>2 DEF PartsAreHeld
    <3>2. tasks' \subseteq Held'
      BY <2>1, <2>2 DEF Held
    <3> QED BY <1>1, <3>1, <3>2 DEF PartsAreHeld
  <2>9. OffIsPrepared'
    BY <1>1, <2>1 DEF OffIsPrepared, OffIsQuiet
  <2> QED BY <2>5, <2>6, <2>7, <2>8, <2>9
<1> QED BY <1>3, <1>4

\* The reports of the services.
LEMMA HandleServiceKeepsIt ==
  ASSUME TypeOK, TypeOK', LanInvariant, HandleService
  PROVE  LanInvariant'
<1>1. /\ pc = "select" /\ pc' = "select" /\ opq' = opq
      /\ svcq # <<>> /\ svcq' = Tail(svcq) /\ Head(svcq) = svcq[1] /\ 1 \in 1 .. Len(svcq)
      /\ UNCHANGED <<origins, cleanup, workers, open>>
  BY TailShifts DEF HandleService, OnStaleReport, OnFound, OnLost, OnScanFinished,
     OnServiceStopped, TakeReport, TypeOK
<1>2. CASE OnServiceStopped
  BY <1>1, <1>2, RecoverKeepsIt DEF OnServiceStopped
<1>3. ASSUME OnStaleReport \/ OnFound \/ OnLost \/ OnScanFinished
      PROVE  /\ UNCHANGED <<localId, gen, start, retry, services, retiring, tasks, aborted>>
             /\ state' \in Active <=> state \in Active
  <2>1. CASE OnStaleReport
    BY <2>1 DEF OnStaleReport
  <2>2. CASE OnFound
    BY <2>2 DEF OnFound, Active
  <2>3. CASE OnLost
    BY <2>3 DEF OnLost, Active
  <2>4. CASE OnScanFinished
    BY <2>4 DEF OnScanFinished, AfterScan, Active
  <2> QED BY <1>3, <2>1, <2>2, <2>3, <2>4
<1>4. CASE OnStaleReport \/ OnFound \/ OnLost \/ OnScanFinished
  BY <1>1, <1>3, <1>4, TakenKeepsIt
<1> QED BY <1>2, <1>4 DEF HandleService

\* A task's report takes over as driver from a task that held the current
\* generation; that of an aborted task is late.
LEMMA TaskReportsKeepsIt ==
  ASSUME TypeOK, TypeOK', LanInvariant, NEW t \in tasks \cup aborted, TaskReports(t)
  PROVE  LanInvariant'
<1> USE DEF LanInvariant
<1>1. PICK e \in Outcomes(t) :
        /\ opq' = Append(opq, e)
        /\ open' = IF IsUp(e) THEN open \cup {e.gen} ELSE open
  BY DEF TaskReports, IsUp
<1>2. /\ tasks' = tasks \ {t} /\ aborted' = aborted \ {t}
      /\ UNCHANGED <<pc, rowVars, handleVars, retiring, workers, origins, svcq>>
  BY DEF TaskReports
<1>3. e \in Operations /\ e.gen = t.gen
  BY OutcomesAreTyped DEF TypeOK
<1>4. /\ Len(opq) \in Nat
      /\ \A i \in 1 .. Len(opq) : opq'[i] = opq[i] /\ i \in 1 .. Len(opq')
      /\ opq'[Len(opq) + 1] = e /\ Len(opq) + 1 \in 1 .. Len(opq')
      /\ \A i \in 1 .. Len(opq') : i = Len(opq) + 1 \/ i \in 1 .. Len(opq)
  BY <1>1, <1>3, AppendAdds DEF TypeOK
<1>5. /\ gen \in Nat /\ e.gen \in Nat /\ e.gen <= gen /\ e.gen # 0
      /\ e.gen = gen <=> t \in tasks
      /\ t \in tasks => tasks' = {}
  <2>1. gen \in Nat /\ e.gen \in Nat
    BY <1>3, GenerationsAreNumbers
  <2>2. /\ t \in tasks => t.gen = gen /\ t.gen # 0
        /\ t \in aborted => t.gen < gen /\ t.gen # 0
        /\ t \in tasks => tasks' = {}
    BY <1>2 DEF GenerationsAgree, OneDriver
  <2> QED BY <1>3, <2>1, <2>2
<1>6. GenerationsAgree'
  <2>1. \A i \in 1 .. Len(opq') : opq'[i].gen <= gen /\ opq'[i].gen # 0
    BY <1>4, <1>5 DEF GenerationsAgree
  <2> QED BY <1>2, <2>1 DEF GenerationsAgree
<1>7. OneDriver'
  <2>1. CASE t \in tasks
    <3>1. \A i \in 1 .. Len(opq) : opq[i].gen # gen
      BY <2>1 DEF OneDriver
    <3>2. \A i \in 1 .. Len(opq') : opq'[i].gen = gen => i = Len(opq) + 1
      BY <1>4, <3>1
    <3>3. services = 0 /\ pc = "select" /\ state \in Active
      BY <2>1 DEF OneDriver
    <3>4. \E i \in 1 .. Len(opq') : opq'[i].gen = gen
      BY <1>4, <1>5, <2>1
    <3> QED BY <1>2, <1>5, <2>1, <3>2, <3>3, <3>4 DEF OneDriver
  <2>2. CASE t \notin tasks
    <3>1. /\ \A i \in 1 .. Len(opq') : opq'[i].gen = gen => i \in 1 .. Len(opq)
          /\ \A i \in 1 .. Len(opq) : opq'[i] = opq[i] /\ i \in 1 .. Len(opq')
      BY <1>4, <1>5, <2>2
    <3>2. tasks' = tasks
      BY <1>2, <2>2
    <3> QED BY <1>2, <3>1, <3>2 DEF OneDriver
  <2> QED BY <2>1, <2>2
<1>8. ServicesAreUp'
  <2>1. open \subseteq open' /\ (IsUp(e) => e.gen \in open')
    BY <1>1
  <2>2. \A i \in 1 .. Len(opq') : opq'[i].gen = gen /\ IsUp(opq'[i]) => gen \in open'
    BY <1>4, <2>1 DEF ServicesAreUp
  <2> QED BY <1>2, <2>1, <2>2 DEF ServicesAreUp
<1>9. PartsAreHeld'
  <2>1. ASSUME NEW g \in open'
        PROVE  /\ g # 0
               /\ \/ g = services \/ g \in retiring
                  \/ \E i \in 1 .. Len(opq') : IsUp(opq'[i]) /\ opq'[i].gen = g
    <3>1. CASE g \in open
      <4>1. CASE \E i \in 1 .. Len(opq) : IsUp(opq[i]) /\ opq[i].gen = g
        BY <1>4, <3>1, <4>1 DEF PartsAreHeld
      <4>2. CASE g = services \/ g \in retiring
        BY <3>1, <4>2 DEF PartsAreHeld
      <4> QED BY <3>1, <4>1, <4>2 DEF PartsAreHeld
    <3>2. CASE g \notin open
      <4>1. IsUp(e) /\ g = e.gen
        BY <1>1, <3>2
      <4> QED BY <1>4, <1>5, <4>1
    <3> QED BY <3>1, <3>2
  <2>2. tasks' \subseteq Held'
    BY <1>2 DEF PartsAreHeld, Held
  <2> QED BY <1>2, <2>1, <2>2 DEF PartsAreHeld
<1>10. OffIsPrepared'
  <2>1. origins
    BY DEF OffIsPrepared, OffIsQuiet
  <2> QED BY <1>2, <2>1 DEF OffIsPrepared, OffIsQuiet
<1> QED BY <1>6, <1>7, <1>8, <1>9, <1>10

\* An abort reaches its task.
LEMMA AbortTakesEffectKeepsIt ==
  ASSUME LanInvariant, NEW t \in aborted, AbortTakesEffect(t)
  PROVE  LanInvariant'
<1> USE DEF LanInvariant, AbortTakesEffect
<1>1. GenerationsAgree'
  BY DEF GenerationsAgree
<1>2. OneDriver'
  BY DEF OneDriver
<1>3. ServicesAreUp'
  BY DEF ServicesAreUp
<1>4. PartsAreHeld'
  BY DEF PartsAreHeld, Held
<1>5. OffIsPrepared'
  BY DEF OffIsPrepared, OffIsQuiet
<1> QED BY <1>1, <1>2, <1>3, <1>4, <1>5

\* Services that go down take their own workers and listener along, and no others.
LEMMA ShutDownKeepsIt ==
  ASSUME TypeOK, LanInvariant, NEW g \in retiring, ShutDown(g)
  PROVE  LanInvariant'
<1> USE DEF LanInvariant
<1>1. /\ retiring' = retiring \ {g} /\ open' = open \ {g}
      /\ workers' = {w \in workers : w.gen # g}
      /\ UNCHANGED <<pc, rowVars, handleVars, tasks, aborted, origins, opq, svcq>>
  BY DEF ShutDown
<1>2. gen \in Nat /\ g \in Nat /\ g < gen /\ g # 0 /\ services \in {0, gen}
  BY GenerationsAreNumbers DEF GenerationsAgree
<1>3. services # g /\ gen # g
  BY <1>2
<1>4. GenerationsAgree'
  BY <1>1 DEF GenerationsAgree
<1>5. OneDriver'
  BY <1>1 DEF OneDriver
<1>6. ServicesAreUp'
  BY <1>1, <1>3 DEF ServicesAreUp
<1>7. PartsAreHeld'
  BY <1>1 DEF PartsAreHeld, Held
<1>8. OffIsPrepared'
  BY <1>1 DEF OffIsPrepared, OffIsQuiet
<1> QED BY <1>4, <1>5, <1>6, <1>7, <1>8

\* A worker reports for its own generation, current only with its services.
LEMMA WorkerStepKeepsIt ==
  ASSUME TypeOK, TypeOK', LanInvariant, WorkerStep
  PROVE  LanInvariant'
<1> USE DEF LanInvariant
<1>1. PICK g \in Working : BrowseReports(g) \/ BrowseStops(g) \/ ListenStops(g) \/ ScanWindowEnds(g)
  BY DEF WorkerStep
<1>2. /\ g \in Nat /\ g # 0 /\ g <= gen /\ (g = gen => services = gen)
  <2>1. PICK w \in workers : w.gen = g
    BY <1>1 DEF Working
  <2>2. g # 0 /\ (g = services \/ g \in retiring)
    BY <2>1 DEF GenerationsAgree
  <2>3. gen \in Nat /\ g \in Nat /\ services \in {0, gen} /\ \A r \in retiring : r < gen
    BY <2>1, GenerationsAreNumbers DEF GenerationsAgree
  <2> QED BY <2>2, <2>3
<1>3. workers' \subseteq workers
  BY <1>1 DEF BrowseReports, BrowseStops, ListenStops, WorkerStops, ScanWindowEnds
<1>4. PICK e \in Reports : Reported(e) /\ e.gen = g
  BY <1>1, <1>2, ReportsAreTyped DEF BrowseReports, BrowseStops, ListenStops, WorkerStops,
     ScanWindowEnds, Report
<1>5. /\ svcq' = Append(svcq, e)
      /\ UNCHANGED <<pc, rowVars, handleVars, retiring, tasks, aborted, open, origins, opq>>
  BY <1>4 DEF Reported
<1>6. /\ \A i \in 1 .. Len(svcq) : svcq'[i] = svcq[i]
      /\ svcq'[Len(svcq) + 1] = e
      /\ \A i \in 1 .. Len(svcq') : i = Len(svcq) + 1 \/ i \in 1 .. Len(svcq)
  BY <1>5, AppendAdds DEF TypeOK
<1>7. GenerationsAgree'
  <2>1. \A i \in 1 .. Len(svcq') : /\ svcq'[i].gen <= gen /\ svcq'[i].gen # 0
                                   /\ svcq'[i].gen = gen => services = gen
    BY <1>2, <1>4, <1>6 DEF GenerationsAgree
  <2> QED BY <1>3, <1>5, <2>1 DEF GenerationsAgree
<1>8. OneDriver'
  BY <1>5 DEF OneDriver
<1>9. ServicesAreUp'
  BY <1>5 DEF ServicesAreUp
<1>10. PartsAreHeld'
  BY <1>5 DEF PartsAreHeld, Held
<1>11. OffIsPrepared'
  <2>1. origins
    BY <1>1 DEF OffIsPrepared, OffIsQuiet, Working
  <2> QED BY <1>5, <2>1 DEF OffIsPrepared, OffIsQuiet
<1> QED BY <1>7, <1>8, <1>9, <1>10, <1>11

\* The invariant holds of the program, for all peers, capacities, retry limits
\* and however many generations.
THEOREM LanInvariantHolds == Spec => []LanInvariant
<1>1. Init => LanInvariant
  BY DEF Init, LanInvariant, GenerationsAgree, OneDriver, ServicesAreUp, PartsAreHeld,
     OffIsPrepared, OffIsQuiet, Active
<1>2. TypeOK /\ TypeOK' /\ LanInvariant /\ [Next]_vars => LanInvariant'
  <2> SUFFICES ASSUME TypeOK, TypeOK', LanInvariant, [Next]_vars PROVE LanInvariant'
    OBVIOUS
  <2>1. CASE StartDiscovery \/ RetryDiscovery
    BY <2>1, RelaunchKeepsIt DEF StartDiscovery, RetryDiscovery
  <2>2. CASE StopLan
    BY <2>2, StopLanKeepsIt
  <2>3. CASE Off
    BY <2>3, StopLanJoinedKeepsIt, StopLanDrainKeepsIt DEF Off
  <2>4. CASE HandleOperation
    BY <2>4, OnServicesStartedKeepsIt, OnRestartDiscoveryKeepsIt DEF HandleOperation
  <2>5. CASE HandleService
    BY <2>5, HandleServiceKeepsIt
  <2>6. CASE TaskStep
    BY <2>6, TaskReportsKeepsIt, AbortTakesEffectKeepsIt, ShutDownKeepsIt DEF TaskStep
  <2>7. CASE WorkerStep
    BY <2>7, WorkerStepKeepsIt
  <2>8. CASE UNCHANGED vars
    <3>1. GenerationsAgree'
      BY <2>8 DEF vars, LanInvariant, GenerationsAgree
    <3>2. OneDriver'
      BY <2>8 DEF vars, LanInvariant, OneDriver
    <3>3. ServicesAreUp'
      BY <2>8 DEF vars, LanInvariant, ServicesAreUp
    <3>4. PartsAreHeld'
      BY <2>8 DEF vars, LanInvariant, PartsAreHeld, Held
    <3>5. OffIsPrepared'
      BY <2>8 DEF vars, LanInvariant, OffIsPrepared, OffIsQuiet
    <3> QED BY <3>1, <3>2, <3>3, <3>4, <3>5 DEF LanInvariant
  <2> QED BY <2>1, <2>2, <2>3, <2>4, <2>5, <2>6, <2>7, <2>8 DEF Next
<1> QED BY <1>1, <1>2, LanTypeCorrect, PTL DEF Spec

-----------------------------------------------------------------------------
(* The properties.                                                         *)

\* Every task is one that an abort would reach, every listener has someone who
\* closes it, and after Off nothing of the LAN is left.
THEOREM LanOwnedAndQuiet == Spec => []OwnedAndQuiet
<1>1. TypeOK /\ LanInvariant => OwnedAndQuiet
  <2> SUFFICES ASSUME TypeOK, LanInvariant PROVE OwnedAndQuiet
    OBVIOUS
  <2>1. OffIsQuiet
    BY DEF LanInvariant, OffIsPrepared
  <2>2. tasks \subseteq Held
    BY DEF LanInvariant, PartsAreHeld
  <2>3. ASSUME NEW g \in open
        PROVE  g \in {services} \cup retiring
                 \cup {e.gen : e \in {o \in Queued(opq) : o.type = "ServicesStarted" /\ o.ok}}
    BY <2>3 DEF LanInvariant, PartsAreHeld, IsUp, Queued
  <2> QED BY <2>1, <2>2, <2>3 DEF OwnedAndQuiet, RunningPartsAreOwned
<1> QED BY <1>1, LanTypeCorrect, LanInvariantHolds, PTL

\* While discovery shows an active state exactly one task, result or set of
\* services drives it on, and nothing does in Idle and Error.
THEOREM LanActiveHasOneDriver == Spec => []ActiveHasOneDriver
<1>1. TypeOK /\ LanInvariant => ActiveHasOneDriver
  <2> SUFFICES ASSUME TypeOK, LanInvariant, pc = "select"
               PROVE  IF state \in Active THEN \E d \in Drivers : Drivers = {d} ELSE Drivers = {}
    BY DEF ActiveHasOneDriver
  <2> USE DEF LanInvariant
  <2> DEFINE Up == IF services = 0 THEN {} ELSE {Task("services", services)}
             Results == {e \in Queued(opq) : e.gen = gen}
  <2>1. {t \in tasks : t.gen = gen} = tasks
    BY DEF GenerationsAgree
  <2>2. Drivers = tasks \cup Results \cup Up
    BY <2>1 DEF Drivers
  <2>3. \A e : e \in Results <=> \E i \in 1 .. Len(opq) : opq[i] = e /\ e.gen = gen
    BY DEF Queued
  <2> HIDE DEF Results
  <2>4. CASE services # 0
    <3>1. tasks = {} /\ Results = {}
      BY <2>3, <2>4 DEF OneDriver
    <3>2. Drivers = {Task("services", services)} /\ state \in Active
      BY <2>2, <2>4, <3>1 DEF OneDriver
    <3> QED BY <3>2
  <2>5. CASE services = 0 /\ tasks # {}
    <3>1. PICK t : tasks = {t}
      BY <2>5 DEF OneDriver
    <3>2. Results = {} /\ state \in Active
      BY <2>3, <2>5 DEF OneDriver
    <3>3. Drivers = {t}
      BY <2>2, <2>5, <3>1, <3>2
    <3> QED BY <3>2, <3>3
  <2>6. CASE services = 0 /\ tasks = {} /\ Results # {}
    <3>1. PICK i \in 1 .. Len(opq) : opq[i] \in Results /\ opq[i].gen = gen
      BY <2>3, <2>6
    <3>2. \A e \in Results : e = opq[i]
      BY <2>3, <3>1 DEF OneDriver
    <3>3. Drivers = {opq[i]}
      BY <2>2, <2>6, <3>1, <3>2
    <3>4. state \in Active
      BY <3>1 DEF OneDriver
    <3> QED BY <3>3, <3>4
  <2>7. CASE services = 0 /\ tasks = {} /\ Results = {}
    <3>1. Drivers = {}
      BY <2>2, <2>7
    <3>2. state \notin Active
      BY <2>3, <2>7 DEF OneDriver
    <3> QED BY <3>1, <3>2
  <2> QED BY <2>4, <2>5, <2>6, <2>7
<1> QED BY <1>1, LanTypeCorrect, LanInvariantHolds, PTL

\* Media is admitted only on services of the current generation whose sockets
\* are open, while discovery is active.
THEOREM LanReadyOnLiveServicesOnly == Spec => []ReadyOnLiveServicesOnly
<1>1. LanInvariant => ReadyOnLiveServicesOnly
  BY DEF LanInvariant, ReadyOnLiveServicesOnly, GenerationsAgree, OneDriver, ServicesAreUp
<1> QED BY <1>1, LanInvariantHolds, PTL

\* A stopped LAN is reopened by a command and by nothing else.
THEOREM LanOnlyTheUserReopens == Spec => OnlyTheUserReopens
<1>1. TypeOK /\ LanInvariant /\ [Next]_vars
        => [state \notin Active /\ state' \in Active => StartDiscovery \/ RetryDiscovery]_state
  <2> SUFFICES ASSUME TypeOK, LanInvariant, [Next]_vars, state \notin Active, state' \in Active
               PROVE  StartDiscovery \/ RetryDiscovery
    OBVIOUS
  <2>1. ~OnServicesStarted
    BY DEF OnServicesStarted
  <2>2. ~OnRestartDiscovery
    BY DEF OnRestartDiscovery
  <2>3. ~HandleService
    <3>1. ~(OnStaleReport \/ OnFound \/ OnLost \/ OnScanFinished)
      BY DEF OnStaleReport, OnFound, OnLost, OnScanFinished, AfterScan, Active
    <3>2. ASSUME OnServiceStopped PROVE FALSE
      <4>1. pc = "select" /\ svcq # <<>> /\ Head(svcq).gen = gen
        BY <3>2 DEF OnServiceStopped, TakeReport, Current
      <4>2. Head(svcq) = svcq[1] /\ 1 \in 1 .. Len(svcq)
        BY <4>1, TailShifts DEF TypeOK
      <4>3. services # 0
        BY <4>1, <4>2 DEF LanInvariant, GenerationsAgree
      <4> QED BY <4>1, <4>3 DEF LanInvariant, OneDriver
    <3> QED BY <3>1, <3>2 DEF HandleService
  <2>4. ~(StopLan \/ Off)
    BY DEF StopLan, Off, StopLanJoined, StopLanDrain, Active
  <2>5. ~TaskStep
    BY DEF TaskStep, TaskReports, AbortTakesEffect, ShutDown
  <2>6. ~WorkerStep
    BY DEF WorkerStep, BrowseReports, BrowseStops, ListenStops, WorkerStops, ScanWindowEnds,
       Reported
  <2>7. ~UNCHANGED vars
    BY DEF vars
  <2> QED BY <2>1, <2>2, <2>3, <2>4, <2>5, <2>6, <2>7 DEF Next, HandleOperation
<1> QED BY <1>1, LanTypeCorrect, LanInvariantHolds, PTL DEF Spec, OnlyTheUserReopens
=============================================================================
