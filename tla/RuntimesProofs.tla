---------------------------- MODULE RuntimesProofs ----------------------------
(***************************************************************************)
(* Proofs about the runtimes of macOS and Windows, for all capacities and  *)
(* all numbers of requests, sleeps, services, shares and views, and the    *)
(* composition of MCRuntimes.                                              *)
(***************************************************************************)
EXTENDS MCRuntimes, QueueLemmas

-----------------------------------------------------------------------------
(* macOS: the inductive invariant.                                         *)

Goals == {"toStart", "toSleep", "toStopped", "toFailed", "toExit"}

\* What may be left of a handler that awaits.
Rests ==
  {<<>>, <<"joinWatch">>} \cup {<<g>> : g \in Goals}
  \cup {<<"joinMedia", g>> : g \in Goals} \cup {<<"closeServices", g>> : g \in Goals}
  \cup {<<"joinMedia", "closeServices", g>> : g \in Goals}

FirstOf(q) == IF q = <<>> THEN "none" ELSE Head(q)
LastOf(q)  == IF q = <<>> THEN "none" ELSE q[Len(q)]
Now        == FirstOf(todo)
Goal       == LastOf(todo)
ToClose(q) == \E i \in 1 .. Len(q) : q[i] = "closeServices"

\* Services run while the loop serves them and until its handler closes them.
NetworkIsHeld ==
  /\ services => mode = "serving" /\ (Goal \in Goals => ToClose(todo))
  /\ session = "Listening" => mode = "serving"
  /\ stopping => Goal = "toStopped"
  /\ Now = "joinWatch" => mode = "serving"

\* The phase, the owner, the publication and the task change together; only
\* between the cancel and the join of a task has the phase gone ahead of it.
MediaIsHeld ==
  /\ media # "Idle" => mode = "serving" /\ Now \in {"none", "joinWatch"}
  /\ media = "Stopping" <=> Now = "joinWatch"
  /\ media = "Idle" <=> owner = "none"
  /\ media \in {"PreparingWatch", "Watching", "Stopping"} => owner = "Watch"
  /\ media \in {"PreparingShare", "Sharing"} => owner = "Share"
  /\ stage # "idle" <=> AtShare
  /\ stage # "idle" => stageGen = gen
  /\ TaskLive => handle
  /\ handle => Now \in {"none", "joinWatch", "joinMedia"}
  /\ handle /\ Now = "none" => owner = "Watch" /\ taskGen = gen
  /\ TaskLive /\ Now = "none" => AtWatch
  /\ frame # 0 => handle
  /\ frame # 0 /\ Now = "none" => AtWatch /\ frame = gen
  /\ sysAudio => source = "mainDisplay"
  /\ shareAudio # "Off" => AtShare

\* A report of the end of a task is not in the queue before the task has ended.
ReportsAreOfTasks ==
  /\ taskGen <= gen
  /\ \A i \in 1 .. Len(events) :
       events[i].gen <= gen /\ (TaskLive /\ events[i].type = "Ended" => events[i].gen # taskGen)

\* Where the loop is heading when no request is left in the queue.
HeadsUp ==
  \/ Now \in {"none", "joinWatch"} /\ mode \in {"starting", "serving", "failed"}
  \/ Goal \in {"toStart", "toSleep", "toFailed"}
  \/ Now = "none" /\ mode = "asleep" /\ restart
HeadsDown ==
  \/ Now = "none" /\ (mode = "stopped" \/ (mode = "asleep" /\ ~restart))
  \/ Goal = "toStopped"

IntentIsFollowed ==
  /\ lan # <<>> => LastOf(lan) = asked
  /\ lan = <<>> /\ HeadsUp => asked # "Off" \/ ignored
  /\ lan = <<>> /\ HeadsDown => asked = "Off"

MacInvariant ==
  /\ TypeOK /\ todo \in Rests /\ NetworkIsHeld /\ MediaIsHeld
  /\ ReportsAreOfTasks /\ IntentIsFollowed

-----------------------------------------------------------------------------
(* macOS: what is left of a handler.                                       *)

\* The steps of a handler come in their order.
LEMMA RestTaken ==
  ASSUME NEW q \in Rests, q # <<>>
  PROVE  /\ Tail(q) \in Rests /\ Head(q) \in StepNames
         /\ Head(q) \in Goals \cup {"joinWatch"} => Tail(q) = <<>>
         /\ Head(q) \in Goals => LastOf(q) = Head(q) /\ q = <<Head(q)>> /\ ~ToClose(q)
         /\ Head(q) = "joinWatch" => LastOf(q) = "joinWatch"
         /\ Head(q) = "joinMedia" =>
              /\ FirstOf(Tail(q)) \in Goals \cup {"closeServices"}
              /\ LastOf(Tail(q)) = LastOf(q) /\ LastOf(q) \in Goals
              /\ ToClose(Tail(q)) <=> ToClose(q)
         /\ Head(q) = "closeServices" =>
              /\ FirstOf(Tail(q)) = LastOf(q) /\ LastOf(Tail(q)) = LastOf(q) /\ LastOf(q) \in Goals
              /\ ~ToClose(Tail(q))
<1> USE DEF FirstOf, LastOf, ToClose
<1>1. CASE q = <<"joinWatch">>
  BY <1>1 DEF Rests, StepNames, Goals
<1>2. ASSUME NEW g \in Goals, q = <<g>> PROVE Tail(q) = <<>> /\ Head(q) = g /\ LastOf(q) = g /\ ~ToClose(q)
  BY <1>2 DEF Goals
<1>3. ASSUME NEW g \in Goals, q = <<"joinMedia", g>>
      PROVE  /\ Tail(q) = <<g>> /\ Head(q) = "joinMedia" /\ LastOf(q) = g /\ LastOf(Tail(q)) = g
             /\ FirstOf(Tail(q)) = g /\ ~ToClose(Tail(q)) /\ ~ToClose(q)
  BY <1>3 DEF Goals
<1>4. ASSUME NEW g \in Goals, q = <<"closeServices", g>>
      PROVE  /\ Tail(q) = <<g>> /\ Head(q) = "closeServices" /\ LastOf(q) = g /\ LastOf(Tail(q)) = g
             /\ FirstOf(Tail(q)) = g /\ ~ToClose(Tail(q))
  BY <1>4 DEF Goals
<1>5. ASSUME NEW g \in Goals, q = <<"joinMedia", "closeServices", g>>
      PROVE  /\ Tail(q) = <<"closeServices", g>> /\ Head(q) = "joinMedia" /\ LastOf(q) = g
             /\ LastOf(Tail(q)) = g /\ FirstOf(Tail(q)) = "closeServices" 
             /\ ToClose(Tail(q)) /\ ToClose(q)
  BY <1>5 DEF Goals
<1>6. \/ q = <<"joinWatch">> 
      \/ \E g \in Goals : \/ q = <<g>> \/ q = <<"joinMedia", g>> \/ q = <<"closeServices", g>>
                          \/ q = <<"joinMedia", "closeServices", g>>
  BY DEF Rests
<1>7. /\ <<>> \in Rests
      /\ \A g \in Goals : <<g>> \in Rests /\ <<"closeServices", g>> \in Rests
  BY DEF Rests
<1>8. "joinMedia" \notin Goals /\ "closeServices" \notin Goals /\ "joinWatch" \notin Goals
      /\ Goals \cup {"joinMedia", "closeServices", "joinWatch"} \subseteq StepNames
  BY DEF Goals, StepNames
<1> HIDE DEF FirstOf, LastOf, ToClose
<1>9. CASE \E g \in Goals : q = <<g>>
  BY <1>2, <1>7, <1>8, <1>9
<1>10. CASE \E g \in Goals : q = <<"joinMedia", g>>
  BY <1>3, <1>7, <1>8, <1>10
<1>11. CASE \E g \in Goals : q = <<"closeServices", g>>
  BY <1>4, <1>7, <1>8, <1>11
<1>12. CASE \E g \in Goals : q = <<"joinMedia", "closeServices", g>>
  BY <1>5, <1>7, <1>8, <1>12
<1> QED BY <1>1, <1>6, <1>9, <1>10, <1>11, <1>12

\* How the handlers begin.
LEMMA RestBegins ==
  /\ FirstOf(<<>>) = "none" /\ LastOf(<<>>) = "none" /\ <<>> \in Rests
  /\ <<"joinWatch">> \in Rests
  /\ FirstOf(<<"joinWatch">>) = "joinWatch" /\ LastOf(<<"joinWatch">>) = "joinWatch"
  /\ \A g \in Goals :
       /\ \A q \in {<<"joinMedia", g>>, <<"joinMedia", "closeServices", g>>} :
            q # <<>> /\ q \in Rests /\ FirstOf(q) = "joinMedia" /\ LastOf(q) = g
       /\ ToClose(<<"joinMedia", "closeServices", g>>)
<1> USE DEF FirstOf, LastOf, ToClose
<1>1. /\ FirstOf(<<>>) = "none" /\ LastOf(<<>>) = "none"
      /\ FirstOf(<<"joinWatch">>) = "joinWatch" /\ LastOf(<<"joinWatch">>) = "joinWatch"
  OBVIOUS
<1>2. ASSUME NEW g \in Goals, NEW q, q = <<"joinMedia", g>>
      PROVE  q # <<>> /\ q \in Rests /\ FirstOf(q) = "joinMedia" /\ LastOf(q) = g
  <2>1. q \in Rests
    BY <1>2 DEF Rests
  <2> QED BY <1>2, <2>1
<1>3. ASSUME NEW g \in Goals, NEW q, q = <<"joinMedia", "closeServices", g>>
      PROVE  q # <<>> /\ q \in Rests /\ FirstOf(q) = "joinMedia" /\ LastOf(q) = g /\ ToClose(q)
  <2>1. q \in Rests
    BY <1>3 DEF Rests
  <2>2. FirstOf(q) = "joinMedia" /\ LastOf(q) = g /\ q # <<>>
    BY <1>3
  <2>3. 2 \in 1 .. Len(q) /\ q[2] = "closeServices"
    BY <1>3
  <2> QED BY <2>1, <2>2, <2>3
<1>4. <<>> \in Rests /\ <<"joinWatch">> \in Rests
  BY DEF Rests
<1> HIDE DEF FirstOf, LastOf, ToClose
<1> QED BY <1>1, <1>2, <1>3, <1>4

\* Types are kept.
LEMMA MacTypes ==
  ASSUME TypeOK, [Next]_vars
  PROVE  (WaitFlags /\ MediaFlags /\ LoopPhases /\ MediaPhases /\ Generations)'
<1>1. CASE World
  <2> USE <1>1 DEF TypeOK, World, UserAsks, SystemSays, UserQuits, Acknowledge, Stays, Requests,
          waitVars, askVars, sleepVars, netVars, slotVars, choiceVars, pubVars, taskVars,
          mediaVars
  <2>1. WaitFlags'
    BY Zenon DEF WaitFlags
  <2>2. MediaFlags'
    BY Zenon DEF MediaFlags
  <2>3. LoopPhases'
    BY SMT DEF LoopPhases, Modes, Requests
  <2>4. MediaPhases'
    BY SMT DEF MediaPhases, Phases, Sources, Live
  <2>5. Generations'
    BY DEF Generations
  <2> QED BY <2>1, <2>2, <2>3, <2>4, <2>5
<1>2. CASE Handler
  <2>1. WaitFlags'
    <3>1. CASE JoinMedia \/ JoinWatch
      BY Zenon, <3>1 DEF TypeOK, WaitFlags, JoinMedia, JoinWatch, askVars, sleepVars, netVars
    <3>2. CASE Arrive
      BY Zenon, <3>2 DEF TypeOK, WaitFlags, Arrive, Starts, Sleeps, Stops, Fails, Exits, Begins,
         askVars, sleepVars
    <3>3. CASE \E clean \in BOOLEAN : CloseServices(clean)
      BY Zenon, <3>3 DEF TypeOK, WaitFlags, CloseServices, askVars, sleepVars
    <3> QED BY <1>2, <3>1, <3>2, <3>3 DEF Handler
  <2> USE <1>2 DEF TypeOK, Handler, JoinMedia, JoinWatch, Joined, Arrive, Begins, Starts,
          Sleeps, Stops, Fails, Exits, CloseServices, ClearMedia, Vacate, Choice, NextStep,
          Modes, Phases, Live, TaskLive, waitVars, askVars, sleepVars, netVars, slotVars,
          choiceVars, pubVars, taskVars, mediaVars
  <2>2. MediaFlags'
    BY Zenon DEF MediaFlags
  <2>3. LoopPhases'
    BY SMT DEF LoopPhases, Modes, Requests
  <2>4. MediaPhases'
    BY SMT DEF MediaPhases, Phases, Sources, Live
  <2>5. Generations'
    BY DEF Generations
  <2> QED BY <2>1, <2>2, <2>3, <2>4, <2>5
<1>3. CASE OnRestart \/ OnOff
  <2> USE <1>3 DEF TypeOK, OnRestart, OnOff, Take, Leave, TeardownMedia, ClearMedia, Vacate,
          Choice, PublicationDropped, Starts, Begins, IntentKept, Stays, waitVars, askVars,
          sleepVars, netVars, slotVars, choiceVars, pubVars, taskVars, mediaVars
  <2>1. WaitFlags'
    BY Zenon DEF WaitFlags
  <2>2. MediaFlags'
    BY Zenon DEF MediaFlags
  <2>3. LoopPhases'
    BY SMT DEF LoopPhases, Modes, Requests
  <2>4. MediaPhases'
    BY SMT DEF MediaPhases, Phases, Sources, Live
  <2>5. Generations'
    BY DEF Generations
  <2> QED BY <2>1, <2>2, <2>3, <2>4, <2>5
<1>4. CASE OnSuspend \/ OnResume
  <2>1. WaitFlags'
    BY Zenon, <1>4 DEF TypeOK, WaitFlags, OnSuspend, OnResume, TakeSys, Leave, Sleeps, Begins,
       Stays, waitVars, sleepVars, netVars
  <2> USE <1>4 DEF TypeOK, OnSuspend, OnResume, TakeSys, Leave, TeardownMedia, ClearMedia,
          Vacate, Choice, PublicationDropped, Sleeps, Begins, Stays, waitVars, askVars,
          sleepVars, netVars, slotVars, choiceVars, pubVars, taskVars, mediaVars
  <2>2. MediaFlags'
    BY Zenon DEF MediaFlags
  <2>3. LoopPhases'
    BY SMT DEF LoopPhases, Modes, Requests
  <2>4. MediaPhases'
    BY SMT DEF MediaPhases, Phases, Sources, Live
  <2>5. Generations'
    BY DEF Generations
  <2> QED BY <2>1, <2>2, <2>3, <2>4, <2>5
<1>5. CASE Wake \/ OnShutdown
  <2> USE <1>5 DEF TypeOK, Wake, OnShutdown, TakeQuit, Leave, TeardownMedia, ClearMedia, Vacate,
          Choice, PublicationDropped, Starts, Stops, Exits, Begins, waitVars, askVars,
          sleepVars, netVars, slotVars, choiceVars, pubVars, taskVars, mediaVars
  <2>1. WaitFlags'
    BY Zenon DEF WaitFlags
  <2>2. MediaFlags'
    BY Zenon DEF MediaFlags
  <2>3. LoopPhases'
    BY SMT DEF LoopPhases, Modes, Requests
  <2>4. MediaPhases'
    BY SMT DEF MediaPhases, Phases, Sources, Live
  <2>5. Generations'
    BY DEF Generations
  <2> QED BY <2>1, <2>2, <2>3, <2>4, <2>5
<1>6. CASE Services
  <2> USE <1>6 DEF TypeOK, Services, StartSucceeds, StartFails, Fails, ServicesEnd, Leave,
          TeardownMedia, ClearMedia, Vacate, Choice, PublicationDropped, ListenerStops,
          waitVars, askVars, sleepVars, netVars, slotVars, choiceVars, pubVars, taskVars,
          mediaVars
  <2>1. WaitFlags'
    BY Zenon DEF WaitFlags
  <2>2. MediaFlags'
    BY Zenon DEF MediaFlags
  <2>3. LoopPhases'
    BY SMT DEF LoopPhases, Modes, Requests
  <2>4. MediaPhases'
    BY SMT DEF MediaPhases, Phases, Sources, Live
  <2>5. Generations'
    BY DEF Generations
  <2> QED BY <2>1, <2>2, <2>3, <2>4, <2>5
<1>7. CASE Command
  <2> USE <1>7 DEF TypeOK, Command, WatchScreen, StopWatching, StartSharing, StopSharing,
          SelectSource, SetSystemAudio, Idles, Vacate, Choice, PublicationDropped, waitVars,
          askVars, sleepVars, netVars, slotVars, choiceVars, pubVars, taskVars, mediaVars
  <2>1. WaitFlags'
    BY DEF WaitFlags
  <2>2. MediaFlags'
    BY Zenon DEF MediaFlags
  <2>3. LoopPhases'
    BY SMT DEF LoopPhases, Modes, Requests
  <2>4. MediaPhases'
    BY SMT DEF MediaPhases, Phases, Sources, Live
  <2>5. Generations'
    BY DEF Generations
  <2> QED BY <2>1, <2>2, <2>3, <2>4, <2>5
<1>8. CASE Publication
  <2> USE <1>8 DEF TypeOK, Publication, Announced, AudioFails, PublicationEnds, Polled, Idles,
          ClearMedia, Vacate, Choice, waitVars, askVars, sleepVars, netVars, slotVars,
          choiceVars, pubVars, taskVars, mediaVars
  <2>1. WaitFlags'
    BY DEF WaitFlags
  <2>2. MediaFlags'
    BY Zenon DEF MediaFlags
  <2>3. LoopPhases'
    BY SMT DEF LoopPhases, Modes, Requests
  <2>4. MediaPhases'
    BY SMT DEF MediaPhases, Phases, Sources, Live
  <2>5. Generations'
    BY DEF Generations
  <2> QED BY <2>1, <2>2, <2>3, <2>4, <2>5
<1>9. CASE Playback
  <2> USE <1>9 DEF TypeOK, Playback, Shows, Started, Sounds, Breaks, Panics, Ended, Cancelled,
          OnPlayback, TaskMoves, Quietly, Report, Idles, waitVars, askVars, sleepVars, netVars,
          slotVars, choiceVars, pubVars, taskVars, mediaVars
  <2>1. WaitFlags'
    BY DEF WaitFlags
  <2>2. MediaFlags'
    BY Zenon DEF MediaFlags
  <2>3. LoopPhases'
    BY SMT DEF LoopPhases, Modes, Requests
  <2>4. MediaPhases'
    BY SMT DEF MediaPhases, Phases, Sources, Live
  <2>5. Generations'
    BY DEF Generations
  <2> QED BY <2>1, <2>2, <2>3, <2>4, <2>5
<1>10. CASE UNCHANGED vars
  <2> USE <1>10 DEF TypeOK, vars, waitVars, askVars, sleepVars, netVars, slotVars, choiceVars,
          pubVars, taskVars, mediaVars
  <2>1. WaitFlags'
    BY Zenon DEF WaitFlags
  <2>2. MediaFlags'
    BY Zenon DEF MediaFlags
  <2>3. LoopPhases'
    BY SMT DEF LoopPhases, Modes, Requests
  <2>4. MediaPhases'
    BY SMT DEF MediaPhases, Phases, Sources, Live
  <2>5. Generations'
    BY DEF Generations
  <2> QED BY <2>1, <2>2, <2>3, <2>4, <2>5
<1> QED BY <1>1, <1>2, <1>3, <1>4, <1>5, <1>6, <1>7, <1>8, <1>9, <1>10 DEF Next, Control

-----------------------------------------------------------------------------
(* macOS: where the handler is, in words of its first and its last step.   *)

\* The loop selects when nothing is left of a handler.
LEMMA LoopIsAt ==
  ASSUME todo \in Rests
  PROVE  /\ todo = <<>> <=> Now = "none"
         /\ todo = <<>> => Goal = "none"
         /\ \A s \in StepNames : AtStep(s) <=> Now = s
<1>1. todo # <<>> => Head(todo) \in StepNames /\ Now = Head(todo)
  BY RestTaken DEF Now, FirstOf
<1>2. "none" \notin StepNames
  BY DEF StepNames
<1> QED BY <1>1, <1>2, RestBegins DEF Now, Goal, FirstOf, AtStep

\* A handler that goes on takes the step it is at.
LEMMA HandlerGoesOn ==
  ASSUME todo \in Rests, Handler
  PROVE  /\ todo # <<>> /\ todo' \in Rests
         /\ Now \in Goals \cup {"joinWatch"} => Now' = "none" /\ Goal' = "none"
         /\ Now \in Goals => Goal = Now /\ ~ToClose(todo) /\ Arrive
         /\ Now = "joinWatch" => Goal = "joinWatch" /\ JoinWatch
         /\ Now = "joinMedia" => /\ Now' \in Goals \cup {"closeServices"} /\ JoinMedia
                                 /\ Goal' = Goal /\ Goal \in Goals /\ (ToClose(todo)' <=> ToClose(todo))
         /\ Now = "closeServices" => /\ Now' = Goal /\ (\E clean \in BOOLEAN : CloseServices(clean))
                                     /\ Goal' = Goal /\ Goal \in Goals /\ ~ToClose(todo)'
         /\ Now \in Goals \cup {"joinWatch", "joinMedia", "closeServices"}
<1>1. Arrive => AtStep("toStart") \/ AtStep("toSleep") \/ AtStep("toStopped") \/ AtStep("toFailed")
                \/ AtStep("toExit")
  BY DEF Arrive
<1>2. /\ JoinMedia => AtStep("joinMedia") /\ NextStep
      /\ JoinWatch => AtStep("joinWatch") /\ NextStep
      /\ Arrive => Now \in Goals /\ todo # <<>> /\ NextStep
      /\ \A clean \in BOOLEAN : CloseServices(clean) => AtStep("closeServices") /\ NextStep
  BY <1>1 DEF JoinMedia, JoinWatch, Arrive, CloseServices, AtStep, Now, FirstOf, Goals
<1>3. todo # <<>> /\ todo' = Tail(todo)
  BY <1>2 DEF Handler, AtStep, NextStep
<1>4. Now = Head(todo) /\ Now' = FirstOf(Tail(todo)) /\ Goal = LastOf(todo) /\ Goal' = LastOf(Tail(todo))
      /\ (ToClose(todo)' <=> ToClose(Tail(todo)))
  BY <1>3 DEF Now, Goal, FirstOf
<1>5. /\ JoinMedia => Now = "joinMedia"
      /\ JoinWatch => Now = "joinWatch"
      /\ Arrive => Now \in Goals
      /\ \A clean \in BOOLEAN : CloseServices(clean) => Now = "closeServices"
  BY <1>2, <1>4 DEF AtStep
<1>6. "joinMedia" \notin Goals /\ "closeServices" \notin Goals /\ "joinWatch" \notin Goals
  BY DEF Goals
<1>7. \/ JoinMedia \/ JoinWatch \/ Arrive \/ \E clean \in BOOLEAN : CloseServices(clean)
  BY DEF Handler
<1>8. /\ Now \in Goals \cup {"joinWatch"} => Tail(todo) = <<>>
      /\ Tail(todo) \in Rests
      /\ Now \in Goals => Goal = Now /\ ~ToClose(todo)
      /\ Now = "joinWatch" => Goal = "joinWatch"
      /\ Now = "joinMedia" => /\ Now' \in Goals \cup {"closeServices"}
                              /\ Goal' = Goal /\ Goal \in Goals /\ (ToClose(todo)' <=> ToClose(todo))
      /\ Now = "closeServices" => Now' = Goal /\ Goal' = Goal /\ Goal \in Goals /\ ~ToClose(todo)'
  BY <1>3, <1>4, RestTaken
<1> QED BY <1>3, <1>4, <1>5, <1>6, <1>7, <1>8, RestBegins

\* A handler that begins leads away from the services.
Leaves(g) ==
  /\ todo = <<>> /\ todo' \in Rests /\ Now' = "joinMedia" /\ Goal' = g
  /\ mode \in {"starting", "serving"} /\ (mode = "serving" => ToClose(todo)')
  /\ TeardownMedia /\ UNCHANGED <<mode, sleepVars, services, session, moved>>

\* Which request and which event leads where.
LEMMA Departures ==
  /\ ServicesEnd => Leaves("toFailed")
  /\ OnRestart => Leaves("toStart") \/ (UNCHANGED <<todo, services, mediaVars>> /\ mode # "serving")
  /\ OnOff => Leaves("toStopped") \/ UNCHANGED <<todo, services, mediaVars>>
  /\ OnSuspend => Leaves("toSleep") \/ UNCHANGED <<todo, services, mediaVars>>
  /\ OnShutdown => Leaves("toExit") \/ UNCHANGED <<todo, services, mediaVars>>
<1>1. ASSUME NEW g \in Goals, todo = <<>>, mode \in {"starting", "serving"}
      PROVE  /\ Leave(<<"joinMedia", "closeServices", g>>) => Leaves(g)
             /\ Leave(<<"joinMedia", g>>) /\ mode = "starting" => Leaves(g)
  <2>1. CASE Leave(<<"joinMedia", "closeServices", g>>)
    <3>1. todo' = <<"joinMedia", "closeServices", g>>
      BY <2>1 DEF Leave
    <3>2. todo' \in Rests /\ Now' = "joinMedia" /\ Goal' = g /\ ToClose(todo)'
      BY <3>1, RestBegins DEF Now, Goal
    <3> QED BY <1>1, <2>1, <3>2 DEF Leave, Leaves
  <2>2. CASE Leave(<<"joinMedia", g>>) /\ mode = "starting"
    <3>1. todo' = <<"joinMedia", g>>
      BY <2>2 DEF Leave
    <3>2. todo' \in Rests /\ Now' = "joinMedia" /\ Goal' = g
      BY <3>1, RestBegins DEF Now, Goal
    <3> QED BY <1>1, <2>2, <3>2 DEF Leave, Leaves
  <2> QED BY <2>1, <2>2 DEF Leaves
<1>2. {"toStart", "toSleep", "toStopped", "toFailed", "toExit"} \subseteq Goals
  BY DEF Goals
<1>3. ServicesEnd => Leaves("toFailed")
  BY <1>1, <1>2 DEF ServicesEnd, Waiting
<1>4. OnRestart => Leaves("toStart") \/ (UNCHANGED <<todo, services, mediaVars>> /\ mode # "serving")
  BY <1>1, <1>2 DEF OnRestart, Take, waitVars, netVars
<1>5. OnOff => Leaves("toStopped") \/ UNCHANGED <<todo, services, mediaVars>>
  BY <1>1, <1>2 DEF OnOff, Take, Stays, waitVars, netVars
<1>6. OnSuspend => Leaves("toSleep") \/ UNCHANGED <<todo, services, mediaVars>>
  BY <1>1, <1>2 DEF OnSuspend, TakeSys, Stays, waitVars, netVars
<1>7. OnShutdown => Leaves("toExit") \/ UNCHANGED <<todo, services, mediaVars>>
  BY <1>1, <1>2 DEF OnShutdown, TakeQuit
<1> QED BY <1>3, <1>4, <1>5, <1>6, <1>7

\* Who begins a handler: a stop of the watch, or a departure.
LEMMA LoopMoves ==
  ASSUME todo \in Rests, [Next]_vars
  PROVE  /\ todo' \in Rests
         /\ \/ UNCHANGED todo
            \/ Handler
            \/ StopWatching /\ Now' = "joinWatch" /\ Goal' = "joinWatch"
            \/ \E g \in Goals : Leaves(g)
<1>1. CASE UNCHANGED todo
  BY <1>1
<1>2. CASE Handler
  BY <1>2, HandlerGoesOn
<1>3. CASE StopWatching
  <2>1. todo' = <<"joinWatch">>
    BY <1>3 DEF StopWatching
  <2> QED BY <1>3, <2>1, RestBegins DEF Now, Goal
<1>4. CASE \E g \in Goals : Leaves(g)
  BY <1>4 DEF Leaves
<1>5. CASE World
  BY <1>1, <1>5 DEF World, UserAsks, SystemSays, UserQuits, Acknowledge, Stays, waitVars
<1>6. CASE Control
  BY <1>1, <1>4, <1>6, Departures DEF Control, OnResume, Wake, Stays, waitVars, Goals
<1>7. CASE Services
  BY <1>1, <1>4, <1>7, Departures DEF Services, StartSucceeds, StartFails, ListenerStops,
     waitVars, Goals
<1>8. CASE Command
  BY <1>1, <1>3, <1>8 DEF Command, WatchScreen, StartSharing, StopSharing, SelectSource,
     SetSystemAudio, Idles, waitVars
<1>9. CASE Publication
  BY <1>1, <1>9 DEF Publication, Announced, AudioFails, PublicationEnds, Polled, Idles, waitVars
<1>10. CASE Playback
  BY <1>1, <1>10 DEF Playback, Shows, Started, Sounds, Breaks, Panics, Ended, Cancelled,
     OnPlayback, TaskMoves, Idles, waitVars
<1>11. CASE UNCHANGED vars
  BY <1>1, <1>11 DEF vars, waitVars
<1> QED BY <1>2, <1>5, <1>6, <1>7, <1>8, <1>9, <1>10, <1>11 DEF Next

\* What is left of a handler is a sequence of steps.
LEMMA RestsAreSteps == Rests \subseteq Seq(StepNames)
<1>1. Goals \cup {"joinMedia", "closeServices", "joinWatch"} \subseteq StepNames
  BY DEF Goals, StepNames
<1>2. ASSUME NEW a \in StepNames, NEW b \in StepNames, NEW c \in StepNames
      PROVE  /\ <<a>> \in Seq(StepNames) /\ <<a, b>> \in Seq(StepNames)
             /\ <<a, b, c>> \in Seq(StepNames) /\ <<>> \in Seq(StepNames)
  OBVIOUS
<1> QED BY <1>1, <1>2 DEF Rests

\* Who asks the loop and who reads the three queues.
LEMMA QueuesMove ==
  ASSUME [Next]_vars
  PROVE  /\ \/ UNCHANGED <<lan, asked, ignored>> \/ OnRestart \/ OnOff
            \/ \E c \in Requests : UserAsks(c)
         /\ \/ UNCHANGED sys \/ OnSuspend \/ OnResume
            \/ \E e \in {"Suspend", "Resume"} : SystemSays(e)
         /\ \/ UNCHANGED events \/ OnPlayback
            \/ \E t \in {"Started", "Audio", "Ended"} : Report(t) /\ (t = "Ended" => task' = "done")
<1>1. CASE World
  BY Zenon, <1>1 DEF World, UserAsks, SystemSays, UserQuits, Acknowledge, Stays, mediaVars,
     taskVars
<1>2. CASE Handler
  BY Zenon, <1>2 DEF Handler, JoinMedia, JoinWatch, Arrive, CloseServices, askVars, mediaVars,
     taskVars
<1>3. CASE OnRestart \/ OnOff
  BY Zenon, <1>3 DEF OnRestart, OnOff, Take, Leave, TeardownMedia, Stays, mediaVars, taskVars
<1>4. CASE OnSuspend \/ OnResume
  BY Zenon, <1>4 DEF OnSuspend, OnResume, TakeSys, Leave, TeardownMedia, Stays, mediaVars,
     taskVars
<1>5. CASE Wake \/ OnShutdown
  BY Zenon, <1>5 DEF Wake, OnShutdown, TakeQuit, Leave, TeardownMedia, askVars, mediaVars,
     taskVars
<1>6. CASE Services
  BY Zenon, <1>6 DEF Services, StartSucceeds, StartFails, ServicesEnd, ListenerStops, Leave,
     TeardownMedia, askVars, mediaVars, taskVars
<1>7. CASE Command
  BY Zenon, <1>7 DEF Command, WatchScreen, StopWatching, StartSharing, StopSharing,
     SelectSource, SetSystemAudio, Idles, askVars, taskVars
<1>8. CASE Publication
  BY Zenon, <1>8 DEF Publication, Announced, AudioFails, PublicationEnds, Polled, Idles,
     askVars, taskVars
<1>9. CASE Playback
  BY Zenon, <1>9 DEF Playback, Shows, Started, Sounds, Breaks, Panics, Ended, Cancelled,
     OnPlayback, TaskMoves, Quietly, Idles, askVars
<1>10. CASE UNCHANGED vars
  BY <1>10 DEF vars, askVars, mediaVars, taskVars
<1> QED BY <1>1, <1>2, <1>3, <1>4, <1>5, <1>6, <1>7, <1>8, <1>9, <1>10 DEF Next, Control

\* The queues hold what they are for and no more than they have room for.
LEMMA MacQueues ==
  ASSUME MacAssumption, TypeOK, todo \in Rests, [Next]_vars
  PROVE  Queues'
<1>0. /\ lan \in Seq(Requests) /\ sys \in Seq({"Suspend", "Resume"}) /\ events \in Seq(Reports)
      /\ Len(events) <= EventCap /\ EventCap \in Nat /\ taskGen \in Nat
  BY DEF TypeOK, Queues, Generations, MacAssumption
<1>1. todo' \in Seq(StepNames)
  BY LoopMoves, RestsAreSteps
<1>2. lan' \in Seq(Requests)
  <2>1. CASE UNCHANGED lan
    BY <1>0, <2>1
  <2>2. CASE OnRestart \/ OnOff
    <3>1. lan # <<>> /\ lan' = Tail(lan)
      BY <2>2 DEF OnRestart, OnOff, Take
    <3> QED BY <1>0, <3>1, TailShifts
  <2>3. CASE \E c \in Requests : UserAsks(c)
    <3>1. PICK c \in Requests : lan' = Append(lan, c)
      BY <2>3 DEF UserAsks
    <3> QED BY <1>0, <3>1, AppendAdds
  <2> QED BY <2>1, <2>2, <2>3, QueuesMove
<1>3. sys' \in Seq({"Suspend", "Resume"})
  <2>1. CASE UNCHANGED sys
    BY <1>0, <2>1
  <2>2. CASE OnSuspend \/ OnResume
    <3>1. sys # <<>> /\ sys' = Tail(sys)
      BY <2>2 DEF OnSuspend, OnResume, TakeSys
    <3> QED BY <1>0, <3>1, TailShifts
  <2>3. CASE \E e \in {"Suspend", "Resume"} : SystemSays(e)
    <3>1. PICK e \in {"Suspend", "Resume"} : sys' = Append(sys, e)
      BY <2>3 DEF SystemSays
    <3> QED BY <1>0, <3>1, AppendAdds
  <2> QED BY <2>1, <2>2, <2>3, QueuesMove
<1>4. events' \in Seq(Reports) /\ Len(events') <= EventCap
  <2>1. CASE UNCHANGED events
    BY <1>0, <2>1
  <2>2. CASE OnPlayback
    <3>1. events # <<>> /\ events' = Tail(events)
      BY <2>2 DEF OnPlayback
    <3> QED BY <1>0, <3>1, TailShifts
  <2>3. CASE \E t \in {"Started", "Audio", "Ended"} : Report(t) /\ (t = "Ended" => task' = "done")
    <3>1. PICK t \in {"Started", "Audio", "Ended"} : Report(t)
      BY <2>3
    <3> DEFINE e == [type |-> t, gen |-> taskGen]
    <3>2. Len(events) < EventCap /\ events' = Append(events, e) /\ e \in Reports
      BY <1>0, <3>1 DEF Report, Reports
    <3> HIDE DEF e
    <3> QED BY <1>0, <3>2, AppendAdds
  <2> QED BY <2>1, <2>2, <2>3, QueuesMove
<1> QED BY <1>1, <1>2, <1>3, <1>4 DEF Queues

\* The runtime starts within its invariant.
LEMMA MacInit ==
  ASSUME MacAssumption
  PROVE  Init => MacInvariant
<1> SUFFICES ASSUME Init PROVE MacInvariant
  OBVIOUS
<1>1. WaitFlags /\ MediaFlags
  BY DEF Init, WaitFlags, MediaFlags
<1>2. LoopPhases /\ MediaPhases
  BY DEF Init, LoopPhases, MediaPhases, Modes, Phases, Sources
<1>3. Generations /\ Queues
  BY DEF Init, Generations, Queues, MacAssumption
<1>4. todo \in Rests /\ Now = "none" /\ Goal = "none" /\ lan = <<>>
  BY RestBegins DEF Init, Now, Goal
<1>5. NetworkIsHeld /\ IntentIsFollowed
  BY <1>4 DEF Init, NetworkIsHeld, IntentIsFollowed, HeadsUp, HeadsDown, Goals
<1>6. MediaIsHeld
  BY <1>4 DEF Init, MediaIsHeld, AtShare, AtWatch, TaskLive, Live
<1>7. ReportsAreOfTasks
  BY DEF Init, ReportsAreOfTasks
<1> QED BY <1>1, <1>2, <1>3, <1>4, <1>5, <1>6, <1>7 DEF MacInvariant, TypeOK

-----------------------------------------------------------------------------
(* macOS: the owners of the media.                                         *)

\* Outside of running services, and by what moves the network alone, the media
\* stays as it is.
LEMMA MediaUntouched ==
  ASSUME MediaIsHeld, UNCHANGED <<todo, mediaVars>>, UNCHANGED mode \/ mode # "serving"
  PROVE  MediaIsHeld'
BY DEF MediaIsHeld, mediaVars, slotVars, choiceVars, pubVars, taskVars, AtShare, AtWatch,
   TaskLive, Now

\* A departure drops the publication and cancels the task, which it will join.
LEMMA DepartureKeepsMedia ==
  ASSUME TypeOK, MediaIsHeld, NEW g \in Goals, Leaves(g)
  PROVE  MediaIsHeld'
<1>1. Now = "none"
  BY DEF Leaves, Now, FirstOf
<1>2. /\ Now' = "joinMedia" /\ media' = "Idle" /\ owner' = "none" /\ stage' = "idle"
      /\ UNCHANGED <<source, handle, task, taskGen, frame>>
      /\ IF owner = "Share" THEN ~sysAudio' /\ shareAudio' = "Off" ELSE UNCHANGED <<sysAudio, shareAudio>>
  BY DEF Leaves, TeardownMedia, ClearMedia, PublicationDropped, Vacate, Choice
<1> QED BY <1>1, <1>2 DEF MediaIsHeld, AtShare, AtWatch, TaskLive

\* A handler joins the task of a phase that is over already.
LEMMA HandlerKeepsMedia ==
  ASSUME TypeOK, todo \in Rests, MediaIsHeld, NetworkIsHeld, Handler
  PROVE  MediaIsHeld'
<1> USE DEF MediaIsHeld, AtShare, AtWatch, TaskLive, slotVars, choiceVars, pubVars, taskVars,
        mediaVars
<1>0. "joinMedia" \notin Goals /\ "closeServices" \notin Goals /\ "joinWatch" \notin Goals
      /\ "none" \notin Goals
  BY DEF Goals
<1>1. CASE Now = "joinMedia"
  <2>1. JoinMedia /\ Now' \in Goals \cup {"closeServices"}
    BY <1>1, HandlerGoesOn
  <2>2. media = "Idle" /\ owner = "none" /\ ~AtShare /\ ~AtWatch
    BY <1>1
  <2>3. /\ ~handle' /\ task' = "none" /\ frame' = 0
        /\ media' = "Idle" /\ owner' = "none"
        /\ UNCHANGED <<source, sysAudio, shareAudio, stage>>
    BY <2>1, <2>2 DEF JoinMedia, Joined, WatchExited, ClearMedia, Vacate
  <2> QED BY <1>0, <2>1, <2>2, <2>3 DEF Live
<1>2. CASE Now = "closeServices"
  <2>1. (\E clean \in BOOLEAN : CloseServices(clean)) /\ Now' \in Goals
    BY <1>2, HandlerGoesOn
  <2> QED BY <1>0, <1>2, <2>1 DEF CloseServices
<1>3. CASE Now \in Goals
  <2>1. Arrive /\ Now' = "none"
    BY <1>3, HandlerGoesOn
  <2> QED BY <1>0, <1>3, <2>1 DEF Arrive
<1>4. CASE Now = "joinWatch"
  <2>1. JoinWatch /\ Now' = "none" /\ mode = "serving"
    BY <1>4, HandlerGoesOn DEF NetworkIsHeld
  <2>2. media = "Stopping" /\ owner = "Watch"
    BY <1>4
  <2>3. /\ ~handle' /\ task' = "none" /\ frame' = 0
        /\ (media' = "Failed" /\ owner' = "Watch") \/ (media' = "Idle" /\ owner' = "none")
        /\ UNCHANGED <<mode, source, sysAudio, shareAudio, stage>>
    BY <2>1, <2>2 DEF JoinWatch, Joined, WatchExited, Vacate
  <2> QED BY <2>1, <2>2, <2>3 DEF Live
<1> QED BY <1>1, <1>2, <1>3, <1>4, HandlerGoesOn

\* A command takes a free slot or gives up its own.
LEMMA CommandKeepsMedia ==
  ASSUME TypeOK, todo \in Rests, MediaIsHeld, Command
  PROVE  MediaIsHeld'
<1>0. Waiting("serving") => Now = "none" /\ mode = "serving"
  BY LoopIsAt DEF Waiting
<1>1. UNCHANGED todo => UNCHANGED Now
  BY DEF Now
<1> USE DEF MediaIsHeld, AtShare, AtWatch, TaskLive, slotVars, choiceVars, pubVars, taskVars,
        Idles, waitVars
<1>2. CASE WatchScreen
  BY <1>0, <1>1, <1>2 DEF WatchScreen, Access
<1>3. CASE StopWatching
  <2>1. Now' = "joinWatch"
    BY <1>3, RestBegins DEF StopWatching, Now
  <2> QED BY <1>0, <1>3, <2>1 DEF StopWatching
<1>4. CASE StartSharing
  BY <1>0, <1>1, <1>4 DEF StartSharing, Access, Choice
<1>5. CASE StopSharing
  BY <1>0, <1>1, <1>5 DEF StopSharing, Vacate, Choice, PublicationDropped
<1>6. CASE \E s \in Sources \ {"none"} : SelectSource(s)
  BY <1>0, <1>1, <1>6 DEF SelectSource, Choice
<1>7. CASE \E on \in BOOLEAN : SetSystemAudio(on)
  BY <1>0, <1>1, <1>7 DEF SetSystemAudio, Choice
<1> QED BY <1>2, <1>3, <1>4, <1>5, <1>6, <1>7 DEF Command

\* The publication ends with its phase and shows audio only while it runs.
LEMMA PublicationKeepsMedia ==
  ASSUME TypeOK, todo \in Rests, MediaIsHeld, Publication
  PROVE  MediaIsHeld'
<1>0. Waiting("serving") => Now = "none" /\ mode = "serving"
  BY LoopIsAt DEF Waiting
<1>1. UNCHANGED todo => UNCHANGED Now
  BY DEF Now
<1> USE DEF MediaIsHeld, AtShare, AtWatch, TaskLive, slotVars, choiceVars, pubVars, taskVars,
        Idles, waitVars, Polled, CurrentShare
<1>2. CASE \E sound \in {"Off", "Included", "Failed"} : Announced(sound)
  BY <1>0, <1>1, <1>2 DEF Announced
<1>3. CASE AudioFails
  BY <1>0, <1>1, <1>3 DEF AudioFails
<1>4. CASE \E r \in {"ok", "failed", "gone"} : PublicationEnds(r)
  <2>1. PICK r \in {"ok", "failed", "gone"} : PublicationEnds(r)
    BY <1>4
  <2>2. Now = "none" /\ mode = "serving" /\ UNCHANGED <<Now, mode, taskVars>> /\ stage # "idle" /\ stage' = "idle"
    BY <1>0, <1>1, <2>1 DEF PublicationEnds
  <2>3. AtShare /\ CurrentShare /\ owner = "Share" /\ ~handle /\ frame = 0 /\ ~TaskLive
    BY <2>2
  <2>4. CASE r = "ok"
    <3>1. media' = "Idle" /\ owner' = "none" /\ ~sysAudio' /\ shareAudio' = "Off"
      BY <2>1, <2>3, <2>4 DEF PublicationEnds, ClearMedia, Vacate, Choice
    <3> QED BY <2>2, <2>3, <3>1
  <2>5. CASE r # "ok"
    <3>1. /\ media' = "Failed" /\ owner' = "Share" /\ shareAudio' = "Off"
          /\ sysAudio' => source' = "mainDisplay"
      BY <2>1, <2>3, <2>5 DEF PublicationEnds, Choice
    <3> QED BY <2>2, <2>3, <3>1
  <2> QED BY <2>4, <2>5
<1> QED BY <1>2, <1>3, <1>4 DEF Publication

\* The task shows frames of its own generation, and a report of its end finds
\* it ended.
LEMMA PlaybackKeepsMedia ==
  ASSUME TypeOK, todo \in Rests, MediaIsHeld, ReportsAreOfTasks, Playback
  PROVE  MediaIsHeld'
<1>0. Waiting("serving") => Now = "none" /\ mode = "serving"
  BY LoopIsAt DEF Waiting
<1>1. UNCHANGED todo => UNCHANGED Now
  BY DEF Now
<1>2. CASE OnPlayback
  <2>1. Head(events).type = "Ended" /\ CurrentWatch(Head(events)) => ~(TaskLive /\ taskGen = gen)
    <3>1. events \in Seq(Reports) /\ events # <<>>
      BY <1>2 DEF OnPlayback, TypeOK, Queues
    <3>2. Head(events) = events[1] /\ 1 \in 1 .. Len(events)
      BY <3>1, TailShifts
    <3> QED BY <3>2 DEF ReportsAreOfTasks, CurrentWatch
  <2> QED BY <1>0, <1>1, <1>2, <2>1 DEF OnPlayback, CurrentWatch, MediaIsHeld, AtShare, AtWatch,
             TaskLive, choiceVars, pubVars, Idles, waitVars
<1>3. ASSUME NEW s \in Live, NEW t \in Live \cup {"done", "panicked"}, TaskMoves(s, t),
             frame' \in {frame, taskGen}
      PROVE  MediaIsHeld'
  <2>1. TaskLive
    BY <1>3 DEF TaskMoves, TaskLive
  <2> QED BY <1>1, <1>3, <2>1 DEF TaskMoves, MediaIsHeld, AtShare, AtWatch, TaskLive, slotVars,
             choiceVars, pubVars, waitVars
<1>4. CASE Shows \/ Started \/ Sounds \/ Breaks \/ Panics \/ Ended \/ Cancelled
  BY <1>3, <1>4 DEF Shows, Started, Sounds, Breaks, Panics, Ended, Cancelled, Quietly, Report,
     Live
<1> QED BY <1>2, <1>4 DEF Playback

\* What the loop, the tasks and the user do, the owner is the one that is shown.
LEMMA MediaStaysHeld ==
  ASSUME TypeOK, todo \in Rests, MediaIsHeld, NetworkIsHeld, ReportsAreOfTasks, [Next]_vars
  PROVE  MediaIsHeld'
<1>1. CASE \E g \in Goals : Leaves(g)
  BY <1>1, DepartureKeepsMedia
<1>2. CASE World
  BY <1>2, MediaUntouched DEF World, UserAsks, SystemSays, UserQuits, Acknowledge, Stays,
     waitVars
<1>3. CASE Control
  <2>1. CASE OnRestart \/ OnOff \/ OnSuspend \/ OnShutdown
    <3>1. (\E g \in Goals : Leaves(g)) \/ UNCHANGED <<todo, mediaVars>>
      BY <2>1, Departures DEF Goals
    <3>2. UNCHANGED mode \/ mode # "serving"
      BY <2>1 DEF OnRestart, OnOff, OnSuspend, OnShutdown, Leave, Stays, waitVars
    <3> QED BY <1>1, <3>1, <3>2, MediaUntouched
  <2>2. CASE OnResume \/ Wake
    BY <2>2, MediaUntouched DEF OnResume, Wake, Waiting, Stays, waitVars
  <2> QED BY <1>3, <2>1, <2>2 DEF Control
<1>4. CASE Services
  <2>1. CASE ServicesEnd
    BY <1>1, <2>1, Departures DEF Goals
  <2>2. CASE StartSucceeds \/ StartFails \/ ListenerStops
    BY <2>2, MediaUntouched DEF StartSucceeds, StartFails, Fails, ListenerStops, Waiting,
       waitVars
  <2> QED BY <1>4, <2>1, <2>2 DEF Services
<1>5. CASE UNCHANGED vars
  BY <1>5, MediaUntouched DEF vars, waitVars
<1> QED BY <1>2, <1>3, <1>4, <1>5, HandlerKeepsMedia, CommandKeepsMedia, PublicationKeepsMedia,
           PlaybackKeepsMedia DEF Next

-----------------------------------------------------------------------------
(* macOS: the network, the reports and the requests.                       *)

\* Services that run are served, or about to be closed by the handler.
LEMMA NetworkStaysHeld ==
  ASSUME TypeOK, todo \in Rests, NetworkIsHeld, MediaIsHeld, [Next]_vars
  PROVE  NetworkIsHeld'
<1>0. /\ todo = <<>> <=> Now = "none"
      /\ todo = <<>> => Goal = "none"
      /\ "none" \notin Goals /\ "joinMedia" \notin Goals /\ "joinWatch" \notin Goals /\ "closeServices" \notin Goals
  BY LoopIsAt DEF Goals
<1>1. UNCHANGED todo => UNCHANGED <<Now, Goal>> /\ (ToClose(todo)' <=> ToClose(todo))
  BY DEF Now, Goal
<1>2. CASE UNCHANGED <<todo, mode, services, session, stopping>>
  BY <1>1, <1>2 DEF NetworkIsHeld
<1>3. ASSUME NEW g \in Goals, Leaves(g), stopping' => stopping \/ g = "toStopped"
      PROVE  NetworkIsHeld'
  BY <1>0, <1>3 DEF Leaves, NetworkIsHeld
<1>4. CASE World
  BY <1>2, <1>4 DEF World, UserAsks, SystemSays, UserQuits, Acknowledge, Stays, waitVars,
     netVars
<1>5. CASE Handler
  <2>1. CASE Now = "joinMedia"
    <3>1. /\ JoinMedia /\ Now' \in Goals \cup {"closeServices"} /\ Goal' = Goal
          /\ (ToClose(todo)' <=> ToClose(todo))
      BY <1>5, <2>1, HandlerGoesOn
    <3>2. UNCHANGED <<mode, services, stopping>> /\ (session' = "Listening" => session = "Listening")
      BY <3>1 DEF JoinMedia
    <3> QED BY <1>0, <3>1, <3>2 DEF NetworkIsHeld
  <2>2. CASE Now = "closeServices"
    <3>1. PICK clean \in BOOLEAN : CloseServices(clean)
      BY <1>5, <2>2, HandlerGoesOn
    <3>2. Now' = Goal /\ Goal' = Goal /\ Goal \in Goals
      BY <1>5, <2>2, HandlerGoesOn
    <3>3. UNCHANGED <<mode, stopping>> /\ ~services' /\ (session' = "Listening" => session = "Listening")
      BY <3>1 DEF CloseServices
    <3> QED BY <1>0, <3>2, <3>3 DEF NetworkIsHeld
  <2>3. CASE Now \in Goals
    <3>1. Arrive /\ Now' = "none" /\ Goal' = "none" /\ Goal = Now /\ ~ToClose(todo)
      BY <1>5, <2>3, HandlerGoesOn
    <3>2. ~services /\ UNCHANGED services /\ (stopping => Now = "toStopped")
      BY <2>3, <3>1 DEF NetworkIsHeld, Arrive
    <3>3. session' # "Listening" /\ (stopping' => stopping /\ Now # "toStopped")
      <4>1. AtStep("toStopped") <=> Now = "toStopped"
        BY LoopIsAt DEF StepNames
      <4>2. \A s \in StepNames : AtStep(s) => Now = s
        BY LoopIsAt
      <4> QED BY <3>1, <4>1, <4>2 DEF Arrive, Starts, Sleeps, Stops, Fails, Exits, StepNames
    <3> QED BY <1>0, <3>1, <3>2, <3>3 DEF NetworkIsHeld
  <2>4. CASE Now = "joinWatch"
    <3>1. JoinWatch /\ Now' = "none" /\ Goal' = "none" /\ Goal = "joinWatch"
      BY <1>5, <2>4, HandlerGoesOn
    <3> QED BY <1>0, <2>4, <3>1 DEF JoinWatch, netVars, NetworkIsHeld
  <2> QED BY <1>5, <2>1, <2>2, <2>3, <2>4, HandlerGoesOn
<1>6. CASE Control
  <2>1. CASE OnRestart
    <3>1. CASE Leaves("toStart")
      BY <1>3, <2>1, <3>1 DEF OnRestart, Starts, IntentKept, netVars, Goals
    <3>2. CASE UNCHANGED <<todo, services, mediaVars>> /\ mode # "serving"
      BY <1>0, <1>1, <2>1, <3>2 DEF OnRestart, Take, Starts, IntentKept, waitVars, netVars,
         NetworkIsHeld
    <3> QED BY <2>1, <3>1, <3>2, Departures
  <2>2. CASE OnOff
    <3>1. CASE Leaves("toStopped")
      BY <1>3, <3>1 DEF Goals
    <3>2. CASE UNCHANGED <<todo, services, mediaVars>>
      <4>1. Now = "none" /\ todo = <<>> /\ \A q \in Rests : q # <<>> => todo' # q
        BY <1>0, <2>2, <3>2 DEF OnOff, Take
      <4>2. ~Leave(<<"joinMedia", "closeServices", "toStopped">>) /\ ~Leave(<<"joinMedia", "toStopped">>)
        BY <3>2, <4>1 DEF Leave
      <4> QED BY <1>2, <2>2, <4>2 DEF OnOff, Stays, waitVars, netVars
    <3> QED BY <2>2, <3>1, <3>2, Departures
  <2>3. CASE OnSuspend
    <3>1. CASE Leaves("toSleep")
      BY <1>3, <2>3, <3>1 DEF OnSuspend, Sleeps, Stays, netVars, Goals
    <3>2. CASE UNCHANGED <<todo, services, mediaVars>>
      <4>1. Now = "none" /\ todo = <<>>
        BY <1>0, <2>3 DEF OnSuspend, TakeSys
      <4>2. ~Leave(<<"joinMedia", "closeServices", "toSleep">>) /\ ~Leave(<<"joinMedia", "toSleep">>)
        BY <3>2, <4>1 DEF Leave
      <4> QED BY <1>1, <1>2, <2>3, <3>2, <4>2 DEF OnSuspend, Stays, Sleeps, waitVars, netVars,
                 NetworkIsHeld
    <3> QED BY <2>3, <3>1, <3>2, Departures
  <2>4. CASE OnShutdown
    <3>1. CASE Leaves("toExit")
      BY <1>3, <2>4, <3>1 DEF OnShutdown, Exits, Goals
    <3>2. CASE UNCHANGED <<todo, services, mediaVars>>
      <4>1. Now = "none" /\ todo = <<>>
        BY <1>0, <2>4 DEF OnShutdown, TakeQuit
      <4>2. ~Leave(<<"joinMedia", "closeServices", "toExit">>) /\ ~Leave(<<"joinMedia", "toExit">>)
        BY <3>2, <4>1 DEF Leave
      <4> QED BY <1>1, <2>4, <3>2, <4>2 DEF OnShutdown, Exits, NetworkIsHeld
    <3> QED BY <2>4, <3>1, <3>2, Departures
  <2>5. CASE OnResume
    BY <1>2, <2>5 DEF OnResume, Stays, waitVars, netVars
  <2>6. CASE Wake
    BY <1>0, <1>1, <2>6 DEF Wake, Waiting, Starts, Stops, NetworkIsHeld
  <2> QED BY <1>6, <2>1, <2>2, <2>3, <2>4, <2>5, <2>6 DEF Control
<1>7. CASE Services
  <2>1. CASE ServicesEnd
    BY <1>3, <2>1, Departures DEF ServicesEnd, Goals
  <2>2. CASE StartSucceeds \/ StartFails \/ ListenerStops
    BY <1>0, <1>1, <2>2 DEF StartSucceeds, StartFails, Fails, ListenerStops, Waiting, waitVars,
       NetworkIsHeld
  <2> QED BY <1>7, <2>1, <2>2 DEF Services
<1>8. CASE Command
  <2>1. CASE StopWatching
    <3>1. Now' = "joinWatch" /\ Goal' = "joinWatch"
      BY <2>1, RestBegins DEF StopWatching, Now, Goal
    <3> QED BY <1>0, <2>1, <3>1 DEF StopWatching, Waiting, netVars, NetworkIsHeld
  <2> QED BY <1>2, <1>8, <2>1 DEF Command, WatchScreen, StartSharing, StopSharing, SelectSource,
             SetSystemAudio, Idles, waitVars, netVars
<1>9. CASE Publication
  BY <1>2, <1>9 DEF Publication, Announced, AudioFails, PublicationEnds, Polled, Idles,
     waitVars, netVars
<1>10. CASE Playback
  BY <1>2, <1>10 DEF Playback, Shows, Started, Sounds, Breaks, Panics, Ended, Cancelled,
     OnPlayback, TaskMoves, Idles, waitVars, netVars
<1>11. CASE UNCHANGED vars
  BY <1>2, <1>11 DEF vars, waitVars, netVars
<1> QED BY <1>4, <1>5, <1>6, <1>7, <1>8, <1>9, <1>10, <1>11 DEF Next

\* Generations only rise, and a task runs on or is of a new one.
LEMMA GenerationsMove ==
  ASSUME [Next]_vars
  PROVE  /\ gen' \in {gen, gen + 1}
         /\ \/ UNCHANGED taskGen /\ (TaskLive' => TaskLive)
            \/ taskGen' = gen + 1 /\ gen' = gen + 1
<1> USE DEF slotVars, choiceVars, pubVars, taskVars, mediaVars
<1>1. CASE UNCHANGED <<task, taskGen>> /\ gen' \in {gen, gen + 1}
  BY <1>1 DEF TaskLive
<1>2. CASE World
  BY <1>1, <1>2 DEF World, UserAsks, SystemSays, UserQuits, Acknowledge, Stays
<1>3. CASE Handler
  BY <1>1, <1>3 DEF Handler, JoinMedia, JoinWatch, Joined, Arrive, CloseServices, ClearMedia,
     TaskLive, Live
<1>4. CASE Control
  BY <1>1, <1>4 DEF Control, OnRestart, OnOff, OnSuspend, OnResume, Wake, OnShutdown, Stays,
     Leave, TeardownMedia, ClearMedia
<1>5. CASE Services
  BY <1>1, <1>5 DEF Services, StartSucceeds, StartFails, ServicesEnd, ListenerStops, Leave,
     TeardownMedia, ClearMedia
<1>6. CASE Command
  BY <1>1, <1>6 DEF Command, WatchScreen, StopWatching, StartSharing, StopSharing, SelectSource,
     SetSystemAudio
<1>7. CASE Publication
  BY <1>1, <1>7 DEF Publication, Announced, AudioFails, PublicationEnds, Polled, ClearMedia
<1>8. CASE OnPlayback
  BY <1>1, <1>8 DEF OnPlayback
<1>9. CASE \E s \in Live : \E t \in Live \cup {"done", "panicked"} : TaskMoves(s, t)
  BY <1>9 DEF TaskMoves, TaskLive
<1>10. CASE Playback
  BY <1>8, <1>9, <1>10 DEF Playback, Shows, Started, Sounds, Breaks, Panics, Ended, Cancelled,
     Live
<1>11. CASE UNCHANGED vars
  BY <1>1, <1>11 DEF vars
<1> QED BY <1>2, <1>3, <1>4, <1>5, <1>6, <1>7, <1>10, <1>11 DEF Next

\* A new task is of a later generation than every report in the queue.
LEMMA ReportsStayOfTasks ==
  ASSUME TypeOK, ReportsAreOfTasks, [Next]_vars
  PROVE  ReportsAreOfTasks'
<1>0. /\ gen \in Nat /\ taskGen \in Nat /\ events \in Seq(Reports)
      /\ \A i \in 1 .. Len(events) : events[i].gen \in Nat
  <2>1. gen \in Nat /\ taskGen \in Nat /\ events \in Seq(Reports)
    BY DEF TypeOK, Generations, Queues
  <2>2. \A e \in Reports : e.gen \in Nat
    BY DEF Reports
  <2> QED BY <2>1, <2>2, PlacesAreTyped
<1>1. /\ gen' \in {gen, gen + 1}
      /\ \/ UNCHANGED taskGen /\ (TaskLive' => TaskLive)
         \/ taskGen' = gen + 1 /\ gen' = gen + 1
  BY GenerationsMove
<1>2. /\ taskGen' <= gen'
      /\ \A i \in 1 .. Len(events) :
           events[i].gen <= gen' /\ (TaskLive' /\ events[i].type = "Ended" => events[i].gen # taskGen')
  BY <1>0, <1>1 DEF ReportsAreOfTasks
<1>3. \A i \in 1 .. Len(events') :
        /\ (events')[i].gen <= gen'
        /\ TaskLive' /\ (events')[i].type = "Ended" => (events')[i].gen # taskGen'
  <2>1. CASE UNCHANGED events
    BY <1>2, <2>1
  <2>2. CASE OnPlayback
    <3>1. events # <<>> /\ events' = Tail(events)
      BY <2>2 DEF OnPlayback
    <3>2. \A i \in 1 .. Len(events') : (events')[i] = events[i + 1] /\ i + 1 \in 1 .. Len(events)
      BY <1>0, <3>1, TailShifts
    <3> QED BY <1>2, <3>2
  <2>3. CASE \E t \in {"Started", "Audio", "Ended"} : Report(t) /\ (t = "Ended" => task' = "done")
    <3>1. PICK t \in {"Started", "Audio", "Ended"} : Report(t) /\ (t = "Ended" => task' = "done")
      BY <2>3
    <3> DEFINE e == [type |-> t, gen |-> taskGen]
    <3>2. events' = Append(events, e) /\ e \in Reports /\ e.gen = taskGen /\ e.type = t
      BY <1>0, <3>1 DEF Report, Reports
    <3>3. t = "Ended" => ~TaskLive'
      BY <3>1 DEF TaskLive, Live
    <3> HIDE DEF e
    <3>4. \A i \in 1 .. Len(events') :
            (events')[i] = e \/ (i \in 1 .. Len(events) /\ (events')[i] = events[i])
      BY <1>0, <3>2, AppendAdds
    <3>5. taskGen <= gen'
      BY <1>0, <1>1 DEF ReportsAreOfTasks
    <3> QED BY <1>2, <3>2, <3>3, <3>4, <3>5
  <2> QED BY <2>1, <2>2, <2>3, QueuesMove
<1> QED BY <1>2, <1>3 DEF ReportsAreOfTasks

\* Where the loop is heading changes only with a request.
LEMMA HeadingIsKept ==
  ASSUME todo \in Rests, NetworkIsHeld, [Next]_vars, ~OnRestart, ~OnOff
  PROVE  (HeadsUp' => HeadsUp) /\ (HeadsDown' => HeadsDown)
<1>0. /\ todo = <<>> <=> Now = "none"
      /\ todo = <<>> => Goal = "none"
      /\ "none" \notin Goals /\ "joinMedia" \notin Goals /\ "joinWatch" \notin Goals /\ "closeServices" \notin Goals
  BY LoopIsAt DEF Goals
<1>1. UNCHANGED todo => UNCHANGED <<Now, Goal>>
  BY DEF Now, Goal
<1>2. CASE UNCHANGED <<todo, mode, restart>>
  BY <1>1, <1>2 DEF HeadsUp, HeadsDown
<1>3. ASSUME NEW g \in Goals, Leaves(g), g # "toStopped" PROVE (HeadsUp' => HeadsUp) /\ (HeadsDown' => HeadsDown)
  BY <1>0, <1>3 DEF Leaves, HeadsUp, HeadsDown
<1>4. CASE World
  BY <1>2, <1>4 DEF World, UserAsks, SystemSays, UserQuits, Acknowledge, Stays, waitVars,
     sleepVars
<1>5. CASE Handler
  <2>1. CASE Now = "joinMedia"
    <3>1. JoinMedia /\ Now' \in Goals \cup {"closeServices"} /\ Goal' = Goal
      BY <1>5, <2>1, HandlerGoesOn
    <3> QED BY <1>0, <2>1, <3>1 DEF JoinMedia, sleepVars, HeadsUp, HeadsDown
  <2>2. CASE Now = "closeServices"
    <3>1. (\E clean \in BOOLEAN : CloseServices(clean)) /\ Now' = Goal /\ Goal' = Goal /\ Goal \in Goals
      BY <1>5, <2>2, HandlerGoesOn
    <3> QED BY <1>0, <2>2, <3>1 DEF CloseServices, sleepVars, HeadsUp, HeadsDown
  <2>3. CASE Now \in Goals
    <3>1. Arrive /\ Now' = "none" /\ Goal' = "none" /\ Goal = Now
      BY <1>5, <2>3, HandlerGoesOn
    <3>2. \A s \in StepNames : AtStep(s) => Now = s
      BY LoopIsAt
    <3> QED BY <1>0, <2>3, <3>1, <3>2 DEF Arrive, Starts, Sleeps, Stops, Fails, Exits,
               StepNames, sleepVars, HeadsUp, HeadsDown
  <2>4. CASE Now = "joinWatch"
    <3>1. JoinWatch /\ Now' = "none" /\ Goal' = "none" /\ mode = "serving"
      BY <1>5, <2>4, HandlerGoesOn DEF NetworkIsHeld
    <3> QED BY <1>0, <2>4, <3>1 DEF JoinWatch, sleepVars, HeadsUp, HeadsDown
  <2> QED BY <1>5, <2>1, <2>2, <2>3, <2>4, HandlerGoesOn
<1>6. CASE OnSuspend
  <2>1. CASE Leaves("toSleep")
    BY <1>3, <2>1 DEF Goals
  <2>2. CASE UNCHANGED <<todo, services, mediaVars>>
    <3>1. Now = "none" /\ todo = <<>>
      BY <1>0, <1>6 DEF OnSuspend, TakeSys
    <3>2. ~Leave(<<"joinMedia", "closeServices", "toSleep">>) /\ ~Leave(<<"joinMedia", "toSleep">>)
      BY <2>2, <3>1 DEF Leave
    <3> QED BY <1>0, <1>1, <1>2, <1>6, <2>2, <3>1, <3>2 DEF OnSuspend, Stays, Sleeps, waitVars,
               sleepVars, HeadsUp, HeadsDown
  <2> QED BY <1>6, <2>1, <2>2, Departures
<1>7. CASE OnShutdown
  <2>1. CASE Leaves("toExit")
    BY <1>3, <2>1 DEF Goals
  <2>2. CASE UNCHANGED <<todo, services, mediaVars>>
    <3>1. Now = "none" /\ todo = <<>>
      BY <1>0, <1>7 DEF OnShutdown, TakeQuit
    <3>2. ~Leave(<<"joinMedia", "closeServices", "toExit">>) /\ ~Leave(<<"joinMedia", "toExit">>)
      BY <2>2, <3>1 DEF Leave
    <3> QED BY <1>0, <1>1, <1>7, <2>2, <3>1, <3>2 DEF OnShutdown, Exits, HeadsUp, HeadsDown
  <2> QED BY <1>7, <2>1, <2>2, Departures
<1>8. CASE OnResume
  BY <1>2, <1>8 DEF OnResume, Stays, waitVars, sleepVars
<1>9. CASE Wake
  BY <1>0, <1>1, <1>9 DEF Wake, Waiting, Starts, Stops, HeadsUp, HeadsDown
<1>10. CASE Services
  <2>1. CASE ServicesEnd
    BY <1>3, <2>1, Departures DEF Goals
  <2>2. CASE StartSucceeds \/ StartFails \/ ListenerStops
    BY <1>0, <1>1, <2>2 DEF StartSucceeds, StartFails, Fails, ListenerStops, Waiting, waitVars,
       sleepVars, HeadsUp, HeadsDown
  <2> QED BY <1>10, <2>1, <2>2 DEF Services
<1>11. CASE Command
  <2>1. CASE StopWatching
    <3>1. Now' = "joinWatch" /\ Goal' = "joinWatch"
      BY <2>1, RestBegins DEF StopWatching, Now, Goal
    <3> QED BY <1>0, <2>1, <3>1 DEF StopWatching, Waiting, sleepVars, HeadsUp, HeadsDown
  <2> QED BY <1>2, <1>11, <2>1 DEF Command, WatchScreen, StartSharing, StopSharing,
             SelectSource, SetSystemAudio, Idles, waitVars, sleepVars
<1>12. CASE Publication
  BY <1>2, <1>12 DEF Publication, Announced, AudioFails, PublicationEnds, Polled, Idles,
     waitVars, sleepVars
<1>13. CASE Playback
  BY <1>2, <1>13 DEF Playback, Shows, Started, Sounds, Breaks, Panics, Ended, Cancelled,
     OnPlayback, TaskMoves, Idles, waitVars, sleepVars
<1>14. CASE UNCHANGED vars
  BY <1>2, <1>14 DEF vars, waitVars, sleepVars
<1> QED BY <1>4, <1>5, <1>6, <1>7, <1>8, <1>9, <1>10, <1>11, <1>12, <1>13, <1>14 DEF Next,
           Control

\* The last request of a queue stays the last.
LEMMA LastRequest ==
  ASSUME NEW q \in Seq(Requests)
  PROVE  /\ q # <<>> /\ Tail(q) = <<>> => LastOf(q) = Head(q)
         /\ q # <<>> /\ Tail(q) # <<>> => LastOf(Tail(q)) = LastOf(q)
         /\ \A c \in Requests : Append(q, c) # <<>> /\ LastOf(Append(q, c)) = c
<1>1. ASSUME q # <<>>
      PROVE  /\ Tail(q) = <<>> => LastOf(q) = Head(q)
             /\ Tail(q) # <<>> => LastOf(Tail(q)) = LastOf(q)
  <2>1. /\ Len(q) \in Nat /\ Len(Tail(q)) = Len(q) - 1 /\ Head(q) = q[1] /\ 1 \in 1 .. Len(q)
        /\ \A i \in 1 .. Len(Tail(q)) : Tail(q)[i] = q[i + 1]
        /\ Tail(q) \in Seq(Requests)
    BY <1>1, TailShifts
  <2> DEFINE r == Tail(q)
  <2>2. r \in Seq(Requests)
    BY <2>1
  <2> HIDE DEF r
  <2>3. r = <<>> <=> Len(r) = 0
    BY <2>2
  <2>4. CASE r = <<>>
    BY <1>1, <2>1, <2>3, <2>4 DEF LastOf, r
  <2>5. CASE r # <<>>
    <3>1. Len(q) - 1 \in 1 .. Len(r) /\ (Len(q) - 1) + 1 = Len(q) /\ Len(r) = Len(q) - 1
      BY <2>1, <2>3, <2>5 DEF r
    <3>2. r[Len(r)] = q[Len(q)]
      BY <2>1, <3>1 DEF r
    <3> QED BY <1>1, <2>5, <3>2 DEF LastOf, r
  <2> QED BY <2>4, <2>5 DEF r
<1>2. ASSUME NEW c \in Requests PROVE Append(q, c) # <<>> /\ LastOf(Append(q, c)) = c
  <2>1. Len(q) \in Nat /\ Len(Append(q, c)) = Len(q) + 1 /\ Append(q, c)[Len(q) + 1] = c
    BY AppendAdds
  <2>2. Append(q, c) # <<>>
    BY <2>1
  <2> QED BY <2>1, <2>2 DEF LastOf
<1> QED BY <1>1, <1>2

\* The last request decides where the loop is heading.
LEMMA IntentStaysFollowed ==
  ASSUME TypeOK, todo \in Rests, NetworkIsHeld, IntentIsFollowed, [Next]_vars
  PROVE  IntentIsFollowed'
<1>0. lan \in Seq(Requests) /\ (todo = <<>> => Now = "none" /\ Goal = "none")
  BY LoopIsAt DEF TypeOK, Queues
<1>1. UNCHANGED todo => UNCHANGED <<Now, Goal>>
  BY DEF Now, Goal
<1>2. ASSUME NEW c \in Requests, Take(c)
      PROVE  /\ lan' # <<>> => LastOf(lan') = asked'
             /\ lan' = <<>> => asked' = c
             /\ todo = <<>>
  <2>1. lan # <<>> /\ Head(lan) = c /\ lan' = Tail(lan) /\ asked' = asked /\ todo = <<>>
    BY <1>2 DEF Take
  <2> QED BY <1>0, <2>1, LastRequest DEF IntentIsFollowed
<1>3. CASE OnRestart
  <2>1. Take("On") /\ "On" \in Requests
    BY <1>3 DEF OnRestart, Requests
  <2>2. ~HeadsDown'
    <3>1. CASE Leaves("toStart")
      BY <3>1 DEF Leaves, HeadsDown
    <3>2. CASE UNCHANGED <<todo, services, mediaVars>> /\ mode # "serving"
      <4>1. Now' = "none" /\ Goal' = "none"
        BY <1>0, <1>1, <1>2, <2>1, <3>2
      <4> QED BY <1>3, <3>2, <4>1 DEF OnRestart, Starts, IntentKept, waitVars, HeadsDown
    <3> QED BY <1>3, <3>1, <3>2, Departures
  <2> QED BY <1>2, <2>1, <2>2 DEF IntentIsFollowed
<1>4. CASE OnOff
  <2>1. Take("Off") /\ "Off" \in Requests
    BY <1>4 DEF OnOff, Requests
  <2>2. HeadsUp' => ignored'
    <3>1. CASE Leaves("toStopped")
      BY <3>1 DEF Leaves, HeadsUp
    <3>2. CASE UNCHANGED <<todo, services, mediaVars>>
      <4>1. Now = "none" /\ Goal = "none" /\ Now' = "none" /\ Goal' = "none" /\ todo = <<>>
        BY <1>0, <1>1, <1>2, <2>1, <3>2
      <4>2. ~Leave(<<"joinMedia", "closeServices", "toStopped">>) /\ ~Leave(<<"joinMedia", "toStopped">>)
        BY <3>2, <4>1 DEF Leave
      <4> QED BY <1>4, <3>2, <4>1, <4>2 DEF OnOff, Stays, IntentKept, waitVars, HeadsUp
    <3> QED BY <1>4, <3>1, <3>2, Departures
  <2> QED BY <1>2, <2>1, <2>2 DEF IntentIsFollowed
<1>5. CASE \E c \in Requests : UserAsks(c)
  <2>1. PICK c \in Requests : UserAsks(c)
    BY <1>5
  <2>2. lan' = Append(lan, c) /\ asked' = c
    BY <2>1 DEF UserAsks
  <2> QED BY <1>0, <2>2, LastRequest DEF IntentIsFollowed
<1>6. CASE UNCHANGED <<lan, asked, ignored>> /\ ~OnRestart /\ ~OnOff
  BY <1>6, HeadingIsKept DEF IntentIsFollowed
<1> QED BY <1>3, <1>4, <1>5, <1>6, QueuesMove

\* Every step keeps the invariant.
LEMMA MacKeeps ==
  ASSUME MacAssumption, MacInvariant, [Next]_vars
  PROVE  MacInvariant'
<1>1. /\ TypeOK /\ todo \in Rests /\ NetworkIsHeld /\ MediaIsHeld
      /\ ReportsAreOfTasks /\ IntentIsFollowed
  BY DEF MacInvariant
<1>2. TypeOK'
  BY <1>1, MacTypes, MacQueues DEF TypeOK
<1>3. todo' \in Rests /\ NetworkIsHeld' /\ MediaIsHeld'
  BY <1>1, LoopMoves, NetworkStaysHeld, MediaStaysHeld
<1>4. ReportsAreOfTasks' /\ IntentIsFollowed'
  BY <1>1, ReportsStayOfTasks, IntentStaysFollowed
<1> QED BY <1>2, <1>3, <1>4 DEF MacInvariant

\* What the invariant says of the owners, of a network that is down and of the
\* last request.
LEMMA MacIsOwned ==
  ASSUME MacInvariant
  PROVE  MacOwners /\ DownIsDark /\ NetworkFollowsRequests
<1>1. TypeOK /\ NetworkIsHeld /\ MediaIsHeld /\ IntentIsFollowed
  BY DEF MacInvariant
<1>2. todo = <<>> <=> Now = "none"
  BY LoopIsAt DEF MacInvariant
<1>3. todo = <<>> => Goal = "none"
  BY LoopIsAt DEF MacInvariant
<1>4. MacOwners
  <2>1. /\ stage # "idle" <=> AtShare
        /\ stage # "idle" => stageGen = gen
        /\ media = "Idle" /\ todo = <<>> => ~handle
        /\ media = "Idle" <=> owner = "none"
        /\ sysAudio => source = "mainDisplay"
        /\ shareAudio # "Off" => AtShare
        /\ frame # 0 /\ todo = <<>> => AtWatch /\ frame = gen
    BY <1>1, <1>2 DEF MediaIsHeld
  <2>2. TaskLive => handle /\ ((AtWatch /\ taskGen = gen) \/ todo # <<>>)
    BY <1>1, <1>2 DEF MediaIsHeld
  <2>3. ~(TaskLive /\ stage # "idle")
    BY <1>1 DEF MediaIsHeld, AtShare, AtWatch
  <2> QED BY <1>1, <2>1, <2>2, <2>3 DEF MacOwners
<1>5. DownIsDark
  BY <1>1, <1>2, <1>3 DEF NetworkIsHeld, MediaIsHeld, AtShare, AtWatch, DownIsDark
<1>6. NetworkFollowsRequests
  BY <1>1, <1>2 DEF IntentIsFollowed, HeadsUp, HeadsDown, NetworkFollowsRequests
<1> QED BY <1>4, <1>5, <1>6

\* The invariant holds in every state the macOS runtime reaches.
THEOREM MacInvariantHolds ==
  ASSUME MacAssumption
  PROVE  Spec => []MacInvariant
<1>1. Init => MacInvariant
  BY MacInit
<1>2. MacInvariant /\ [Next]_vars => MacInvariant'
  BY MacKeeps
<1> QED BY <1>1, <1>2, PTL DEF Spec

-----------------------------------------------------------------------------
(* Windows: the inductive invariant.                                       *)

\* Which step of a handler may come after which; "none" is the end.
Follows(s, t) ==
  \/ s = "cancelView" /\ t = "joinView"
  \/ s = "joinView" /\ t \in {"abortPub", "none"}
  \/ s = "abortPub" /\ t = "joinPub"
  \/ s = "joinPub" /\ t \in {"stopLife", "failServices", "none"}
  \/ s = "stopLife" /\ t = "stopServices"
  \/ s = "stopServices" /\ t \in {"exit", "none"}
  \/ s \in {"failServices", "exit"} /\ t = "none"

StepAt(q, i) == IF i \in 1 .. Len(q) THEN q[i] ELSE "none"
InOrder(q)   == \A i \in 1 .. Len(q) : Follows(q[i], StepAt(q, i + 1))
WinNow       == StepAt(winTodo, 1)
FailsAtEnd(q) == q # <<>> /\ q[Len(q)] = "failServices"

PastJoins == {"stopLife", "stopServices", "failServices", "exit"}

\* A handler that is past the joins has no task left to join.
TasksAreJoined ==
  /\ WinNow \in {"abortPub", "joinPub"} \cup PastJoins => ~viewHandle
  /\ WinNow \in PastJoins => ~pubHandle

\* Who holds the media, on services that are up.
HandlesAreShown ==
  /\ Win!PubLive => pubHandle
  /\ pubHandle => /\ winMedia \in {"Sharing", "Stopping"} /\ winServices # 0
                  /\ pubGen = mediaGen /\ pubRun = mediaGen
  /\ Win!ViewLive => viewHandle
  /\ viewHandle => view \in {"Preparing", "Viewing", "Stopping"} /\ winServices # 0
  /\ ownGen = viewGen /\ viewRun = viewGen
  /\ winFrame # 0 => viewHandle /\ winFrame = viewGen
  /\ winMedia # "Preparing"
  /\ winMedia \in {"Idle", "Failed"} \/ view \in {"Idle", "Failed"}

\* A report of the end of a task is not in the queue before the task has ended.
WinReportsAreOfTasks ==
  /\ \A i \in 1 .. Len(mediaQ) :
       mediaQ[i].gen <= mediaGen /\ (Win!PubLive => mediaQ[i].gen # pubRun)
  /\ \A i \in 1 .. Len(viewQ) :
       viewQ[i].gen <= viewGen
       /\ (Win!ViewLive /\ viewQ[i].type = "Ended" => viewQ[i].gen # viewRun)
  /\ \A g \in speakers : g <= viewGen

\* What is open is of the services or of the start under way, which exclude
\* each other, and an end of the services leaves neither.
ServicesAreOwned ==
  /\ \A g \in open : g # 0 /\ (g = winServices \/ (g = starting /\ polled))
  /\ lifeGen # 0 /\ starting <= lifeGen /\ winServices <= lifeGen
  /\ winServices = 0 \/ starting = 0
  /\ winServices # 0 => localId
  /\ polled => starting # 0
  /\ ~lifeActive => WinNow = "stopServices" \/ (winServices = 0 /\ starting = 0)
  /\ WinNow \in {"stopServices", "exit"} => ~lifeActive
  /\ FailsAtEnd(winTodo) => starting = 0
  /\ disc = "Stopped" \/ ~running => winServices = 0 /\ starting = 0 /\ ~lifeActive
  /\ ~running => winTodo = <<>>

WindowsInvariant ==
  /\ Win!TypeOK /\ InOrder(winTodo) /\ TasksAreJoined /\ HandlesAreShown
  /\ WinReportsAreOfTasks /\ ServicesAreOwned

-----------------------------------------------------------------------------
(* Windows: what is left of a handler.                                     *)

\* Taking a step leaves the rest in order, and what may follow comes next.
LEMMA StepTaken ==
  ASSUME NEW q \in Seq(Win!Steps), q # <<>>, InOrder(q)
  PROVE  /\ Tail(q) \in Seq(Win!Steps) /\ InOrder(Tail(q))
         /\ StepAt(q, 1) = Head(q) /\ Follows(Head(q), StepAt(Tail(q), 1))
         /\ FailsAtEnd(Tail(q)) => FailsAtEnd(q)
<1> DEFINE r == Tail(q)
<1>1. /\ r \in Seq(Win!Steps) /\ Len(q) \in Nat /\ Len(r) \in Nat /\ Len(r) = Len(q) - 1
      /\ \A i \in 1 .. Len(r) : r[i] = q[i + 1] /\ i + 1 \in 1 .. Len(q)
      /\ Head(q) = q[1] /\ 1 \in 1 .. Len(q)
  BY TailShifts
<1>2. r # <<>> => Len(r) # 0
  BY <1>1
<1> HIDE DEF r
<1>3. \A i \in Nat : StepAt(r, i + 1) = StepAt(q, i + 2)
  <2> SUFFICES ASSUME NEW i \in Nat PROVE StepAt(r, i + 1) = StepAt(q, i + 2)
    OBVIOUS
  <2>1. i + 1 \in 1 .. Len(r) <=> i + 2 \in 1 .. Len(q)
    BY <1>1
  <2>2. i + 1 \in 1 .. Len(r) => r[i + 1] = q[(i + 1) + 1] /\ (i + 1) + 1 = i + 2
    BY <1>1
  <2> QED BY <2>1, <2>2 DEF StepAt
<1>4. ASSUME NEW i \in 1 .. Len(r) PROVE Follows(r[i], StepAt(r, i + 1))
  <2>1. i \in Nat /\ r[i] = q[i + 1] /\ i + 1 \in 1 .. Len(q) /\ (i + 1) + 1 = i + 2
    BY <1>1
  <2> QED BY <1>3, <2>1 DEF InOrder
<1>5. StepAt(q, 1) = Head(q) /\ StepAt(r, 1) = StepAt(q, 2)
  <2>1. 0 \in Nat /\ 0 + 1 = 1 /\ 0 + 2 = 2
    OBVIOUS
  <2> QED BY <1>1, <1>3, <2>1 DEF StepAt
<1>6. Follows(Head(q), StepAt(q, 2))
  <2>1. 1 + 1 = 2
    OBVIOUS
  <2> QED BY <1>1, <2>1 DEF InOrder
<1>7. FailsAtEnd(r) => FailsAtEnd(q)
  BY <1>1, <1>2 DEF FailsAtEnd
<1> QED BY <1>1, <1>4, <1>5, <1>6, <1>7 DEF InOrder, r

\* The handlers that await are in order; only the last ends in failServices.
LEMMA HandlersAreInOrder ==
  /\ \A q \in {Win!StopView, Win!StopPub, Win!FailureStopsMedia,
               Win!StopMedia \o <<"stopLife", "stopServices">> \o <<>>,
               Win!StopMedia \o <<"stopLife", "stopServices">> \o <<"exit">>} :
       q \in Seq(Win!Steps) /\ InOrder(q)
  /\ StepAt(Win!StopPub, 1) = "abortPub"
  /\ \A q \in {Win!StopView, Win!FailureStopsMedia,
               Win!StopMedia \o <<"stopLife", "stopServices">> \o <<>>,
               Win!StopMedia \o <<"stopLife", "stopServices">> \o <<"exit">>} :
       StepAt(q, 1) = "cancelView"
  /\ \A q \in {Win!StopView, Win!StopPub,
               Win!StopMedia \o <<"stopLife", "stopServices">> \o <<>>,
               Win!StopMedia \o <<"stopLife", "stopServices">> \o <<"exit">>} : ~FailsAtEnd(q)
<1> DEFINE Whole(q, first) == q \in Seq(Win!Steps) /\ InOrder(q) /\ StepAt(q, 1) = first
<1> USE DEF InOrder, StepAt, Follows, FailsAtEnd, Win!Steps
<1>1. Whole(Win!StopView, "cancelView") /\ ~FailsAtEnd(Win!StopView)
  BY DEF Win!StopView
<1>2. Whole(Win!StopPub, "abortPub") /\ ~FailsAtEnd(Win!StopPub)
  BY DEF Win!StopPub
<1>3. Whole(Win!FailureStopsMedia, "cancelView")
  BY DEF Win!FailureStopsMedia, Win!StopMedia, Win!StopView, Win!StopPub
<1>4. /\ Whole(Win!StopMedia \o <<"stopLife", "stopServices">> \o <<>>, "cancelView")
      /\ ~FailsAtEnd(Win!StopMedia \o <<"stopLife", "stopServices">> \o <<>>)
  BY DEF Win!StopMedia, Win!StopView, Win!StopPub
<1>5. /\ Whole(Win!StopMedia \o <<"stopLife", "stopServices">> \o <<"exit">>, "cancelView")
      /\ ~FailsAtEnd(Win!StopMedia \o <<"stopLife", "stopServices">> \o <<"exit">>)
  BY DEF Win!StopMedia, Win!StopView, Win!StopPub
<1> HIDE DEF InOrder, StepAt, Follows, FailsAtEnd, Win!Steps
<1> QED BY <1>1, <1>2, <1>3, <1>4, <1>5

\* What the beginning of a handler leaves to do.
LEMMA HandlerBegins ==
  ASSUME Win!StopSharing \/ Win!StopWatching \/ Win!StopScan \/ Win!Shutdown \/ Win!ServiceEnds
  PROVE  /\ winTodo' \in Seq(Win!Steps) /\ InOrder(winTodo')
         /\ WinNow' = "cancelView" \/ (WinNow' = "abortPub" /\ Win!StopSharing)
         /\ FailsAtEnd(winTodo') => Win!ServiceEnds
<1>1. CASE Win!StopSharing
  BY <1>1, HandlersAreInOrder DEF Win!StopSharing, WinNow
<1>2. CASE Win!StopWatching
  BY <1>2, HandlersAreInOrder DEF Win!StopWatching, WinNow
<1>3. CASE Win!StopScan
  BY <1>3, HandlersAreInOrder DEF Win!StopScan, Win!BeginStopScan, WinNow
<1>4. CASE Win!Shutdown
  BY <1>4, HandlersAreInOrder DEF Win!Shutdown, Win!BeginStopScan, WinNow
<1>5. CASE Win!ServiceEnds
  BY <1>5, HandlersAreInOrder DEF Win!ServiceEnds, WinNow
<1> QED BY <1>1, <1>2, <1>3, <1>4, <1>5

\* What any step does to the rest of a handler.
LEMMA HandlerMoves ==
  ASSUME Win!TypeOK, InOrder(winTodo), [Win!Next]_(Win!vars)
  PROVE  /\ winTodo' \in Seq(Win!Steps) /\ InOrder(winTodo')
         /\ \/ UNCHANGED winTodo
            \/ Win!StopSharing \/ Win!StopWatching \/ Win!StopScan \/ Win!Shutdown \/ Win!ServiceEnds
            \/ /\ winTodo # <<>> /\ WinNow = Head(winTodo) /\ Follows(WinNow, WinNow')
               /\ FailsAtEnd(winTodo') => FailsAtEnd(winTodo)
<1>0. winTodo \in Seq(Win!Steps)
  BY DEF Win!TypeOK, Win!Queues
<1>1. CASE Win!StopSharing \/ Win!StopWatching \/ Win!StopScan \/ Win!Shutdown \/ Win!ServiceEnds
  BY <1>1, HandlerBegins
<1>2. CASE winTodo # <<>> /\ winTodo' = Tail(winTodo)
  BY <1>0, <1>2, StepTaken DEF WinNow
<1>3. CASE UNCHANGED winTodo
  BY <1>0, <1>3
<1>4. CASE Win!Handler
  BY <1>2, <1>4 DEF Win!Handler, Win!CancelView, Win!JoinView, Win!AbortPub, Win!JoinPub,
     Win!StopLife, Win!FailServices, Win!Exit, Win!StopServices, Win!AtStep, Win!NextStep
<1>5. CASE Win!Command
  BY <1>1, <1>3, <1>5 DEF Win!Command, Win!StartScan, Win!ShareRefused, Win!ShareRejected,
     Win!ShareFinishes, Win!ShareScreen, Win!WatchRefused, Win!WatchScreen, Win!Unchanged
<1>6. CASE Win!Services
  BY <1>1, <1>3, <1>6 DEF Win!Services, Win!PollStart, Win!StartSucceeds, Win!StartFails,
     Win!loopVars
<1>7. CASE Win!Publisher \/ Win!Viewer \/ Win!Speaker
  BY <1>3, <1>7 DEF Win!Publisher, Win!PubEnds, Win!PubPanics, Win!PubAborted, Win!PubReports,
     Win!PubMoves, Win!Viewer, Win!ViewOpens, Win!ViewShows, Win!ViewReady, Win!ViewReopens,
     Win!ViewEnds, Win!ViewPanics, Win!ViewReports, Win!ViewCancelled, Win!ViewMoves,
     Win!Speaker, Win!SpeakerReports, Win!SpeakerEnds, Win!loopVars
<1>8. CASE Win!OnMediaEnded \/ Win!HandleView \/ UNCHANGED Win!vars
  BY <1>3, <1>8 DEF Win!OnMediaEnded, Win!HandleView, Win!Unchanged, Win!vars, Win!loopVars
<1> QED BY <1>4, <1>5, <1>6, <1>7, <1>8 DEF Win!Next

\* Who sends to the two queues and who reads them.
LEMMA WinQueuesMove ==
  ASSUME [Win!Next]_(Win!vars)
  PROVE  /\ \/ UNCHANGED mediaQ \/ Win!OnMediaEnded \/ \E ok \in BOOLEAN : Win!PubReports(ok)
         /\ \/ UNCHANGED viewQ \/ Win!HandleView \/ Win!ViewReady \/ Win!ViewReports
            \/ \E g \in speakers : Win!SpeakerReports(g)
<1>1. CASE Win!Command
  BY Zenon, <1>1 DEF Win!Command, Win!StartScan, Win!StopScan, Win!Shutdown, Win!BeginStopScan,
     Win!ShareRefused, Win!Refused, Win!Unchanged, Win!ShareRejected, Win!ShareFinishes,
     Win!ShareScreen, Win!StopSharing, Win!WatchRefused, Win!WatchScreen, Win!StopWatching
<1>2. CASE Win!Handler
  BY Zenon, <1>2 DEF Win!Handler, Win!CancelView, Win!JoinView, Win!AbortPub, Win!JoinPub,
     Win!StopLife, Win!FailServices, Win!Exit, Win!StopServices
<1>3. CASE Win!Services
  BY Zenon, <1>3 DEF Win!Services, Win!PollStart, Win!StartSucceeds, Win!StartFails,
     Win!ServiceEnds
<1>4. CASE Win!Publisher
  BY Zenon, <1>4 DEF Win!Publisher, Win!PubEnds, Win!PubPanics, Win!PubAborted, Win!PubReports,
     Win!PubMoves
<1>5. CASE Win!Viewer
  BY Zenon, <1>5 DEF Win!Viewer, Win!ViewOpens, Win!ViewShows, Win!ViewReady, Win!ViewReopens,
     Win!ViewEnds, Win!ViewPanics, Win!ViewReports, Win!ViewCancelled, Win!ViewMoves,
     Win!ViewReport, Win!Quietly, Win!AtWork
<1>6. CASE Win!Speaker
  BY Zenon, <1>6 DEF Win!Speaker, Win!SpeakerReports, Win!SpeakerEnds, Win!ViewReport
<1>7. CASE Win!OnMediaEnded \/ Win!HandleView
  BY Zenon, <1>7 DEF Win!OnMediaEnded, Win!HandleView, Win!OnDecoderReady, Win!OnViewEnded,
     Win!Unchanged
<1>8. CASE UNCHANGED Win!vars
  BY <1>8 DEF Win!vars
<1> QED BY <1>1, <1>2, <1>3, <1>4, <1>5, <1>6, <1>7, <1>8 DEF Win!Next

\* The runtime starts within its invariant.
LEMMA WindowsInit ==
  ASSUME Win!WindowsAssumption
  PROVE  Win!Init => WindowsInvariant
<1> SUFFICES ASSUME Win!Init PROVE WindowsInvariant
  OBVIOUS
<1>1. Win!LoopFlags /\ Win!TaskFlags
  BY DEF Win!Init, Win!LoopFlags, Win!TaskFlags
<1>2. Win!Phases
  BY DEF Win!Init, Win!Phases, Win!DiscStates, Win!MediaPhases, Win!ViewPhases
<1>3. Win!LanGenerations /\ Win!PubGenerations /\ Win!ViewGenerations /\ Win!Openings
  BY DEF Win!Init, Win!LanGenerations, Win!PubGenerations, Win!ViewGenerations, Win!Openings
<1>4. Win!Queues
  BY DEF Win!Init, Win!Queues, Win!WindowsAssumption
<1>5. WinNow = "none" /\ ~FailsAtEnd(winTodo) /\ InOrder(winTodo)
  BY DEF Win!Init, WinNow, StepAt, FailsAtEnd, InOrder
<1>6. TasksAreJoined /\ HandlesAreShown
  BY <1>5 DEF Win!Init, TasksAreJoined, HandlesAreShown, PastJoins, Win!PubLive, Win!ViewLive
<1>7. WinReportsAreOfTasks /\ ServicesAreOwned
  BY <1>5 DEF Win!Init, WinReportsAreOfTasks, ServicesAreOwned
<1> QED BY <1>1, <1>2, <1>3, <1>4, <1>5, <1>6, <1>7 DEF WindowsInvariant, Win!TypeOK

\* Types are kept.
LEMMA WindowsTypes ==
  ASSUME Win!WindowsAssumption, Win!TypeOK, InOrder(winTodo), [Win!Next]_(Win!vars)
  PROVE  /\ (Win!LoopFlags /\ Win!TaskFlags /\ Win!Phases)'
         /\ (Win!LanGenerations /\ Win!PubGenerations /\ Win!ViewGenerations /\ Win!Openings)'
<1>1. CASE Win!Command
  <2>1. Win!LoopFlags'
    BY Zenon, <1>1 DEF Win!TypeOK, Win!LoopFlags, Win!Command, Win!StartScan, Win!StopScan,
       Win!Shutdown, Win!BeginStopScan, Win!ShareRefused, Win!Refused, Win!Unchanged,
       Win!ShareRejected, Win!ShareFinishes, Win!ShareScreen, Win!StopSharing, Win!WatchRefused,
       Win!WatchScreen, Win!StopWatching, Win!loopVars, Win!scanVars, Win!lifeVars
  <2> USE <1>1 DEF Win!TypeOK, Win!Command, Win!StartScan, Win!StopScan, Win!Shutdown,
          Win!BeginStopScan, Win!ShareRefused, Win!Refused, Win!Unchanged, Win!ShareRejected,
          Win!ShareFinishes, Win!ShareScreen, Win!StopSharing, Win!WatchRefused,
          Win!WatchScreen, Win!StopWatching, Win!loopVars, Win!scanVars, Win!lifeVars,
          Win!mediaVars, Win!pubVars, Win!viewVars, Win!ownVars, Win!outVars
  <2>2. Win!TaskFlags'
    BY Zenon DEF Win!TaskFlags
  <2>3. Win!Phases'
    BY SMT DEF Win!Phases, Win!DiscStates, Win!MediaPhases, Win!ViewPhases, Win!PubLive
  <2>4. Win!LanGenerations'
    BY DEF Win!LanGenerations
  <2>5. Win!PubGenerations'
    BY DEF Win!PubGenerations
  <2>6. Win!ViewGenerations'
    BY DEF Win!ViewGenerations
  <2>7. Win!Openings'
    BY Zenon DEF Win!Openings, Win!LanGenerations, Win!ViewGenerations
  <2> QED BY <2>1, <2>2, <2>3, <2>4, <2>5, <2>6, <2>7
<1>2. CASE Win!Handler
  <2> USE <1>2 DEF Win!TypeOK, Win!Handler, Win!CancelView, Win!JoinView, Win!AbortPub,
          Win!JoinPub, Win!StopLife, Win!StartAwaited, Win!FailServices, Win!Exit,
          Win!StopServices, Win!ScanEnds, Win!loopVars, Win!scanVars, Win!lifeVars,
          Win!mediaVars, Win!pubVars, Win!viewVars, Win!ownVars, Win!outVars
  <2>1. Win!LoopFlags'
    BY Zenon DEF Win!LoopFlags
  <2>2. Win!TaskFlags'
    BY Zenon DEF Win!TaskFlags
  <2>3. Win!Phases'
    BY SMT DEF Win!Phases, Win!DiscStates, Win!MediaPhases, Win!ViewPhases, Win!PubLive
  <2>4. Win!LanGenerations'
    BY DEF Win!LanGenerations
  <2>5. Win!PubGenerations'
    BY DEF Win!PubGenerations
  <2>6. Win!ViewGenerations'
    BY DEF Win!ViewGenerations
  <2>7. Win!Openings'
    BY Zenon DEF Win!Openings, Win!LanGenerations, Win!ViewGenerations
  <2> QED BY <2>1, <2>2, <2>3, <2>4, <2>5, <2>6, <2>7
<1>3. CASE Win!Services
  <2> USE <1>3 DEF Win!TypeOK, Win!Services, Win!PollStart, Win!StartSucceeds, Win!StartFails,
          Win!ServiceEnds, Win!ScanEnds, Win!loopVars, Win!scanVars, Win!lifeVars,
          Win!mediaVars, Win!pubVars, Win!viewVars, Win!ownVars, Win!outVars
  <2>1. Win!LoopFlags'
    BY Zenon DEF Win!LoopFlags
  <2>2. Win!TaskFlags'
    BY Zenon DEF Win!TaskFlags
  <2>3. Win!Phases'
    BY SMT DEF Win!Phases, Win!DiscStates, Win!MediaPhases, Win!ViewPhases, Win!PubLive
  <2>4. Win!LanGenerations'
    BY DEF Win!LanGenerations
  <2>5. Win!PubGenerations'
    BY DEF Win!PubGenerations
  <2>6. Win!ViewGenerations'
    BY DEF Win!ViewGenerations
  <2>7. Win!Openings'
    BY Zenon DEF Win!Openings, Win!LanGenerations, Win!ViewGenerations
  <2> QED BY <2>1, <2>2, <2>3, <2>4, <2>5, <2>6, <2>7
<1>4. CASE Win!Publisher
  <2> USE <1>4 DEF Win!TypeOK, Win!Publisher, Win!PubEnds, Win!PubPanics, Win!PubAborted,
          Win!PubReports, Win!PubMoves, Win!loopVars, Win!scanVars, Win!lifeVars, Win!mediaVars,
          Win!pubVars, Win!viewVars, Win!ownVars, Win!outVars
  <2>1. Win!LoopFlags'
    BY Zenon DEF Win!LoopFlags
  <2>2. Win!TaskFlags'
    BY Zenon DEF Win!TaskFlags
  <2>3. Win!Phases'
    BY Zenon DEF Win!Phases, Win!DiscStates, Win!MediaPhases, Win!ViewPhases, Win!PubLive
  <2>4. Win!LanGenerations'
    BY DEF Win!LanGenerations
  <2>5. Win!PubGenerations'
    BY DEF Win!PubGenerations
  <2>6. Win!ViewGenerations'
    BY DEF Win!ViewGenerations
  <2>7. Win!Openings'
    BY Zenon DEF Win!Openings, Win!LanGenerations, Win!ViewGenerations
  <2> QED BY <2>1, <2>2, <2>3, <2>4, <2>5, <2>6, <2>7
<1>5. CASE Win!Viewer
  <2>1. Win!TaskFlags'
    BY Zenon, <1>5 DEF Win!TypeOK, Win!TaskFlags, Win!Viewer, Win!ViewOpens, Win!ViewShows,
       Win!ViewReady, Win!ViewReopens, Win!ViewEnds, Win!ViewPanics, Win!ViewReports,
       Win!ViewCancelled, Win!ViewMoves, Win!pubVars
  <2> USE <1>5 DEF Win!TypeOK, Win!Viewer, Win!ViewOpens, Win!ViewShows, Win!ViewReady,
          Win!ViewReopens, Win!ViewEnds, Win!ViewPanics, Win!ViewReports, Win!ViewCancelled,
          Win!ViewMoves, Win!ViewReport, Win!Quietly, Win!AtWork, Win!loopVars, Win!scanVars,
          Win!lifeVars, Win!mediaVars, Win!pubVars, Win!viewVars, Win!ownVars, Win!outVars
  <2>2. Win!LoopFlags'
    BY Zenon DEF Win!LoopFlags
  <2>3. Win!Phases'
    BY Zenon DEF Win!Phases, Win!DiscStates, Win!MediaPhases, Win!ViewPhases, Win!PubLive
  <2>4. Win!LanGenerations'
    BY DEF Win!LanGenerations
  <2>5. Win!PubGenerations'
    BY DEF Win!PubGenerations
  <2>6. Win!ViewGenerations'
    BY DEF Win!ViewGenerations
  <2>7. Win!Openings'
    BY Zenon DEF Win!Openings, Win!LanGenerations, Win!ViewGenerations
  <2> QED BY <2>1, <2>2, <2>3, <2>4, <2>5, <2>6, <2>7
<1>6. CASE Win!Speaker
  <2> USE <1>6 DEF Win!TypeOK, Win!Speaker, Win!SpeakerReports, Win!SpeakerEnds, Win!ViewReport,
          Win!loopVars, Win!scanVars, Win!lifeVars, Win!mediaVars, Win!pubVars, Win!viewVars,
          Win!ownVars, Win!outVars
  <2>1. Win!LoopFlags'
    BY Zenon DEF Win!LoopFlags
  <2>2. Win!TaskFlags'
    BY Zenon DEF Win!TaskFlags
  <2>3. Win!Phases'
    BY SMT DEF Win!Phases, Win!DiscStates, Win!MediaPhases, Win!ViewPhases, Win!PubLive
  <2>4. Win!LanGenerations'
    BY DEF Win!LanGenerations
  <2>5. Win!PubGenerations'
    BY DEF Win!PubGenerations
  <2>6. Win!ViewGenerations'
    BY DEF Win!ViewGenerations
  <2>7. Win!Openings'
    BY Zenon DEF Win!Openings, Win!LanGenerations, Win!ViewGenerations
  <2> QED BY <2>1, <2>2, <2>3, <2>4, <2>5, <2>6, <2>7
<1>7. CASE Win!OnMediaEnded
  <2> USE <1>7 DEF Win!TypeOK, Win!OnMediaEnded, Win!Unchanged, Win!loopVars, Win!scanVars,
          Win!lifeVars, Win!mediaVars, Win!pubVars, Win!viewVars, Win!ownVars, Win!outVars
  <2>1. Win!LoopFlags'
    BY Zenon DEF Win!LoopFlags
  <2>2. Win!TaskFlags'
    BY Zenon DEF Win!TaskFlags
  <2>3. Win!Phases'
    BY SMT DEF Win!Phases, Win!DiscStates, Win!MediaPhases, Win!ViewPhases, Win!PubLive
  <2>4. Win!LanGenerations'
    BY DEF Win!LanGenerations
  <2>5. Win!PubGenerations'
    BY DEF Win!PubGenerations
  <2>6. Win!ViewGenerations'
    BY DEF Win!ViewGenerations
  <2>7. Win!Openings'
    BY Zenon DEF Win!Openings, Win!LanGenerations, Win!ViewGenerations
  <2> QED BY <2>1, <2>2, <2>3, <2>4, <2>5, <2>6, <2>7
<1>8. CASE Win!HandleView
  <2> USE <1>8 DEF Win!TypeOK, Win!HandleView, Win!OnDecoderReady, Win!OnViewEnded,
          Win!Unchanged, Win!loopVars, Win!scanVars, Win!lifeVars, Win!mediaVars, Win!pubVars,
          Win!viewVars, Win!ownVars, Win!outVars
  <2>1. Win!LoopFlags'
    BY Zenon DEF Win!LoopFlags
  <2>2. Win!TaskFlags'
    BY Zenon DEF Win!TaskFlags
  <2>3. Win!Phases'
    BY SMT DEF Win!Phases, Win!DiscStates, Win!MediaPhases, Win!ViewPhases, Win!PubLive
  <2>4. Win!LanGenerations'
    BY DEF Win!LanGenerations
  <2>5. Win!PubGenerations'
    BY DEF Win!PubGenerations
  <2>6. Win!ViewGenerations'
    BY DEF Win!ViewGenerations
  <2>7. Win!Openings'
    BY Zenon DEF Win!Openings, Win!LanGenerations, Win!ViewGenerations
  <2> QED BY <2>1, <2>2, <2>3, <2>4, <2>5, <2>6, <2>7
<1>9. CASE UNCHANGED Win!vars
  <2> USE <1>9 DEF Win!TypeOK, Win!vars, Win!loopVars, Win!scanVars, Win!lifeVars,
          Win!mediaVars, Win!pubVars, Win!viewVars, Win!ownVars, Win!outVars
  <2>1. Win!LoopFlags'
    BY Zenon DEF Win!LoopFlags
  <2>2. Win!TaskFlags'
    BY Zenon DEF Win!TaskFlags
  <2>3. Win!Phases'
    BY SMT DEF Win!Phases, Win!DiscStates, Win!MediaPhases, Win!ViewPhases, Win!PubLive
  <2>4. Win!LanGenerations'
    BY DEF Win!LanGenerations
  <2>5. Win!PubGenerations'
    BY DEF Win!PubGenerations
  <2>6. Win!ViewGenerations'
    BY DEF Win!ViewGenerations
  <2>7. Win!Openings'
    BY Zenon DEF Win!Openings, Win!LanGenerations, Win!ViewGenerations
  <2> QED BY <2>1, <2>2, <2>3, <2>4, <2>5, <2>6, <2>7

<1> QED BY <1>1, <1>2, <1>3, <1>4, <1>5, <1>6, <1>7, <1>8, <1>9 DEF Win!Next

\* The queues hold what they are for and no more than they have room for.
LEMMA WindowsQueues ==
  ASSUME Win!WindowsAssumption, Win!TypeOK, InOrder(winTodo), [Win!Next]_(Win!vars)
  PROVE  Win!Queues'
<1>0. /\ mediaQ \in Seq(Win!Outcomes) /\ Len(mediaQ) <= MediaCap /\ MediaCap \in Nat
      /\ viewQ \in Seq(Win!ViewEvents) /\ Len(viewQ) <= ViewCap /\ ViewCap \in Nat
      /\ pubRun \in Nat /\ viewRun \in Nat /\ \A g \in speakers : g \in Nat
  BY DEF Win!TypeOK, Win!Queues, Win!PubGenerations, Win!ViewGenerations, Win!Openings,
     Win!WindowsAssumption
<1>1. winTodo' \in Seq(Win!Steps)
  BY HandlerMoves
<1>2. mediaQ' \in Seq(Win!Outcomes) /\ Len(mediaQ') <= MediaCap
  <2>1. CASE UNCHANGED mediaQ
    BY <1>0, <2>1
  <2>2. CASE Win!OnMediaEnded
    <3>1. mediaQ # <<>> /\ mediaQ' = Tail(mediaQ)
      BY <2>2 DEF Win!OnMediaEnded
    <3> QED BY <1>0, <3>1, TailShifts
  <2>3. CASE \E ok \in BOOLEAN : Win!PubReports(ok)
    <3>1. PICK ok \in BOOLEAN : Win!PubReports(ok)
      BY <2>3
    <3>2. Len(mediaQ) < MediaCap /\ mediaQ' = Append(mediaQ, [gen |-> pubRun, ok |-> ok])
      BY <3>1 DEF Win!PubReports
    <3>3. [gen |-> pubRun, ok |-> ok] \in Win!Outcomes
      BY <1>0 DEF Win!Outcomes
    <3> HIDE DEF Win!Outcomes
    <3> QED BY <1>0, <3>2, <3>3, AppendAdds
  <2> QED BY <2>1, <2>2, <2>3, WinQueuesMove
<1>3. viewQ' \in Seq(Win!ViewEvents) /\ Len(viewQ') <= ViewCap
  <2>1. CASE UNCHANGED viewQ
    BY <1>0, <2>1
  <2>2. CASE Win!HandleView
    <3>1. viewQ # <<>> /\ viewQ' = Tail(viewQ)
      BY <2>2 DEF Win!HandleView
    <3> QED BY <1>0, <3>1, TailShifts
  <2>3. CASE Win!ViewReady \/ Win!ViewReports \/ \E g \in speakers : Win!SpeakerReports(g)
    <3>1. PICK e \in Win!ViewEvents : Win!ViewReport(e)
      <4>1. CASE Win!ViewReady
        BY <1>0, <4>1 DEF Win!ViewReady, Win!ViewEvents
      <4>2. CASE Win!ViewReports
        BY <1>0, <4>2 DEF Win!ViewReports, Win!ViewEvents
      <4>3. CASE \E g \in speakers : Win!SpeakerReports(g)
        BY <1>0, <4>3 DEF Win!SpeakerReports, Win!ViewEvents
      <4> QED BY <2>3, <4>1, <4>2, <4>3
    <3>2. Len(viewQ) < ViewCap /\ viewQ' = Append(viewQ, e)
      BY <3>1 DEF Win!ViewReport
    <3> QED BY <1>0, <3>2, AppendAdds
  <2> QED BY <2>1, <2>2, <2>3, WinQueuesMove
<1> QED BY <1>1, <1>2, <1>3 DEF Win!Queues

\* Where the handler is: the loop selects between handlers, and a handler that
\* goes on takes the step it is at and comes to one that may follow it.
LEMMA WinHandlerGoesOn ==
  ASSUME Win!TypeOK, InOrder(winTodo)
  PROVE  /\ Win!Selecting => WinNow = "none" /\ ~FailsAtEnd(winTodo)
         /\ \A s \in Win!Steps : Win!AtStep(s) => WinNow = s
         /\ Win!Handler => /\ WinNow = Head(winTodo) /\ Follows(WinNow, WinNow')
                           /\ FailsAtEnd(winTodo') => FailsAtEnd(winTodo)
         /\ UNCHANGED winTodo => UNCHANGED WinNow /\ UNCHANGED FailsAtEnd(winTodo)
<1>0. winTodo \in Seq(Win!Steps)
  BY DEF Win!TypeOK, Win!Queues
<1>1. Win!Selecting => WinNow = "none" /\ ~FailsAtEnd(winTodo)
  BY DEF Win!Selecting, WinNow, StepAt, FailsAtEnd
<1>2. winTodo # <<>> => WinNow = Head(winTodo) /\ Follows(Head(winTodo), StepAt(Tail(winTodo), 1))
                     /\ (FailsAtEnd(Tail(winTodo)) => FailsAtEnd(winTodo))
  BY <1>0, StepTaken DEF WinNow
<1>3. \A s \in Win!Steps : Win!AtStep(s) => WinNow = s
  BY <1>2 DEF Win!AtStep
<1>4. Win!Handler => winTodo # <<>> /\ winTodo' = Tail(winTodo)
  BY DEF Win!Handler, Win!CancelView, Win!JoinView, Win!AbortPub, Win!JoinPub, Win!StopLife,
     Win!FailServices, Win!Exit, Win!StopServices, Win!AtStep, Win!NextStep
<1>5. winTodo' = Tail(winTodo) => WinNow' = StepAt(Tail(winTodo), 1)
  BY DEF WinNow
<1>6. UNCHANGED winTodo => UNCHANGED WinNow /\ UNCHANGED FailsAtEnd(winTodo)
  BY DEF WinNow, FailsAtEnd
<1> QED BY <1>1, <1>2, <1>3, <1>4, <1>5, <1>6

\* The handlers take the tasks and the services in turn.
LEMMA TasksStayJoined ==
  ASSUME Win!TypeOK, InOrder(winTodo), TasksAreJoined, HandlesAreShown, [Win!Next]_(Win!vars)
  PROVE  TasksAreJoined'
<1>1. CASE Win!Handler
  <2>1. WinNow = Head(winTodo) /\ Follows(WinNow, WinNow')
    BY <1>1, WinHandlerGoesOn
  <2>2. WinNow = "joinView" => ~viewHandle' /\ UNCHANGED pubHandle
    BY <1>1, <2>1 DEF Win!Handler, Win!CancelView, Win!JoinView, Win!AbortPub, Win!JoinPub,
       Win!StopLife, Win!FailServices, Win!Exit, Win!StopServices, Win!AtStep, Win!ownVars,
       Win!pubVars
  <2>3. WinNow = "joinPub" => ~pubHandle' /\ UNCHANGED viewHandle
    BY <1>1, <2>1 DEF Win!Handler, Win!CancelView, Win!JoinView, Win!AbortPub, Win!JoinPub,
       Win!StopLife, Win!FailServices, Win!Exit, Win!StopServices, Win!AtStep, Win!ownVars,
       Win!pubVars
  <2>4. WinNow \notin {"joinView", "joinPub"} => UNCHANGED viewHandle /\ UNCHANGED pubHandle
    BY <1>1, <2>1 DEF Win!Handler, Win!CancelView, Win!JoinView, Win!AbortPub, Win!JoinPub,
       Win!StopLife, Win!FailServices, Win!Exit, Win!StopServices, Win!AtStep, Win!ownVars,
       Win!pubVars
  <2> QED BY <2>1, <2>2, <2>3, <2>4 DEF TasksAreJoined, Follows, PastJoins
<1>2. CASE Win!StopSharing \/ Win!StopWatching \/ Win!StopScan \/ Win!Shutdown \/ Win!ServiceEnds
  <2>1. UNCHANGED viewHandle /\ (Win!StopSharing => ~viewHandle)
    BY <1>2 DEF Win!StopSharing, Win!StopWatching, Win!StopScan, Win!Shutdown,
       Win!BeginStopScan, Win!ServiceEnds, Win!ownVars, Win!MediaStops, HandlesAreShown
  <2>2. WinNow' = "cancelView" \/ (WinNow' = "abortPub" /\ Win!StopSharing)
    BY <1>2, HandlerBegins
  <2> QED BY <2>1, <2>2 DEF TasksAreJoined, PastJoins
<1>3. CASE /\ UNCHANGED winTodo
           /\ (viewHandle' => viewHandle) /\ (pubHandle' => pubHandle)
  BY <1>3, WinHandlerGoesOn DEF TasksAreJoined
<1>4. CASE Win!Selecting /\ UNCHANGED winTodo
  BY <1>4, WinHandlerGoesOn DEF TasksAreJoined, PastJoins
<1>5. CASE Win!Command
  BY <1>2, <1>4, <1>5 DEF Win!Command, Win!StartScan, Win!ShareRefused, Win!ShareRejected,
     Win!ShareFinishes, Win!ShareScreen, Win!WatchRefused, Win!WatchScreen, Win!Unchanged
<1>6. CASE Win!Services
  BY <1>2, <1>4, <1>6 DEF Win!Services, Win!PollStart, Win!StartSucceeds, Win!StartFails,
     Win!loopVars
<1>7. CASE Win!Publisher \/ Win!Viewer \/ Win!Speaker
  BY <1>3, <1>7 DEF Win!Publisher, Win!PubEnds, Win!PubPanics, Win!PubAborted, Win!PubReports,
     Win!PubMoves, Win!Viewer, Win!ViewOpens, Win!ViewShows, Win!ViewReady, Win!ViewReopens,
     Win!ViewEnds, Win!ViewPanics, Win!ViewReports, Win!ViewCancelled, Win!ViewMoves,
     Win!Speaker, Win!SpeakerReports, Win!SpeakerEnds, Win!loopVars, Win!ownVars, Win!pubVars
<1>8. CASE Win!OnMediaEnded \/ Win!HandleView
  BY <1>4, <1>8 DEF Win!OnMediaEnded, Win!HandleView, Win!Unchanged
<1>9. CASE UNCHANGED Win!vars
  BY <1>3, <1>9 DEF Win!vars, Win!loopVars, Win!ownVars, Win!pubVars
<1> QED BY <1>1, <1>5, <1>6, <1>7, <1>8, <1>9 DEF Win!Next

\* The phases, the handles and the tasks change together.
LEMMA HandlesStayShown ==
  ASSUME Win!TypeOK, InOrder(winTodo), TasksAreJoined, HandlesAreShown, ServicesAreOwned,
         [Win!Next]_(Win!vars)
  PROVE  HandlesAreShown'
<1> USE DEF HandlesAreShown, Win!PubLive, Win!ViewLive
<1>1. CASE Win!Command
  <2> USE <1>1 DEF Win!Command, Win!StartScan, Win!StopScan, Win!Shutdown, Win!BeginStopScan,
          Win!ShareRefused, Win!Refused, Win!Unchanged, Win!StopSharing, Win!WatchRefused,
          Win!StopWatching, Win!lifeVars, Win!mediaVars, Win!pubVars, Win!viewVars, Win!ownVars,
          Win!outVars
  <2>1. CASE Win!ShareRejected
    BY <2>1 DEF Win!ShareRejected, Win!ShareFinishes, Win!Access, Win!MediaIdle
  <2>2. CASE Win!ShareScreen
    BY <2>2 DEF Win!ShareScreen, Win!ShareFinishes, Win!Access, Win!MediaIdle
  <2>3. CASE Win!WatchScreen
    BY <2>3 DEF Win!WatchScreen, Win!Access, Win!MediaIdle
  <2> QED BY <2>1, <2>2, <2>3
<1>2. CASE Win!Handler
  <2> USE <1>2 DEF Win!lifeVars, Win!mediaVars, Win!pubVars, Win!viewVars, Win!ownVars,
          Win!outVars
  <2>1. CASE Win!CancelView
    BY <2>1 DEF Win!CancelView, Win!ViewStops
  <2>2. CASE Win!JoinView
    BY <2>2 DEF Win!JoinView
  <2>3. CASE Win!AbortPub
    BY <2>3 DEF Win!AbortPub, Win!MediaStops
  <2>4. CASE Win!JoinPub
    BY <2>4 DEF Win!JoinPub, Win!PubExited
  <2>5. CASE Win!StopLife \/ Win!Exit
    BY <2>5 DEF Win!StopLife, Win!Exit
  <2>6. CASE Win!FailServices \/ \E clean \in BOOLEAN : Win!StopServices(clean)
    <3>1. Win!AtStep("failServices") \/ Win!AtStep("stopServices")
      BY <2>6 DEF Win!FailServices, Win!StopServices
    <3>2. ~viewHandle /\ ~pubHandle
      BY <3>1, WinHandlerGoesOn DEF TasksAreJoined, PastJoins, Win!Steps
    <3> QED BY <2>6, <3>2 DEF Win!FailServices, Win!StopServices
  <2> QED BY <2>1, <2>2, <2>3, <2>4, <2>5, <2>6 DEF Win!Handler
<1>3. CASE Win!Services
  <2>1. polled => starting # 0
    BY DEF ServicesAreOwned
  <2> QED BY <1>3, <2>1 DEF Win!Services, Win!PollStart, Win!StartSucceeds, Win!StartFails,
             Win!ServiceEnds, Win!lifeVars, Win!mediaVars, Win!pubVars, Win!viewVars,
             Win!ownVars, Win!outVars
<1>4. CASE Win!Publisher
  <2>1. PICK s \in {"running", "reporting"}, t \in {"reporting", "panicked", "done"} : Win!PubMoves(s, t)
    BY <1>4 DEF Win!Publisher, Win!PubEnds, Win!PubPanics, Win!PubAborted, Win!PubReports
  <2> QED BY <2>1 DEF Win!PubMoves, Win!lifeVars, Win!mediaVars, Win!viewVars, Win!ownVars,
             Win!outVars
<1>5. CASE Win!Viewer
  BY <1>5 DEF Win!Viewer, Win!ViewOpens, Win!ViewShows, Win!ViewReady, Win!ViewReopens,
     Win!ViewEnds, Win!ViewPanics, Win!ViewReports, Win!ViewCancelled, Win!ViewMoves,
     Win!ViewReport, Win!Quietly, Win!AtWork, Win!lifeVars, Win!mediaVars, Win!pubVars,
     Win!viewVars
<1>6. CASE Win!Speaker
  BY <1>6 DEF Win!Speaker, Win!SpeakerReports, Win!SpeakerEnds, Win!ViewReport, Win!lifeVars,
     Win!mediaVars, Win!pubVars, Win!viewVars, Win!ownVars
<1>7. CASE Win!OnMediaEnded
  BY <1>7 DEF Win!OnMediaEnded, Win!CurrentPub, Win!MediaStops, Win!Unchanged, Win!lifeVars,
     Win!viewVars, Win!ownVars, Win!outVars
<1>8. CASE Win!HandleView
  BY <1>8 DEF Win!HandleView, Win!OnDecoderReady, Win!OnViewEnded, Win!CurrentView,
     Win!ViewStops, Win!Unchanged, Win!lifeVars, Win!mediaVars, Win!pubVars, Win!ownVars
<1>9. CASE UNCHANGED Win!vars
  BY <1>9 DEF Win!vars, Win!lifeVars, Win!mediaVars, Win!pubVars, Win!viewVars, Win!ownVars,
     Win!outVars
<1> QED BY <1>1, <1>2, <1>3, <1>4, <1>5, <1>6, <1>7, <1>8, <1>9 DEF Win!Next

\* Generations only rise, and a task runs on or is of a new one.
LEMMA RunsMove ==
  ASSUME Win!TypeOK, [Win!Next]_(Win!vars)
  PROVE  /\ mediaGen' \in {mediaGen, mediaGen + 1} /\ viewGen' \in {viewGen, viewGen + 1}
         /\ Win!PubLive' => (Win!PubLive /\ UNCHANGED pubRun) \/ pubRun' = mediaGen + 1
         /\ Win!ViewLive' => (Win!ViewLive /\ UNCHANGED viewRun) \/ viewRun' = viewGen + 1
<1> USE DEF Win!PubLive, Win!ViewLive
<1>1. CASE Win!Command
  BY <1>1 DEF Win!Command, Win!StartScan, Win!StopScan, Win!Shutdown, Win!BeginStopScan,
     Win!ShareRefused, Win!Refused, Win!StopSharing, Win!WatchRefused, Win!StopWatching,
     Win!ShareRejected, Win!ShareScreen, Win!ShareFinishes, Win!WatchScreen, Win!mediaVars,
     Win!pubVars, Win!viewVars, Win!ownVars
<1>2. CASE Win!Handler
  BY <1>2 DEF Win!Handler, Win!CancelView, Win!JoinView, Win!AbortPub, Win!JoinPub,
     Win!StopLife, Win!FailServices, Win!Exit, Win!StopServices, Win!mediaVars, Win!pubVars,
     Win!viewVars, Win!ownVars
<1>3. CASE Win!Services
  BY <1>3 DEF Win!Services, Win!PollStart, Win!StartSucceeds, Win!StartFails, Win!ServiceEnds,
     Win!mediaVars, Win!pubVars, Win!viewVars, Win!ownVars
<1>4. CASE Win!Publisher
  <2>1. PICK s \in {"running", "reporting"}, t \in {"reporting", "panicked", "done"} : Win!PubMoves(s, t)
    BY <1>4 DEF Win!Publisher, Win!PubEnds, Win!PubPanics, Win!PubAborted, Win!PubReports
  <2> QED BY <2>1 DEF Win!PubMoves, Win!mediaVars, Win!viewVars, Win!ownVars
<1>5. CASE Win!Viewer
  <2>1. UNCHANGED <<Win!mediaVars, Win!pubVars, Win!viewVars, viewRun>> /\ Win!ViewLive
    BY Zenon, <1>5 DEF Win!Viewer, Win!ViewOpens, Win!ViewShows, Win!ViewReady, Win!ViewReopens,
       Win!ViewEnds, Win!ViewPanics, Win!ViewReports, Win!ViewCancelled, Win!ViewMoves,
       Win!AtWork
  <2> QED BY <2>1 DEF Win!mediaVars, Win!pubVars, Win!viewVars
<1>6. CASE Win!Speaker
  BY <1>6 DEF Win!Speaker, Win!SpeakerReports, Win!SpeakerEnds, Win!mediaVars, Win!pubVars,
     Win!viewVars, Win!ownVars
<1>7. CASE Win!OnMediaEnded
  BY <1>7 DEF Win!OnMediaEnded, Win!viewVars, Win!ownVars
<1>8. CASE Win!HandleView
  BY <1>8 DEF Win!HandleView, Win!OnDecoderReady, Win!OnViewEnded, Win!mediaVars, Win!pubVars,
     Win!ownVars
<1>9. CASE UNCHANGED Win!vars
  BY <1>9 DEF Win!vars, Win!mediaVars, Win!pubVars, Win!viewVars, Win!ownVars
<1> QED BY <1>1, <1>2, <1>3, <1>4, <1>5, <1>6, <1>7, <1>8, <1>9 DEF Win!Next

\* A new task is of a later generation than every report in the queues.
LEMMA WinReportsStayOfTasks ==
  ASSUME Win!TypeOK, HandlesAreShown, WinReportsAreOfTasks, [Win!Next]_(Win!vars)
  PROVE  WinReportsAreOfTasks'
<1>0. /\ mediaGen \in Nat /\ pubRun \in Nat /\ viewGen \in Nat /\ viewRun \in Nat
      /\ \A i \in 1 .. Len(mediaQ) : mediaQ[i].gen \in Nat
      /\ \A i \in 1 .. Len(viewQ) : viewQ[i].gen \in Nat
      /\ mediaQ \in Seq(Win!Outcomes) /\ viewQ \in Seq(Win!ViewEvents)
      /\ \A g \in speakers : g \in Nat
  <2>1. mediaQ \in Seq(Win!Outcomes) /\ viewQ \in Seq(Win!ViewEvents)
    BY DEF Win!TypeOK, Win!Queues
  <2>2. /\ \A i \in 1 .. Len(mediaQ) : mediaQ[i] \in Win!Outcomes
        /\ \A i \in 1 .. Len(viewQ) : viewQ[i] \in Win!ViewEvents
    BY <2>1, PlacesAreTyped
  <2>3. /\ mediaGen \in Nat /\ pubRun \in Nat /\ viewGen \in Nat /\ viewRun \in Nat
        /\ \A g \in speakers : g \in Nat
    BY DEF Win!TypeOK, Win!PubGenerations, Win!ViewGenerations, Win!Openings
  <2>4. (\A e \in Win!Outcomes : e.gen \in Nat) /\ (\A e \in Win!ViewEvents : e.gen \in Nat)
    BY DEF Win!Outcomes, Win!ViewEvents
  <2> QED BY <2>1, <2>2, <2>3, <2>4
<1>1. /\ mediaGen' \in {mediaGen, mediaGen + 1} /\ viewGen' \in {viewGen, viewGen + 1}
      /\ Win!PubLive' => (Win!PubLive /\ UNCHANGED pubRun) \/ pubRun' = mediaGen + 1
      /\ Win!ViewLive' => (Win!ViewLive /\ UNCHANGED viewRun) \/ viewRun' = viewGen + 1
  BY RunsMove
<1>2. /\ \A i \in 1 .. Len(mediaQ) :
           mediaQ[i].gen <= mediaGen' /\ (Win!PubLive' => mediaQ[i].gen # pubRun')
      /\ \A i \in 1 .. Len(viewQ) :
           /\ viewQ[i].gen <= viewGen'
           /\ Win!ViewLive' /\ viewQ[i].type = "Ended" => viewQ[i].gen # viewRun'
  BY <1>0, <1>1 DEF WinReportsAreOfTasks
<1>3. \A i \in 1 .. Len(mediaQ') :
        (mediaQ')[i].gen <= mediaGen' /\ (Win!PubLive' => (mediaQ')[i].gen # pubRun')
  <2>1. CASE UNCHANGED mediaQ
    BY <1>2, <2>1
  <2>2. CASE Win!OnMediaEnded
    <3>1. mediaQ # <<>> /\ mediaQ' = Tail(mediaQ)
      BY <2>2 DEF Win!OnMediaEnded
    <3>2. \A i \in 1 .. Len(mediaQ') : (mediaQ')[i] = mediaQ[i + 1] /\ i + 1 \in 1 .. Len(mediaQ)
      BY <1>0, <3>1, TailShifts
    <3> QED BY <1>2, <3>2
  <2>3. CASE \E ok \in BOOLEAN : Win!PubReports(ok)
    <3>1. PICK ok \in BOOLEAN : Win!PubReports(ok)
      BY <2>3
    <3> DEFINE e == [gen |-> pubRun, ok |-> ok]
    <3>2. mediaQ' = Append(mediaQ, e) /\ e.gen = pubRun /\ e \in Win!Outcomes
      BY <1>0, <3>1 DEF Win!PubReports, Win!Outcomes
    <3>3. ~Win!PubLive' /\ pubRun = mediaGen /\ UNCHANGED mediaGen
      BY <3>1 DEF Win!PubReports, Win!PubMoves, Win!PubLive, HandlesAreShown, Win!mediaVars
    <3> HIDE DEF e
    <3>4. \A i \in 1 .. Len(mediaQ') :
            (mediaQ')[i] = e \/ (i \in 1 .. Len(mediaQ) /\ (mediaQ')[i] = mediaQ[i])
      BY <1>0, <3>2, AppendAdds
    <3> QED BY <1>0, <1>2, <3>2, <3>3, <3>4
  <2> QED BY <2>1, <2>2, <2>3, WinQueuesMove
<1>4. \A i \in 1 .. Len(viewQ') :
        /\ (viewQ')[i].gen <= viewGen'
        /\ Win!ViewLive' /\ (viewQ')[i].type = "Ended" => (viewQ')[i].gen # viewRun'
  <2>1. CASE UNCHANGED viewQ
    BY <1>2, <2>1
  <2>2. CASE Win!HandleView
    <3>1. viewQ # <<>> /\ viewQ' = Tail(viewQ)
      BY <2>2 DEF Win!HandleView
    <3>2. \A i \in 1 .. Len(viewQ') : (viewQ')[i] = viewQ[i + 1] /\ i + 1 \in 1 .. Len(viewQ)
      BY <1>0, <3>1, TailShifts
    <3> QED BY <1>2, <3>2
  <2>3. ASSUME NEW e \in Win!ViewEvents, Win!ViewReport(e), e.gen <= viewGen, UNCHANGED viewGen,
               e.type = "Ended" => ~Win!ViewLive'
        PROVE  \A i \in 1 .. Len(viewQ') :
                 /\ (viewQ')[i].gen <= viewGen'
                 /\ Win!ViewLive' /\ (viewQ')[i].type = "Ended" => (viewQ')[i].gen # viewRun'
    <3>1. viewQ' = Append(viewQ, e)
      BY <2>3 DEF Win!ViewReport
    <3>2. \A i \in 1 .. Len(viewQ') :
            (viewQ')[i] = e \/ (i \in 1 .. Len(viewQ) /\ (viewQ')[i] = viewQ[i])
      BY <1>0, <3>1, AppendAdds
    <3> QED BY <1>2, <2>3, <3>2
  <2>4. CASE Win!ViewReady \/ Win!ViewReports
    <3>1. UNCHANGED viewGen /\ viewRun = viewGen
      BY <2>4 DEF Win!ViewReady, Win!ViewReports, Win!ViewMoves, Win!viewVars, HandlesAreShown
    <3> DEFINE r == [type |-> "DecoderReady", gen |-> viewRun]
               d == [type |-> "Ended", gen |-> viewRun]
    <3>2. /\ r \in Win!ViewEvents /\ r.gen = viewRun /\ r.type # "Ended"
          /\ d \in Win!ViewEvents /\ d.gen = viewRun
      BY <1>0 DEF Win!ViewEvents
    <3>3. Win!ViewReport(r) \/ (Win!ViewReport(d) /\ ~Win!ViewLive')
      BY <2>4 DEF Win!ViewReady, Win!ViewReports, Win!ViewMoves, Win!ViewLive
    <3> HIDE DEF r, d
    <3> QED BY <1>0, <2>3, <3>1, <3>2, <3>3
  <2>5. CASE \E g \in speakers : Win!SpeakerReports(g)
    <3>1. PICK g \in speakers : Win!SpeakerReports(g)
      BY <2>5
    <3> DEFINE a == [type |-> "AudioChanged", gen |-> g]
    <3>2. a \in Win!ViewEvents /\ a.gen = g /\ a.type # "Ended"
      BY <1>0 DEF Win!ViewEvents
    <3>3. Win!ViewReport(a) /\ UNCHANGED viewGen /\ g <= viewGen
      BY <3>1 DEF Win!SpeakerReports, Win!viewVars, WinReportsAreOfTasks
    <3> HIDE DEF a
    <3> QED BY <2>3, <3>2, <3>3
  <2> QED BY <2>1, <2>2, <2>4, <2>5, WinQueuesMove
<1>5. \A g \in speakers' : g <= viewGen'
  <2>1. speakers' \subseteq speakers \cup {viewGen}
    <3>1. CASE Win!ViewOpens
      BY <3>1 DEF Win!ViewOpens, HandlesAreShown
    <3>2. CASE Win!Speaker
      BY <3>2 DEF Win!Speaker, Win!SpeakerReports, Win!SpeakerEnds, Win!ViewReport
    <3>3. CASE UNCHANGED speakers
      BY <3>3
    <3>4. CASE Win!Command
      BY <3>3, <3>4 DEF Win!Command, Win!StartScan, Win!StopScan, Win!Shutdown,
         Win!BeginStopScan, Win!ShareRefused, Win!Refused, Win!StopSharing, Win!WatchRefused,
         Win!StopWatching, Win!ShareRejected, Win!ShareScreen, Win!ShareFinishes,
         Win!WatchScreen, Win!outVars
    <3>5. CASE Win!Handler
      BY <3>3, <3>5 DEF Win!Handler, Win!CancelView, Win!JoinView, Win!AbortPub, Win!JoinPub,
         Win!StopLife, Win!FailServices, Win!Exit, Win!StopServices, Win!outVars
    <3>6. CASE Win!Services \/ Win!OnMediaEnded \/ Win!HandleView \/ UNCHANGED Win!vars
      BY <3>3, <3>6 DEF Win!Services, Win!PollStart, Win!StartSucceeds, Win!StartFails,
         Win!ServiceEnds, Win!OnMediaEnded, Win!HandleView, Win!outVars, Win!vars
    <3>7. CASE Win!Publisher
      BY <3>3, <3>7 DEF Win!Publisher, Win!PubEnds, Win!PubPanics, Win!PubAborted,
         Win!PubReports, Win!PubMoves, Win!outVars
    <3>8. CASE Win!Viewer
      BY <3>1, <3>3, <3>8 DEF Win!Viewer, Win!ViewShows, Win!ViewReady, Win!ViewReopens,
         Win!ViewEnds, Win!ViewPanics, Win!ViewReports, Win!ViewCancelled, Win!ViewReport,
         Win!Quietly
    <3> QED BY <3>2, <3>4, <3>5, <3>6, <3>7, <3>8 DEF Win!Next
  <2> QED BY <1>0, <1>1, <2>1 DEF WinReportsAreOfTasks
<1> QED BY <1>3, <1>4, <1>5 DEF WinReportsAreOfTasks

\* A failure of the services and the exit are the last steps of their handlers.
LEMMA LastStep ==
  ASSUME NEW q \in Seq(Win!Steps), q # <<>>, InOrder(q), Head(q) \in {"failServices", "exit"}
  PROVE  Tail(q) = <<>> /\ (Head(q) = "failServices" => FailsAtEnd(q))
<1>1. Len(q) \in Nat /\ Head(q) = q[1] /\ 1 \in 1 .. Len(q) /\ Tail(q) \in Seq(Win!Steps)
      /\ Len(Tail(q)) = Len(q) - 1
  BY TailShifts
<1>2. Follows(q[1], StepAt(q, 2))
  <2>1. 1 + 1 = 2
    OBVIOUS
  <2> QED BY <1>1, <2>1 DEF InOrder
<1>3. StepAt(q, 2) = "none"
  BY <1>1, <1>2 DEF Follows
<1>4. Len(q) = 1
  <2>1. ASSUME 2 \in 1 .. Len(q) PROVE FALSE
    <3>1. q[2] = "none" /\ q[2] \in Win!Steps
      BY <1>3, <2>1, PlacesAreTyped DEF StepAt
    <3> QED BY <3>1 DEF Win!Steps
  <2> QED BY <1>1, <2>1
<1>5. Tail(q) = <<>>
  <2> DEFINE r == Tail(q)
  <2>1. r \in Seq(Win!Steps) /\ Len(r) = 0
    BY <1>1, <1>4
  <2> HIDE DEF r
  <2>2. r = <<>>
    BY <2>1
  <2> QED BY <2>2 DEF r
<1> QED BY <1>1, <1>4, <1>5 DEF FailsAtEnd

\* The steps that leave the services and the loop alone.
LEMMA ServicesUntouched ==
  ASSUME ServicesAreOwned, UNCHANGED <<running, disc, localId, Win!lifeVars>>,
         \/ UNCHANGED <<WinNow, FailsAtEnd(winTodo), winTodo>>
         \/ /\ running /\ WinNow # "stopServices" /\ WinNow' \notin {"stopServices", "exit"}
            /\ FailsAtEnd(winTodo') => FailsAtEnd(winTodo)
  PROVE  ServicesAreOwned'
BY DEF ServicesAreOwned, Win!lifeVars

\* The services come and go as their generations say.
LEMMA ServicesStayOwned ==
  ASSUME Win!TypeOK, InOrder(winTodo), ServicesAreOwned, [Win!Next]_(Win!vars)
  PROVE  ServicesAreOwned'
<1>0. /\ lifeGen \in Nat /\ starting \in Nat /\ winServices \in Nat /\ winTodo \in Seq(Win!Steps)
  BY DEF Win!TypeOK, Win!LanGenerations, Win!Queues
<1>1. Win!Selecting => WinNow = "none" /\ ~FailsAtEnd(winTodo) /\ running
  BY WinHandlerGoesOn DEF Win!Selecting
<1>2. UNCHANGED winTodo => UNCHANGED WinNow /\ UNCHANGED FailsAtEnd(winTodo)
  BY WinHandlerGoesOn
<1>3. CASE UNCHANGED <<winTodo, running, Win!scanVars, Win!lifeVars>>
  BY <1>2, <1>3, ServicesUntouched DEF Win!scanVars
<1>4. CASE Win!Command
  <2>1. CASE Win!StartScan
    <3>1. winServices = 0 /\ starting = 0
      BY <1>1, <2>1 DEF Win!StartScan, ServicesAreOwned
    <3>2. \A g : g \notin open
      BY <3>1 DEF ServicesAreOwned
    <3> QED BY <1>0, <1>1, <1>2, <2>1, <3>1, <3>2 DEF Win!StartScan, ServicesAreOwned
  <2>2. CASE Win!StopScan \/ Win!Shutdown
    <3>1. WinNow' = "cancelView" /\ ~FailsAtEnd(winTodo')
      BY <2>2, HandlersAreInOrder DEF Win!StopScan, Win!Shutdown, Win!BeginStopScan, WinNow
    <3> QED BY <1>1, <2>2, <3>1 DEF Win!StopScan, Win!Shutdown, Win!BeginStopScan, Win!IsActive,
               Win!lifeVars, ServicesAreOwned
  <2>3. CASE Win!StopSharing \/ Win!StopWatching
    <3>1. WinNow' \in {"cancelView", "abortPub"} /\ ~FailsAtEnd(winTodo')
      BY <2>3, HandlersAreInOrder DEF Win!StopSharing, Win!StopWatching, WinNow
    <3> QED BY <1>1, <2>3, <3>1, ServicesUntouched DEF Win!StopSharing, Win!StopWatching,
               Win!Selecting, Win!scanVars
  <2> QED BY <1>3, <1>4, <2>1, <2>2, <2>3 DEF Win!Command, Win!ShareRefused, Win!Unchanged,
             Win!ShareRejected, Win!ShareFinishes, Win!ShareScreen, Win!WatchRefused,
             Win!WatchScreen
<1>5. CASE Win!Handler
  <2>1. /\ WinNow = Head(winTodo) /\ Follows(WinNow, WinNow')
        /\ winTodo # <<>> /\ winTodo' = Tail(winTodo)
        /\ FailsAtEnd(winTodo') => FailsAtEnd(winTodo)
    BY <1>5, WinHandlerGoesOn DEF Win!Handler, Win!CancelView, Win!JoinView, Win!AbortPub,
       Win!JoinPub, Win!StopLife, Win!FailServices, Win!Exit, Win!StopServices, Win!AtStep,
       Win!NextStep
  <2>2. running
    BY <2>1 DEF ServicesAreOwned
  <2>3. CASE Win!CancelView \/ Win!JoinView \/ Win!AbortPub \/ Win!JoinPub
    <3>1. WinNow # "stopServices" /\ WinNow' \notin {"stopServices", "exit"}
      BY <2>1, <2>3 DEF Win!CancelView, Win!JoinView, Win!AbortPub, Win!JoinPub, Win!AtStep,
         Follows
    <3> QED BY <2>1, <2>2, <2>3, <3>1, ServicesUntouched DEF Win!CancelView, Win!JoinView,
               Win!AbortPub, Win!JoinPub, Win!scanVars
  <2>4. CASE Win!StopLife
    <3>1. WinNow' = "stopServices"
      BY <2>1, <2>4 DEF Win!StopLife, Win!AtStep, Follows
    <3>2. /\ lifeGen' = lifeGen + 1 /\ ~lifeActive'
          /\ UNCHANGED <<running, disc, localId, winServices, open>>
          /\ polled => starting' = starting /\ polled'
          /\ ~polled => starting' = 0 /\ ~polled'
      BY <2>4 DEF Win!StopLife, Win!StartAwaited, Win!scanVars, ServicesAreOwned
    <3> QED BY <1>0, <2>1, <2>2, <3>1, <3>2 DEF ServicesAreOwned
  <2>5. CASE Win!FailServices
    <3>1. starting = 0 /\ WinNow' = "none" /\ ~FailsAtEnd(winTodo')
      BY <1>0, <2>1, <2>5, LastStep DEF Win!FailServices, Win!AtStep, ServicesAreOwned, Follows,
         FailsAtEnd
    <3>2. \A g : g \notin open'
      BY <2>5, <3>1 DEF Win!FailServices, ServicesAreOwned
    <3> QED BY <1>0, <2>2, <2>5, <3>1, <3>2 DEF Win!FailServices, Win!ScanEnds, ServicesAreOwned
  <2>6. CASE \E clean \in BOOLEAN : Win!StopServices(clean)
    <3>1. ~lifeActive
      BY <2>1, <2>6 DEF Win!StopServices, Win!AtStep, ServicesAreOwned
    <3>2. \A g : g \notin open'
      BY <2>6 DEF Win!StopServices, ServicesAreOwned
    <3> QED BY <1>0, <2>2, <2>6, <3>1, <3>2 DEF Win!StopServices, Win!ScanEnds, ServicesAreOwned
  <2>7. CASE Win!Exit
    <3>1. ~lifeActive /\ winServices = 0 /\ starting = 0 /\ winTodo' = <<>> /\ WinNow' = "none"
      BY <1>0, <2>1, <2>7, LastStep DEF Win!Exit, Win!AtStep, ServicesAreOwned, Follows
    <3> QED BY <2>7, <3>1 DEF Win!Exit, Win!ScanEnds, Win!lifeVars, ServicesAreOwned, FailsAtEnd
  <2> QED BY <1>5, <2>3, <2>4, <2>5, <2>6, <2>7 DEF Win!Handler
<1>6. CASE Win!Services
  <2>1. CASE Win!PollStart
    BY <1>0, <1>1, <1>2, <2>1 DEF Win!PollStart, Win!loopVars, Win!scanVars, ServicesAreOwned
  <2>2. CASE Win!StartSucceeds
    BY <1>0, <1>1, <1>2, <2>2 DEF Win!StartSucceeds, Win!Accepts, ServicesAreOwned
  <2>3. CASE Win!StartFails
    BY <1>0, <1>1, <1>2, <2>3 DEF Win!StartFails, Win!ScanEnds, ServicesAreOwned
  <2>4. CASE Win!ServiceEnds
    <3>1. WinNow' = "cancelView"
      BY <2>4, HandlersAreInOrder DEF Win!ServiceEnds, WinNow
    <3> QED BY <1>1, <2>4, <3>1 DEF Win!ServiceEnds, Win!scanVars, Win!lifeVars,
               ServicesAreOwned
  <2> QED BY <1>6, <2>1, <2>2, <2>3, <2>4 DEF Win!Services
<1>7. CASE \/ Win!Publisher \/ Win!Viewer \/ Win!Speaker
           \/ Win!OnMediaEnded \/ Win!HandleView \/ UNCHANGED Win!vars
  BY <1>3, <1>7 DEF Win!Publisher, Win!PubEnds, Win!PubPanics, Win!PubAborted, Win!PubReports,
     Win!PubMoves, Win!Viewer, Win!ViewOpens, Win!ViewShows, Win!ViewReady, Win!ViewReopens,
     Win!ViewEnds, Win!ViewPanics, Win!ViewReports, Win!ViewCancelled, Win!ViewMoves,
     Win!Speaker, Win!SpeakerReports, Win!SpeakerEnds, Win!OnMediaEnded, Win!HandleView,
     Win!Unchanged, Win!vars, Win!loopVars
<1> QED BY <1>4, <1>5, <1>6, <1>7 DEF Win!Next

\* Every step keeps the invariant.
LEMMA WindowsKeeps ==
  ASSUME Win!WindowsAssumption, WindowsInvariant, [Win!Next]_(Win!vars)
  PROVE  WindowsInvariant'
<1>1. /\ Win!TypeOK /\ InOrder(winTodo) /\ TasksAreJoined /\ HandlesAreShown
      /\ WinReportsAreOfTasks /\ ServicesAreOwned
  BY DEF WindowsInvariant
<1>2. Win!TypeOK'
  BY <1>1, WindowsTypes, WindowsQueues DEF Win!TypeOK
<1>3. InOrder(winTodo)' /\ TasksAreJoined' /\ HandlesAreShown'
  BY <1>1, HandlerMoves, TasksStayJoined, HandlesStayShown
<1>4. WinReportsAreOfTasks' /\ ServicesAreOwned'
  BY <1>1, WinReportsStayOfTasks, ServicesStayOwned
<1> QED BY <1>2, <1>3, <1>4 DEF WindowsInvariant

\* What the invariant says of the owners and of what is open.
LEMMA WindowsIsOwned ==
  ASSUME WindowsInvariant
  PROVE  Win!WindowsOwners /\ Win!NothingLeftOpen
<1>1. Win!TypeOK /\ HandlesAreShown /\ ServicesAreOwned
  BY DEF WindowsInvariant
<1>2. Win!TasksAreShown /\ Win!FrameIsCurrent
  BY <1>1 DEF HandlesAreShown, ServicesAreOwned, Win!TasksAreShown, Win!FrameIsCurrent
<1>3. winTodo = <<>> => WinNow = "none"
  BY DEF WinNow, StepAt
<1>4. winServices = 0 /\ starting = 0 => open = {} /\ ~pubHandle /\ ~viewHandle
  BY <1>1 DEF HandlesAreShown, ServicesAreOwned
<1>5. open \subseteq {winServices, starting}
  BY <1>1 DEF ServicesAreOwned
<1>6. winServices = 0 \/ starting = 0
  BY <1>1 DEF ServicesAreOwned
<1>7. ~lifeActive /\ winTodo = <<>> => winServices = 0 /\ starting = 0
  BY <1>1, <1>3 DEF ServicesAreOwned
<1>8. disc = "Stopped" \/ ~running =>
        open = {} /\ winServices = 0 /\ starting = 0 /\ ~Win!PubLive /\ ~Win!ViewLive
         /\ winFrame = 0
  BY <1>1, <1>4 DEF ServicesAreOwned, HandlesAreShown
<1>9. Win!NothingLeftOpen
  BY <1>5, <1>6, <1>7, <1>8 DEF Win!NothingLeftOpen
<1> QED BY <1>1, <1>2, <1>9 DEF Win!WindowsOwners

-----------------------------------------------------------------------------
(* The media of Windows is a lease.                                        *)

Holder  == IF winMedia \in {"Sharing", "Stopping"} THEN "publication"
           ELSE IF view \in {"Preparing", "Viewing", "Stopping"} THEN "playback"
           ELSE "nobody"
Working == Win!PubLive \/ Win!ViewLive
Closing == winMedia = "Stopping" \/ view = "Stopping"

\* How a step looks to the lease.
Keeps  == Holder' = Holder /\ (Working' <=> Working) /\ (Closing' <=> Closing)
Takes  == Holder = "nobody" /\ Holder' \in {"publication", "playback"} /\ Working' /\ ~Closing'
Closes == Holder # "nobody" /\ Holder' = Holder /\ ~Closing /\ Closing' /\ (Working' <=> Working)
Ends   == Working /\ ~Working' /\ Holder' = Holder /\ (Closing' <=> Closing)
Frees  == Holder # "nobody" /\ Holder' = "nobody" /\ ~Working /\ ~Working' /\ ~Closing'

\* Each of these is a step of the lease or leaves it alone.
LEMMA LeaseViews ==
  ASSUME Keeps \/ Takes \/ Closes \/ Ends \/ Frees
  PROVE  [Win!Lease!LeaseNext]_(Win!Lease!leaseVars)
<1> USE DEF Holder, Working, Win!PubLive, Win!ViewLive, Closing
<1>1. CASE Keeps
  BY <1>1 DEF Keeps, Win!Lease!leaseVars
<1>2. CASE Takes
  <2>1. Win!Lease!Acquire(Holder')
    BY <1>2 DEF Takes, Win!Lease!Acquire
  <2>2. Holder' \in Win!Lease!Activities
    BY <1>2 DEF Takes, Win!Lease!Activities
  <2> QED BY <2>1, <2>2 DEF Win!Lease!LeaseNext
<1>3. CASE Closes
  BY <1>3 DEF Closes, Win!Lease!Close, Win!Lease!LeaseNext
<1>4. CASE Ends
  BY <1>4 DEF Ends, Win!Lease!WorkEnds, Win!Lease!LeaseNext
<1>5. CASE Frees
  BY <1>5 DEF Frees, Win!Lease!Release, Win!Lease!LeaseNext
<1> QED BY <1>1, <1>2, <1>3, <1>4, <1>5

\* Every step is one of these: what is freed had its task joined, or had it
\* report its end.
LEMMA LeaseStep ==
  ASSUME WindowsInvariant, [Win!Next]_(Win!vars)
  PROVE  Keeps \/ Takes \/ Closes \/ Ends \/ Frees
<1>1. /\ HandlesAreShown /\ WinReportsAreOfTasks
      /\ winMedia \in Win!MediaPhases /\ view \in Win!ViewPhases
  BY DEF WindowsInvariant, Win!TypeOK, Win!Phases
<1>2. CASE UNCHANGED <<winMedia, view, pubTask, viewTask>>
  BY <1>2 DEF Keeps, Holder, Working, Win!PubLive, Win!ViewLive, Closing
<1> USE <1>1 DEF Holder, Working, Closing, Win!PubLive, Win!ViewLive, HandlesAreShown,
        Win!MediaPhases, Win!ViewPhases
<1>3. CASE Win!Command
  <2>1. CASE Win!ShareRejected
    BY <2>1 DEF Win!ShareRejected, Win!ShareFinishes, Win!Access, Win!MediaIdle, Win!viewVars,
       Win!ownVars, Win!pubVars, Keeps
  <2>2. CASE Win!ShareScreen
    BY <2>2 DEF Win!ShareScreen, Win!ShareFinishes, Win!Access, Win!MediaIdle, Win!viewVars,
       Win!ownVars, Takes
  <2>3. CASE Win!WatchScreen
    BY <2>3 DEF Win!WatchScreen, Win!Access, Win!MediaIdle, Win!mediaVars, Win!pubVars, Takes
  <2> QED BY <1>2, <1>3, <2>1, <2>2, <2>3 DEF Win!Command, Win!StartScan, Win!StopScan,
             Win!Shutdown, Win!BeginStopScan, Win!ShareRefused, Win!Refused, Win!StopSharing,
             Win!WatchRefused, Win!StopWatching, Win!mediaVars, Win!pubVars, Win!viewVars,
             Win!ownVars
<1>4. CASE Win!Handler
  <2>1. CASE Win!CancelView
    BY <2>1 DEF Win!CancelView, Win!ViewStops, Win!mediaVars, Win!pubVars, Keeps, Closes
  <2>2. CASE Win!JoinView
    BY <2>2 DEF Win!JoinView, Win!ViewExited, Win!mediaVars, Win!pubVars, Keeps, Frees
  <2>3. CASE Win!AbortPub
    BY <2>3 DEF Win!AbortPub, Win!MediaStops, Win!viewVars, Win!ownVars, Keeps, Closes
  <2>4. CASE Win!JoinPub
    BY <2>4 DEF Win!JoinPub, Win!PubExited, Win!viewVars, Win!ownVars, Keeps, Frees
  <2> QED BY <1>2, <1>4, <2>1, <2>2, <2>3, <2>4 DEF Win!Handler, Win!StopLife, Win!FailServices,
             Win!Exit, Win!StopServices, Win!mediaVars, Win!pubVars, Win!viewVars, Win!ownVars
<1>5. CASE Win!Services \/ Win!Speaker \/ UNCHANGED Win!vars
  BY <1>2, <1>5 DEF Win!Services, Win!PollStart, Win!StartSucceeds, Win!StartFails,
     Win!ServiceEnds, Win!Speaker, Win!SpeakerReports, Win!SpeakerEnds, Win!vars, Win!mediaVars,
     Win!pubVars, Win!viewVars, Win!ownVars
<1>6. CASE Win!Publisher
  <2>1. PICK s \in {"running", "reporting"}, t \in {"reporting", "panicked", "done"} : Win!PubMoves(s, t)
    BY <1>6 DEF Win!Publisher, Win!PubEnds, Win!PubPanics, Win!PubAborted, Win!PubReports
  <2> QED BY <2>1 DEF Win!PubMoves, Win!mediaVars, Win!viewVars, Win!ownVars, Keeps, Ends
<1>7. CASE Win!Viewer
  <2>1. UNCHANGED <<Win!mediaVars, Win!pubVars, Win!viewVars>> /\ Win!ViewLive
    BY Zenon, <1>7 DEF Win!Viewer, Win!ViewOpens, Win!ViewShows, Win!ViewReady, Win!ViewReopens,
       Win!ViewEnds, Win!ViewPanics, Win!ViewReports, Win!ViewCancelled, Win!ViewMoves,
       Win!AtWork
  <2> QED BY <2>1 DEF Win!mediaVars, Win!pubVars, Win!viewVars, Keeps, Ends
<1>8. CASE Win!OnMediaEnded
  <2>1. Win!CurrentPub(Head(mediaQ)) /\ pubTask \in {"running", "reporting"} => FALSE
    <3>1. mediaQ \in Seq(Win!Outcomes) /\ mediaQ # <<>>
      BY <1>8 DEF Win!OnMediaEnded, WindowsInvariant, Win!TypeOK, Win!Queues
    <3>2. Head(mediaQ) = mediaQ[1] /\ 1 \in 1 .. Len(mediaQ)
      BY <3>1, TailShifts
    <3> QED BY <3>2 DEF WinReportsAreOfTasks, Win!CurrentPub
  <2> QED BY <1>8, <2>1 DEF Win!OnMediaEnded, Win!CurrentPub, Win!MediaStops, Win!viewVars,
             Win!ownVars, Keeps, Frees
<1>9. CASE Win!HandleView
  <2>1. CASE Win!OnDecoderReady(Head(viewQ))
    BY <1>9, <2>1 DEF Win!HandleView, Win!OnDecoderReady, Win!ViewStops, Win!mediaVars,
       Win!pubVars, Win!ownVars, Keeps
  <2>2. ASSUME NEW ok \in BOOLEAN, Win!OnViewEnded(Head(viewQ), ok)
        PROVE  Keeps \/ Frees
    <3>1. viewQ \in Seq(Win!ViewEvents) /\ viewQ # <<>>
      BY <1>9 DEF Win!HandleView, WindowsInvariant, Win!TypeOK, Win!Queues
    <3>2. Head(viewQ) = viewQ[1] /\ 1 \in 1 .. Len(viewQ)
      BY <3>1, TailShifts
    <3>3. Head(viewQ).type = "Ended"
      BY <2>2 DEF Win!OnViewEnded
    <3>4. Win!CurrentView(Head(viewQ)) =>
            viewTask \notin {"opening", "decoding", "firstFrame", "playing", "reporting"}
      BY <3>2, <3>3 DEF WinReportsAreOfTasks, Win!CurrentView
    <3> QED BY <1>9, <2>2, <3>4 DEF Win!HandleView, Win!OnViewEnded, Win!CurrentView,
               Win!ViewStops, Win!mediaVars, Win!pubVars, Win!ownVars, Keeps, Frees
  <2> QED BY <1>9, <2>1, <2>2 DEF Win!HandleView
<1> QED BY <1>3, <1>4, <1>5, <1>6, <1>7, <1>8, <1>9 DEF Win!Next

\* The invariant holds in every state the Windows runtime reaches.
THEOREM WindowsInvariantHolds ==
  ASSUME Win!WindowsAssumption
  PROVE  Win!Spec => []WindowsInvariant
<1>1. Win!Init => WindowsInvariant
  BY WindowsInit
<1>2. WindowsInvariant /\ [Win!Next]_(Win!vars) => WindowsInvariant'
  BY WindowsKeeps
<1> QED BY <1>1, <1>2, PTL DEF Win!Spec

-----------------------------------------------------------------------------
(* The composition: the build that runs takes its own steps, and what the  *)
(* other holds stays as it started.                                        *)

\* Every step of the composition is a step of each build, or leaves it alone.
LEMMA StepsOfBuilds ==
  ASSUME [AnyNext]_<<build, winVars, vars>>
  PROVE  [Win!Next]_(Win!vars) /\ [Next]_vars
<1>1. UNCHANGED winVars => UNCHANGED Win!vars
  BY DEF winVars, Win!vars, Win!loopVars, Win!scanVars, Win!lifeVars, Win!mediaVars,
     Win!pubVars, Win!viewVars, Win!ownVars, Win!outVars
<1>2. CASE Win!Next /\ UNCHANGED <<build, vars>>
  BY <1>2
<1>3. CASE Next /\ UNCHANGED <<build, winVars>>
  BY <1>1, <1>3
<1>4. CASE UNCHANGED <<build, winVars, vars>>
  BY <1>1, <1>4
<1> QED BY <1>2, <1>3, <1>4 DEF AnyNext

AnyInvariant == WindowsInvariant /\ MacInvariant

\* The invariants of the two hold together.
LEMMA AnyInvariantHolds == AnySpec => []AnyInvariant
<1>1. Win!WindowsAssumption /\ MacAssumption
  BY RuntimesAssumption
<1>2. AnyInit => AnyInvariant
  BY <1>1, WindowsInit, MacInit DEF AnyInit, AnyInvariant
<1>3. AnyInvariant /\ [AnyNext]_<<build, winVars, vars>> => AnyInvariant'
  <2> SUFFICES ASSUME AnyInvariant, [AnyNext]_<<build, winVars, vars>>
               PROVE  AnyInvariant'
    OBVIOUS
  <2>1. [Win!Next]_(Win!vars) /\ [Next]_vars
    BY StepsOfBuilds
  <2>2. WindowsInvariant'
    BY <1>1, <2>1, WindowsKeeps DEF AnyInvariant
  <2>3. MacInvariant'
    BY <1>1, <2>1, MacKeeps DEF AnyInvariant
  <2> QED BY <2>2, <2>3 DEF AnyInvariant
<1> QED BY <1>2, <1>3, PTL DEF AnySpec

\* Whichever build runs, one activity at a time has the media, with an owner that
\* joins it, and nothing is left of it where the network is down (OneOwner).
THEOREM OneOwnerAlways == AnySpec => []OneOwner
<1>1. AnyInvariant => OneOwner
  BY WindowsIsOwned, MacIsOwned DEF AnyInvariant, OneOwner
<1> QED BY <1>1, AnyInvariantHolds, PTL

\* The network of macOS is up or off as the user last asked, however requests,
\* sleep, wake and failures interleave (NetworkFollowsRequests).
THEOREM NetworkAlwaysFollows == AnySpec => []NetworkFollowsRequests
<1>1. AnyInvariant => NetworkFollowsRequests
  BY MacIsOwned DEF AnyInvariant
<1> QED BY <1>1, AnyInvariantHolds, PTL

\* The media of the Windows runtime is one lease (MediaLease): the safety of
\* ImplementsLease.  A holder is joined, or has reported its end, before the media
\* is free for another.
THEOREM WindowsMediaIsALease ==
  AnySpec => Win!Lease!LeaseInit /\ [][Win!Lease!LeaseNext]_(Win!Lease!leaseVars)
<1>1. AnyInit => Win!Lease!LeaseInit
  BY DEF AnyInit, Win!Init, Win!PubLive, Win!ViewLive, Win!Lease!LeaseInit
<1>2. AnyInvariant /\ [AnyNext]_<<build, winVars, vars>>
        => [Win!Lease!LeaseNext]_(Win!Lease!leaseVars)
  BY StepsOfBuilds, LeaseStep, LeaseViews DEF AnyInvariant
<1> QED BY <1>1, <1>2, AnyInvariantHolds, PTL DEF AnySpec
===============================================================================
