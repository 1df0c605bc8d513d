-------------------------- MODULE LinuxAudioProofs --------------------------
(***************************************************************************)
(* Proofs about LinuxAudio: that the invariant behind SoundIsAccounted is  *)
(* inductive, for any frame lengths, gaps, chunk, ceiling and capacities.  *)
(***************************************************************************)
EXTENDS LinuxAudio, TLAPS

USE DEF ownerVars, runVars, soundVars, endVars

-----------------------------------------------------------------------------
(* The tracker and the sink.                                               *)

\* Two trackers that count the same sound.
SameCount(u, t) ==
  /\ u \in Trackers
  /\ u.pcm = t.pcm /\ u.gaps = t.gaps /\ u.regressions = t.regressions
  /\ u.sent = t.sent /\ u.dropped = t.dropped

\* What a write adds to the tracker: an attempt, what was taken, what was lost.
LEMMA WriteIsObserved ==
  ASSUME NEW t \in Trackers, NEW asked \in Int, NEW accepted \in Int
  PROVE  LET w == ObserveWrite(t, asked, accepted) IN
         /\ w \in Trackers
         /\ w.pcm = t.pcm /\ w.gaps = t.gaps /\ w.regressions = t.regressions
         /\ w.sent = t.sent + accepted /\ w.dropped = t.dropped + (asked - accepted)
<1> DEFINE w == ObserveWrite(t, asked, accepted)
<1>1. /\ t.attempts + 1 \in Nat /\ t.dropped + (asked - accepted) \in Int
      /\ t.sent + accepted \in Int /\ t.chunks + (IF accepted = 0 THEN 0 ELSE 1) \in Nat
  BY DEF Trackers
<1>2. w \in Trackers
  BY <1>1, Zenon DEF ObserveWrite, Trackers
<1>3. w.pcm = t.pcm /\ w.gaps = t.gaps /\ w.regressions = t.regressions
  BY DEF ObserveWrite, Trackers
<1>4. w.sent = t.sent + accepted /\ w.dropped = t.dropped + (asked - accepted)
  BY DEF ObserveWrite, Trackers
<1> QED BY <1>2, <1>3, <1>4

\* A failed write is counted apart from the sound.
LEMMA FailureIsObserved ==
  ASSUME NEW t \in Trackers
  PROVE  SameCount(ObserveFailure(t), t)
<1>1. t.attempts + 1 \in Nat /\ t.failures + 1 \in Nat
  BY DEF Trackers
<1>2. ObserveFailure(t) \in Trackers
  BY <1>1, Zenon DEF ObserveFailure, Trackers
<1> QED BY <1>2 DEF ObserveFailure, Trackers, SameCount

\* So is a delay.
LEMMA DelayIsObserved ==
  ASSUME NEW t \in Trackers
  PROVE  SameCount([t EXCEPT !.delayed = @ + 1], t)
  BY DEF Trackers, SameCount

\* A frame adds its length, and a gap or regression if it does not start where
\* the one before it ended.
LEMMA FrameIsObserved ==
  ASSUME NEW t \in Trackers, NEW start \in Int, NEW length \in Int, expected \in SUBSET Int
  PROVE  LET w == ObserveFrame(t, start, length) IN
         /\ w \in Trackers
         /\ w.pcm = t.pcm + length /\ w.sent = t.sent /\ w.dropped = t.dropped
         /\ w.gaps = 0 /\ w.regressions = 0 =>
              t.gaps = 0 /\ t.regressions = 0 /\ \A e \in expected : start = e
<1> DEFINE w == ObserveFrame(t, start, length)
           g == IF \E e \in expected : start > e THEN 1 ELSE 0
           r == IF \E e \in expected : start < e THEN 1 ELSE 0
<1>1. g \in {0, 1} /\ r \in {0, 1} /\ (g = 0 /\ r = 0 => \A e \in expected : start = e)
  OBVIOUS
<1>2. w = [t EXCEPT !.pcm = @ + length, !.gaps = @ + g, !.regressions = @ + r]
  BY DEF ObserveFrame
<1> HIDE DEF w, g, r
<1>3. /\ t.pcm + length \in Int /\ t.gaps + g \in Nat /\ t.regressions + r \in Nat
      /\ t.gaps \in Nat /\ t.regressions \in Nat
  BY <1>1 DEF Trackers
<1>4. w \in Trackers
  BY <1>2, <1>3, Zenon DEF Trackers
<1>5. w.pcm = t.pcm + length /\ w.gaps = t.gaps + g /\ w.regressions = t.regressions + r
  BY <1>2 DEF Trackers
<1>6. w.sent = t.sent /\ w.dropped = t.dropped
  BY <1>2 DEF Trackers
<1>7. w.gaps = 0 /\ w.regressions = 0 =>
        t.gaps = 0 /\ t.regressions = 0 /\ \A e \in expected : start = e
  BY <1>1, <1>3, <1>5
<1> QED BY <1>4, <1>5, <1>6, <1>7 DEF w

\* What is written follows what the sink holds.
LEMMA SinkGrows ==
  ASSUME NEW s \in Seq(Int), NEW n \in Nat, NEW next \in Int
  PROVE  LET r == s \o [i \in 1 .. n |-> next + i - 1] IN
         /\ r \in Seq(Int) /\ Len(s) \in Nat /\ Len(r) = Len(s) + n
         /\ \A i \in 1 .. Len(r) : r[i] = IF i <= Len(s) THEN s[i] ELSE next + (i - Len(s)) - 1
<1> DEFINE p == [i \in 1 .. n |-> next + i - 1]
<1>1. p \in Seq(Int) /\ Len(p) = n /\ \A i \in 1 .. n : p[i] = next + i - 1
  OBVIOUS
<1> HIDE DEF p
<1>2. /\ s \o p \in Seq(Int) /\ Len(s) \in Nat /\ Len(s \o p) = Len(s) + n
      /\ \A i \in 1 .. Len(s \o p) : (s \o p)[i] = IF i <= Len(s) THEN s[i] ELSE p[i - Len(s)]
  BY <1>1
<1>3. \A i \in 1 .. Len(s \o p) : i <= Len(s) \/ i - Len(s) \in 1 .. n
  BY <1>2
<1>4. \A i \in 1 .. Len(s \o p) :
        (s \o p)[i] = IF i <= Len(s) THEN s[i] ELSE next + (i - Len(s)) - 1
  BY <1>1, <1>2, <1>3
<1> QED BY <1>2, <1>4 DEF p

\* Playing a unit shifts the sink by one place.
LEMMA SinkShrinks ==
  ASSUME NEW s \in Seq(Int), s # <<>>
  PROVE  /\ Tail(s) \in Seq(Int) /\ Len(s) \in Nat /\ Len(Tail(s)) = Len(s) - 1
         /\ \A i \in 1 .. Len(Tail(s)) : Tail(s)[i] = s[i + 1] /\ i + 1 \in 1 .. Len(s)
         /\ Head(s) = s[1] /\ 1 \in 1 .. Len(s)
  OBVIOUS

\* The part to be written next is not longer than what is left of the frame.
LEMMA PartFits ==
  ASSUME TypeOK, frame.next <= frame.end
  PROVE  PartLength \in Nat /\ frame.next + PartLength <= frame.end
  BY LinuxAudioAssumption DEF PartLength, LastPart, TypeOK

-----------------------------------------------------------------------------
(* The invariant, action by action.                                        *)

\* A step that leaves the sound alone and moves the task to where it still holds
\* what TaskHolds says.
LEMMA TaskMoves ==
  ASSUME AudioInvariant,
         UNCHANGED <<stopping, teardown, told, frame, expected, whole, draining, sink, played,
                     anchor>>,
         \A u \in track' : \E t \in track : SameCount(u, t),
         \A t \in track : \E u \in track' : SameCount(u, t),
         pc \notin {"pending", "silent", "over"},
         pc' \in States \ {"pending", "silent", "over"}, why' \in Reasons,
         pc' \in {"track", "open", "read"} => frame.next = frame.end,
         pc' = "pace" => frame.next < frame.end,
         pc' = "failing" => why' # "none"
  PROVE  AudioInvariant'
<1>1. TypeOK'
  BY DEF AudioInvariant, TypeOK, SameCount
<1>2. TaskHolds'
  BY DEF AudioInvariant, TaskHolds
<1>3. SinkIsContinuous'
  <2>1. Continuous' => Continuous
    BY DEF Continuous, SameCount
  <2> QED BY <2>1 DEF AudioInvariant, SinkIsContinuous
<1>4. EndHasReason' /\ EndIsTold'
  BY DEF AudioInvariant, EndHasReason, EndIsTold
<1>5. UnitsAreAccounted'
  BY DEF AudioInvariant, UnitsAreAccounted, SameCount
<1> QED BY <1>1, <1>2, <1>3, <1>4, <1>5 DEF AudioInvariant

\* A step of the owner or of nobody leaves it all alone.
LEMMA AudioStays ==
  ASSUME AudioInvariant,
         UNCHANGED <<pc, why, stopping, teardown, told, track, frame, expected, whole, draining,
                     sink, played, anchor>>
  PROVE  AudioInvariant'
<1>1. TypeOK' /\ TaskHolds' /\ EndHasReason'
  BY DEF AudioInvariant, TypeOK, TaskHolds, EndHasReason
<1>2. SinkIsContinuous' /\ UnitsAreAccounted' /\ EndIsTold'
  BY DEF AudioInvariant, SinkIsContinuous, Continuous, UnitsAreAccounted, EndIsTold
<1> QED BY <1>1, <1>2 DEF AudioInvariant

\* The steps between two waits that only move the task.
LEMMA MovesKeep ==
  ASSUME AudioInvariant,
         SayTrack \/ Open \/ ReadEnds \/ SayDecoded \/ SaySubmitted \/ Pace \/ WriteFails
  PROVE  AudioInvariant'
<1>0. /\ track \in SUBSET Trackers /\ TaskHolds /\ why \in Reasons
      /\ frame.next \in Int /\ frame.end \in Int
  BY DEF AudioInvariant, TypeOK
<1>1. \A t \in track : SameCount(t, t)
  BY <1>0 DEF SameCount
<1>2. CASE SayTrack \/ Open \/ ReadEnds
  <2>1. UNCHANGED <<track, stopping, teardown, told, frame, expected, whole, draining, sink,
                    played, anchor>>
    BY <1>2 DEF SayTrack, Open, ReadEnds, TaskKeeps
  <2>2. pc \in {"track", "open", "read"} /\ pc' \in {"open", "read", "failing"}
    BY <1>2 DEF SayTrack, Open, ReadEnds
  <2>3. why' \in Reasons /\ (pc' = "failing" => why' # "none")
    BY <1>0, <1>2 DEF SayTrack, Open, ReadEnds, Reasons
  <2>4. frame.next = frame.end
    BY <1>0, <2>2 DEF TaskHolds
  <2> QED BY <1>1, <2>1, <2>2, <2>3, <2>4, TaskMoves DEF States
<1>3. CASE SayDecoded \/ SaySubmitted
  <2>1. UNCHANGED <<track, why, stopping, teardown, told, frame, expected, whole, draining,
                    sink, played, anchor>>
    BY <1>3 DEF SayDecoded, SaySubmitted, TaskKeeps
  <2>2. pc \in {"heard", "sent"} /\ pc' = "write"
    BY <1>3 DEF SayDecoded, SaySubmitted
  <2> QED BY <1>0, <1>1, <2>1, <2>2, TaskMoves DEF States
<1>4. CASE Pace
  <2>1. UNCHANGED <<why, stopping, teardown, told, frame, expected, whole, draining, sink,
                    played, anchor>>
    BY <1>4 DEF Pace, TaskKeeps
  <2>2. pc = "write" /\ pc' = "pace" /\ frame.next < frame.end
    BY <1>4 DEF Pace
  <2>3. track' = {[t EXCEPT !.delayed = @ + 1] : t \in track}
    BY <1>4 DEF Pace
  <2>4. /\ \A u \in track' : \E t \in track : SameCount(u, t)
        /\ \A t \in track : \E u \in track' : SameCount(u, t)
    BY <1>0, <2>3, DelayIsObserved
  <2> QED BY <1>0, <2>1, <2>2, <2>4, TaskMoves DEF States
<1>5. CASE WriteFails
  <2>1. UNCHANGED <<stopping, teardown, told, frame, expected, whole, draining, sink, played,
                    anchor>>
    BY <1>5 DEF WriteFails, TaskKeeps
  <2>2. pc \in {"write", "pace"} /\ pc' = "failing" /\ why' = "sink_error"
    BY <1>5 DEF WriteFails
  <2>3. track' = {ObserveFailure(t) : t \in track}
    BY <1>5 DEF WriteFails
  <2>4. /\ \A u \in track' : \E t \in track : SameCount(u, t)
        /\ \A t \in track : \E u \in track' : SameCount(u, t)
    BY <1>0, <2>3, FailureIsObserved
  <2> QED BY <2>1, <2>2, <2>4, TaskMoves DEF States, Reasons
<1> QED BY <1>2, <1>3, <1>4, <1>5

\* The task says that it is pending and, if it has something to play, makes its
\* tracker.
LEMMA PendingKeeps ==
  ASSUME AudioInvariant, SayPending
  PROVE  AudioInvariant'
<1>1. /\ pc = "pending" /\ track = {} /\ played = 0 /\ sink = <<>> /\ frame.next = frame.end
      /\ TypeOK /\ TaskHolds /\ EndHasReason /\ SinkIsContinuous
      /\ frame.next \in Int /\ frame.end \in Int
  BY DEF AudioInvariant, SayPending, TaskHolds, TypeOK
<1>2. UNCHANGED <<stopping, why, teardown, told, expected, frame, whole, draining, sink, played,
                  anchor>>
  BY DEF SayPending, TaskKeeps
<1>3. \/ pc' = "track" /\ track' = NewTracker
      \/ pc' = "silent" /\ track' = {}
  BY <1>1 DEF SayPending
<1>4. TypeOK'
  <2>1. NewTracker \subseteq Trackers
    BY DEF NewTracker, Trackers
  <2> QED BY <1>1, <1>2, <1>3, <2>1 DEF TypeOK, States
<1>5. TaskHolds'
  BY <1>1, <1>2, <1>3 DEF TaskHolds, NewTracker
<1>6. SinkIsContinuous'
  BY <1>1, <1>2 DEF SinkIsContinuous, Continuous
<1>7. UnitsAreAccounted'
  BY <1>1, <1>2, <1>3 DEF UnitsAreAccounted, NewTracker
<1>8. EndHasReason' /\ EndIsTold'
  BY <1>1, <1>2, <1>3 DEF EndHasReason, EndIsTold
<1> QED BY <1>4, <1>5, <1>6, <1>7, <1>8 DEF AudioInvariant

\* A step that ends the task, whoever ends it, if it tells the end as it should.
LEMMA GoneKeeps ==
  ASSUME AudioInvariant, Gone, UNCHANGED <<stopping, why, track, runVars>>,
         teardown' \in [owner : Reasons, emitted : Reasons], teardown'.owner = teardown.owner,
         track = {} /\ stopping = "none" => told' = <<>>,
         track = {} => told' \in {<<>>, <<<<"owner", stopping>>>>},
         track # {} => /\ told' = <<<<"summary", teardown'.emitted>>>>
                       /\ teardown'.emitted \in {why, stopping} \ {"none"}
  PROVE  AudioInvariant'
<1>1. pc' = "over" /\ sink' = <<>> /\ anchor' = {} /\ played' = played
  BY DEF Gone
<1>2. TypeOK'
  BY <1>1 DEF AudioInvariant, TypeOK, States
<1>3. TaskHolds'
  BY <1>1 DEF AudioInvariant, TaskHolds
<1>4. SinkIsContinuous'
  BY <1>1 DEF SinkIsContinuous
<1>5. UnitsAreAccounted'
  BY <1>1 DEF AudioInvariant, UnitsAreAccounted
<1>6. EndHasReason' /\ EndIsTold'
  BY <1>1 DEF AudioInvariant, EndHasReason, EndIsTold
<1> QED BY <1>2, <1>3, <1>4, <1>5, <1>6 DEF AudioInvariant

\* The first reason is told, and it alone.
LEMMA FirstReasonIsTold ==
  ASSUME teardown \in [owner : Reasons, emitted : Reasons], teardown.emitted = "none", told = <<>>,
         NEW reason \in Reasons, Emit(teardown, reason)
  PROVE  /\ teardown' \in [owner : Reasons, emitted : Reasons]
         /\ teardown'.owner = teardown.owner /\ teardown'.emitted = reason
         /\ told' = <<<<"summary", reason>>>>
<1>1. teardown' = [teardown EXCEPT !.emitted = reason] /\ told' = Append(<<>>, <<"summary", reason>>)
  BY DEF Emit
<1>2. told' = <<<<"summary", reason>>>>
  BY <1>1
<1> QED BY <1>1, <1>2

\* The task ends by itself, with nothing to play or with a failure that is told,
\* or because its owner aborts it where it waits.
LEMMA EndsKeep ==
  ASSUME AudioInvariant, SaySilent \/ Fail \/ Aborted
  PROVE  AudioInvariant'
<1>1. /\ pc # "over" /\ Gone /\ UNCHANGED <<stopping, why, track, runVars>>
  BY DEF SaySilent, Fail, Aborted, TaskKeeps, AbortTakesHold, Waits
<1>2. /\ told = <<>> /\ teardown.emitted = "none" /\ TaskHolds
      /\ teardown \in [owner : Reasons, emitted : Reasons] /\ why \in Reasons
      /\ stopping # "none" => teardown.owner = stopping
  BY <1>1 DEF AudioInvariant, EndHasReason, TypeOK
<1>3. CASE SaySilent
  <2>1. track = {} /\ UNCHANGED <<teardown, told>>
    BY <1>2, <1>3 DEF SaySilent, TaskHolds
  <2> QED BY <1>1, <1>2, <2>1, GoneKeeps
<1>4. CASE Fail
  <2>1. track # {} /\ why # "none" /\ Emit(teardown, why)
    BY <1>2, <1>4 DEF Fail, TaskHolds, AudioInvariant, EndHasReason
  <2>2. /\ teardown' \in [owner : Reasons, emitted : Reasons]
        /\ teardown'.owner = teardown.owner /\ teardown'.emitted = why
        /\ told' = <<<<"summary", why>>>>
    BY <1>2, <2>1, FirstReasonIsTold
  <2> QED BY <1>1, <2>1, <2>2, GoneKeeps
<1>5. CASE Aborted
  <2>1. stopping # "none" /\ teardown.owner = stopping /\ stopping \in Reasons
    BY <1>2, <1>5 DEF Aborted, AudioInvariant, TypeOK
  <2>2. CASE track # {}
    <3>1. Emit(teardown, stopping)
      BY <1>5, <2>1, <2>2 DEF Aborted
    <3>2. /\ teardown' \in [owner : Reasons, emitted : Reasons]
          /\ teardown'.owner = teardown.owner /\ teardown'.emitted = stopping
          /\ told' = <<<<"summary", stopping>>>>
      BY <1>2, <2>1, <3>1, FirstReasonIsTold
    <3> QED BY <1>1, <2>1, <2>2, <3>2, GoneKeeps
  <2>3. CASE track = {}
    <3>1. teardown' = teardown /\ told' = Append(<<>>, <<"owner", stopping>>)
      BY <1>2, <1>5, <2>3 DEF Aborted
    <3>2. told' = <<<<"owner", stopping>>>>
      BY <3>1
    <3> QED BY <1>1, <1>2, <2>1, <2>3, <3>1, <3>2, GoneKeeps
  <2> QED BY <2>2, <2>3
<1> QED BY <1>3, <1>4, <1>5

\* A frame is taken up where the last one was written out.  Unless it leaves a
\* gap, it continues what is in the sink.
LEMMA ReadKeeps ==
  ASSUME AudioInvariant, Read
  PROVE  AudioInvariant'
<1>1. PICK length \in Lengths, gap \in Gaps :
        LET start == IF expected = {} THEN 0 ELSE (CHOOSE e \in expected : TRUE) + gap IN
        /\ start >= 0
        /\ track' = {ObserveFrame(t, start, length) : t \in track}
        /\ expected' = {start + length} /\ frame' = [next |-> start, end |-> start + length]
  BY DEF Read
<1> DEFINE start == IF expected = {} THEN 0 ELSE (CHOOSE e \in expected : TRUE) + gap
<1>2. /\ TypeOK /\ TaskHolds /\ SinkIsContinuous /\ EndHasReason /\ UnitsAreAccounted
      /\ track \in SUBSET Trackers /\ track # {} /\ expected \in SUBSET Int
      /\ frame.next = frame.end /\ frame.next \in Int
      /\ expected # {} => expected = {frame.end}
      /\ expected = {} => sink = <<>>
  BY DEF AudioInvariant, TypeOK, TaskHolds, Read
<1>3. length \in Nat /\ gap \in Int
  BY LinuxAudioAssumption
<1>4. start \in Int
  <2>1. CASE expected = {}
    BY <2>1
  <2>2. CASE expected # {}
    <3>1. (CHOOSE e \in expected : TRUE) \in expected
      BY <2>2
    <3> QED BY <1>2, <1>3, <2>2, <3>1
  <2> QED BY <2>1, <2>2
<1>5. /\ track' = {ObserveFrame(t, start, length) : t \in track}
      /\ expected' = {start + length} /\ frame' = [next |-> start, end |-> start + length]
  BY <1>1
<1> HIDE DEF start
<1>6. /\ pc' \in {"write", "heard"} /\ pc = "read"
      /\ whole' = TRUE /\ draining' = (draining /\ sink # <<>>)
      /\ UNCHANGED <<stopping, why, teardown, told, sink, played, anchor>>
  BY DEF Read, TaskKeeps
<1>7. ASSUME NEW t \in track
      PROVE  LET w == ObserveFrame(t, start, length) IN
             /\ w \in Trackers
             /\ w.pcm = t.pcm + length /\ w.sent = t.sent /\ w.dropped = t.dropped
             /\ w.gaps = 0 /\ w.regressions = 0 =>
                  t.gaps = 0 /\ t.regressions = 0 /\ \A e \in expected : start = e
  BY <1>2, <1>3, <1>4, FrameIsObserved
<1>8. TypeOK'
  <2>1. track' \in SUBSET Trackers
    BY <1>5, <1>7
  <2>2. frame' \in [next : Int, end : Int] /\ expected' \in SUBSET Int
    BY <1>3, <1>4, <1>5
  <2> QED BY <1>2, <1>6, <2>1, <2>2 DEF TypeOK, States
<1>9. TaskHolds'
  <2>1. track' # {}
    BY <1>2, <1>5
  <2> QED BY <1>5, <1>6, <2>1 DEF TaskHolds
<1>10. SinkIsContinuous'
  <2>1. ASSUME Continuous' PROVE Continuous /\ \A e \in expected : start = e
    <3>1. \A t \in track : ObserveFrame(t, start, length) \in track'
      BY <1>5
    <3>2. \A t \in track : /\ ObserveFrame(t, start, length).gaps = 0
                           /\ ObserveFrame(t, start, length).regressions = 0
      BY <2>1, <3>1 DEF Continuous
    <3> QED BY <1>2, <1>7, <3>2 DEF Continuous
  <2>2. ASSUME ~draining', Continuous', NEW i \in 1 .. Len(sink)
        PROVE  sink[i] = frame'.next - Len(sink) + i - 1
    <3>1. sink # <<>>
      BY <2>2
    <3>2. start = frame.next
      BY <1>2, <2>1, <2>2, <3>1
    <3> QED BY <1>2, <1>5, <1>6, <2>1, <2>2, <3>1, <3>2 DEF SinkIsContinuous
  <2>3. anchor' # {} => ~draining'
    BY <1>2, <1>6 DEF SinkIsContinuous
  <2> QED BY <1>6, <2>2, <2>3 DEF SinkIsContinuous
<1>11. UnitsAreAccounted'
  <2> SUFFICES ASSUME NEW w \in track'
               PROVE  /\ w.pcm = w.sent + w.dropped + (frame'.end - frame'.next)
                      /\ w.sent = played + Len(sink)
    BY <1>6 DEF UnitsAreAccounted
  <2>1. PICK t \in track : w = ObserveFrame(t, start, length)
    BY <1>5
  <2>2. t.pcm = t.sent + t.dropped + (frame.end - frame.next) /\ t.sent = played + Len(sink)
    BY <1>2, <1>6 DEF UnitsAreAccounted
  <2>3. t.pcm \in Int /\ t.sent \in Int /\ t.dropped \in Int
    BY <1>2 DEF Trackers
  <2> QED BY <1>2, <1>3, <1>4, <1>5, <1>7, <2>1, <2>2, <2>3
<1>12. EndHasReason' /\ EndIsTold'
  BY <1>2, <1>6 DEF EndHasReason, EndIsTold
<1> QED BY <1>8, <1>9, <1>10, <1>11, <1>12 DEF AudioInvariant

\* A part goes to the sink, or what the sink does not take of it is dropped, and
\* then nothing is said of the sink until it has run dry.
LEMMA WriteKeeps ==
  ASSUME AudioInvariant, Write
  PROVE  AudioInvariant'
<1>1. PICK accepted \in 0 .. PartLength :
        /\ track' = {ObserveWrite(t, PartLength, accepted) : t \in track}
        /\ sink' = sink \o [i \in 1 .. accepted |-> frame.next + i - 1]
        /\ frame' = [frame EXCEPT !.next = @ + PartLength]
        /\ Dropped(accepted < PartLength)
        /\ pc' \in {"sent", "write"}
  BY DEF Write
<1>2. /\ TypeOK /\ TaskHolds /\ SinkIsContinuous /\ EndHasReason /\ UnitsAreAccounted
      /\ track \in SUBSET Trackers /\ frame \in [next : Int, end : Int]
      /\ frame.next \in Int /\ frame.end \in Int /\ sink \in Seq(Int)
  BY DEF AudioInvariant, TypeOK
<1>3. frame.next < frame.end /\ pc \in {"write", "pace"}
  BY <1>2 DEF Write, TaskHolds
<1>4. PartLength \in Nat /\ accepted \in Nat /\ accepted <= PartLength
  BY <1>1, <1>2, <1>3, PartFits
<1>5. /\ UNCHANGED <<stopping, why, teardown, told, expected, played>>
      /\ frame'.next = frame.next + PartLength /\ frame'.end = frame.end
      /\ frame' \in [next : Int, end : Int]
  <2>1. UNCHANGED <<stopping, why, teardown, told, expected, played>>
    BY DEF Write, TaskKeeps
  <2>2. frame.next + PartLength \in Int /\ frame' = [frame EXCEPT !.next = frame.next + PartLength]
    BY <1>1, <1>2, <1>4
  <2> QED BY <1>2, <2>1, <2>2
<1>6. /\ sink' \in Seq(Int) /\ Len(sink) \in Nat /\ Len(sink') = Len(sink) + accepted
      /\ \A i \in 1 .. Len(sink') :
           sink'[i] = IF i <= Len(sink) THEN sink[i] ELSE frame.next + (i - Len(sink)) - 1
  BY <1>1, <1>2, <1>4, SinkGrows
<1>7. ASSUME NEW t \in track
      PROVE  LET w == ObserveWrite(t, PartLength, accepted) IN
             /\ w \in Trackers /\ w.pcm = t.pcm
             /\ w.gaps = t.gaps /\ w.regressions = t.regressions
             /\ w.sent = t.sent + accepted /\ w.dropped = t.dropped + (PartLength - accepted)
  BY <1>2, <1>4, WriteIsObserved
<1>8. \/ /\ accepted = PartLength /\ UNCHANGED <<whole, draining, anchor>>
      \/ /\ accepted # PartLength /\ whole' = FALSE /\ draining' = TRUE /\ anchor' = {}
  BY <1>1, <1>4 DEF Dropped
<1>9. TypeOK'
  <2>1. track' \in SUBSET Trackers
    BY <1>1, <1>7
  <2>2. anchor' \in SUBSET Int /\ whole' \in BOOLEAN /\ draining' \in BOOLEAN
    BY <1>2, <1>8 DEF TypeOK
  <2> QED BY <1>1, <1>2, <1>5, <1>6, <2>1, <2>2 DEF TypeOK, States
<1>10. TaskHolds'
  <2>1. track' # {}
    BY <1>1, <1>2, <1>3 DEF TaskHolds
  <2>2. expected = {frame.end}
    BY <1>2, <1>3 DEF TaskHolds
  <2> QED BY <1>1, <1>5, <2>1, <2>2 DEF TaskHolds
<1>11. SinkIsContinuous'
  <2>1. anchor' # {} => ~draining'
    BY <1>2, <1>8 DEF SinkIsContinuous
  <2>2. ASSUME ~draining', Continuous', NEW i \in 1 .. Len(sink')
        PROVE  sink'[i] = frame'.next - Len(sink') + i - 1
    <3>1. accepted = PartLength /\ ~draining
      BY <1>8, <2>2
    <3>2. Continuous
      BY <1>1, <1>7, <2>2 DEF Continuous
    <3>3. i <= Len(sink) => sink[i] = frame.next - Len(sink) + i - 1
      BY <1>2, <3>1, <3>2 DEF SinkIsContinuous
    <3>4. /\ frame.next \in Int /\ frame'.next = frame.next + PartLength /\ PartLength \in Nat
          /\ Len(sink) \in Nat /\ Len(sink') = Len(sink) + PartLength /\ i \in Nat
          /\ sink'[i] = IF i <= Len(sink) THEN sink[i] ELSE frame.next + (i - Len(sink)) - 1
      BY <1>2, <1>4, <1>5, <1>6, <3>1
    <3> QED BY <3>3, <3>4
  <2> QED BY <2>1, <2>2 DEF SinkIsContinuous
<1>12. UnitsAreAccounted'
  <2> SUFFICES ASSUME NEW w \in track'
               PROVE  /\ w.pcm = w.sent + w.dropped + (frame'.end - frame'.next)
                      /\ w.sent = played + Len(sink')
    BY <1>5 DEF UnitsAreAccounted
  <2>1. PICK t \in track : w = ObserveWrite(t, PartLength, accepted)
    BY <1>1
  <2>2. t.pcm = t.sent + t.dropped + (frame.end - frame.next) /\ t.sent = played + Len(sink)
    BY <1>2, <1>3 DEF UnitsAreAccounted
  <2>3. t.pcm \in Int /\ t.sent \in Int /\ t.dropped \in Int /\ played \in Nat
    BY <1>2 DEF Trackers, TypeOK
  <2>4. /\ w.pcm = t.pcm /\ w.sent = t.sent + accepted
        /\ w.dropped = t.dropped + (PartLength - accepted)
    BY <1>7, <2>1
  <2>5. /\ accepted \in Int /\ PartLength \in Int /\ played' = played /\ Len(sink) \in Nat
        /\ frame.next \in Int /\ frame.end \in Int
        /\ frame'.end = frame.end /\ frame'.next = frame.next + PartLength
        /\ Len(sink') = Len(sink) + accepted
    BY <1>2, <1>4, <1>5, <1>6
  <2>6. w.pcm = w.sent + w.dropped + (frame'.end - frame'.next)
    <3>1. t.pcm = (t.sent + accepted) + (t.dropped + (PartLength - accepted))
                  + (frame.end - (frame.next + PartLength))
      <4>1. PICK p \in Int, s \in Int, d \in Int, n \in Int, e \in Int :
              /\ p = t.pcm /\ s = t.sent /\ d = t.dropped
              /\ n = frame.next /\ e = frame.end
        BY <2>3, <2>5
      <4>2. p = s + d + (e - n)
        BY <2>2, <4>1
      <4>3. p = (s + accepted) + (d + (PartLength - accepted)) + (e - (n + PartLength))
        BY <2>5, <4>2
      <4> QED BY <4>1, <4>3
    <3> QED BY <2>4, <2>5, <3>1
  <2>7. w.sent = played + Len(sink')
    BY <2>2, <2>3, <2>4, <2>5
  <2> QED BY <2>6, <2>7
<1>13. EndHasReason' /\ EndIsTold'
  BY <1>1, <1>2, <1>3, <1>5 DEF EndHasReason, EndIsTold
<1> QED BY <1>9, <1>10, <1>11, <1>12, <1>13 DEF AudioInvariant

\* A frame that is written out anchors the clock, if nothing of it is missing.
LEMMA FrameEndKeeps ==
  ASSUME AudioInvariant, FrameEnd
  PROVE  AudioInvariant'
<1>1. /\ TypeOK /\ TaskHolds /\ SinkIsContinuous /\ EndHasReason /\ UnitsAreAccounted
      /\ frame.next = frame.end /\ frame.end \in Int /\ Len(sink) \in Nat
  BY DEF AudioInvariant, TypeOK, FrameEnd
<1>2. /\ pc = "write" /\ pc' = "read"
      /\ UNCHANGED <<stopping, why, teardown, told, track, expected, frame, whole, draining,
                     sink, played>>
      /\ anchor' = IF MayAnchor THEN {frame.end - Len(sink)} ELSE anchor
  BY DEF FrameEnd, TaskKeeps
<1>3. TypeOK'
  BY <1>1, <1>2 DEF TypeOK, States
<1>4. TaskHolds'
  BY <1>1, <1>2 DEF TaskHolds
<1>5. SinkIsContinuous'
  <2>1. Continuous' <=> Continuous
    BY <1>2 DEF Continuous
  <2>2. anchor' # {} => ~draining'
    BY <1>1, <1>2 DEF SinkIsContinuous, MayAnchor
  <2> QED BY <1>1, <1>2, <2>1, <2>2 DEF SinkIsContinuous
<1>6. UnitsAreAccounted' /\ EndHasReason' /\ EndIsTold'
  BY <1>1, <1>2 DEF UnitsAreAccounted, EndHasReason, EndIsTold
<1> QED BY <1>3, <1>4, <1>5, <1>6 DEF AudioInvariant

\* The owner gives its reason before it aborts; a task that is over by itself
\* has told its own, which remains.
LEMMA StopKeeps ==
  ASSUME AudioInvariant, Replace \/ StopForGood
  PROVE  AudioInvariant'
<1>1. PICK reason \in Reasons \ {"none"} : Stop(reason)
  BY DEF Replace, StopForGood, Reason, Reasons
<1>2. /\ TypeOK /\ TaskHolds /\ SinkIsContinuous /\ EndHasReason /\ UnitsAreAccounted /\ EndIsTold
      /\ teardown \in [owner : Reasons, emitted : Reasons]
  BY DEF AudioInvariant, TypeOK
<1>3. /\ stopping = "none" /\ stopping' = reason
      /\ teardown' = [teardown EXCEPT !.owner = reason]
      /\ UNCHANGED <<pc, why, told, track, expected, frame, whole, draining, sink, played, anchor>>
  BY <1>1 DEF Stop, OwnerReason
<1>4. /\ teardown' \in [owner : Reasons, emitted : Reasons]
      /\ teardown'.owner = reason /\ teardown'.emitted = teardown.emitted
  BY <1>2, <1>3
<1>5. TypeOK' /\ TaskHolds'
  BY <1>2, <1>3, <1>4 DEF TypeOK, TaskHolds
<1>6. SinkIsContinuous' /\ UnitsAreAccounted'
  BY <1>2, <1>3 DEF SinkIsContinuous, UnitsAreAccounted, Continuous
<1>7. EndHasReason'
  BY <1>2, <1>3, <1>4 DEF EndHasReason
<1>8. EndIsTold'
  BY <1>2, <1>3, <1>4 DEF EndIsTold, EndHasReason
<1> QED BY <1>5, <1>6, <1>7, <1>8 DEF AudioInvariant

\* A replacement starts from nothing.
LEMMA SpawnedKeeps ==
  ASSUME AudioInvariant, Spawned
  PROVE  AudioInvariant'
<1>1. Fresh
  BY DEF Spawned
<1> USE <1>1 DEF Fresh
<1>2. TypeOK'
  <2>1. pc' \in States /\ stopping' \in Reasons /\ why' \in Reasons
    BY DEF States, Reasons
  <2>2. /\ teardown' \in [owner : Reasons, emitted : Reasons]
        /\ frame' \in [next : Int, end : Int]
    BY DEF Reasons
  <2>3. track' \in SUBSET Trackers /\ expected' \in SUBSET Int /\ anchor' \in SUBSET Int
    OBVIOUS
  <2>4. sink' \in Seq(Int) /\ played' \in Nat
    OBVIOUS
  <2>5. whole' \in BOOLEAN /\ draining' \in BOOLEAN
    OBVIOUS
  <2> QED BY <2>1, <2>2, <2>3, <2>4, <2>5 DEF TypeOK
<1>3. TaskHolds' /\ EndHasReason' /\ EndIsTold' /\ UnitsAreAccounted'
  BY DEF TaskHolds, EndHasReason, EndIsTold, UnitsAreAccounted
<1>4. SinkIsContinuous'
  BY DEF SinkIsContinuous
<1> QED BY <1>2, <1>3, <1>4 DEF AudioInvariant

\* The wall plays the first unit of the sink; the others are still in order.
LEMMA TickKeeps ==
  ASSUME AudioInvariant, Tick
  PROVE  AudioInvariant'
<1>1. /\ TypeOK /\ TaskHolds /\ SinkIsContinuous /\ EndHasReason /\ UnitsAreAccounted /\ EndIsTold
      /\ sink \in Seq(Int) /\ played \in Nat /\ frame.next \in Int
      /\ track \in SUBSET Trackers /\ anchor \in SUBSET Int
  BY DEF AudioInvariant, TypeOK
<1>2. /\ sink # <<>> /\ sink' = Tail(sink) /\ played' = played + 1
      /\ anchor' = {a + 1 : a \in anchor}
      /\ UNCHANGED <<stopping, pc, why, teardown, told, track, expected, frame, whole, draining>>
  BY DEF Tick
<1>3. /\ sink' \in Seq(Int) /\ Len(sink) \in Nat /\ Len(sink') = Len(sink) - 1
      /\ \A i \in 1 .. Len(sink') : sink'[i] = sink[i + 1] /\ i + 1 \in 1 .. Len(sink)
  BY <1>1, <1>2, SinkShrinks
<1>4. TypeOK'
  BY <1>1, <1>2, <1>3 DEF TypeOK
<1>5. TaskHolds'
  BY <1>1, <1>2 DEF TaskHolds
<1>6. SinkIsContinuous'
  <2>1. Continuous' <=> Continuous
    BY <1>2 DEF Continuous
  <2>2. anchor' # {} => ~draining'
    BY <1>1, <1>2 DEF SinkIsContinuous
  <2>3. ASSUME ~draining, Continuous, NEW i \in 1 .. Len(sink')
        PROVE  sink'[i] = frame.next - Len(sink') + i - 1
    <3>1. sink[i + 1] = frame.next - Len(sink) + (i + 1) - 1
      BY <1>1, <1>3, <2>3 DEF SinkIsContinuous
    <3>2. sink'[i] = sink[i + 1] /\ Len(sink') = Len(sink) - 1 /\ Len(sink) \in Nat
      BY <1>3
    <3> QED BY <1>1, <3>1, <3>2
  <2> QED BY <1>2, <2>1, <2>2, <2>3 DEF SinkIsContinuous
<1>7. UnitsAreAccounted'
  <2>1. ASSUME NEW t \in track, t.sent = played + Len(sink) PROVE t.sent = played' + Len(sink')
    BY <1>1, <1>2, <1>3, <2>1
  <2> QED BY <1>1, <1>2, <2>1 DEF UnitsAreAccounted
<1>8. EndHasReason' /\ EndIsTold'
  BY <1>1, <1>2 DEF EndHasReason, EndIsTold
<1> QED BY <1>4, <1>5, <1>6, <1>7, <1>8 DEF AudioInvariant

-----------------------------------------------------------------------------
(* The theorems.                                                           *)

\* The invariant of an audio generation holds of its start and of every step.
THEOREM AudioInvariantHolds == Spec => []AudioInvariant
<1>1. Init => AudioInvariant
  <2> SUFFICES ASSUME Init PROVE AudioInvariant
    OBVIOUS
  <2>1. TypeOK
    <3>1. pc \in States /\ stopping \in Reasons /\ why \in Reasons
      BY DEF Init, States, Reasons
    <3>2. /\ teardown \in [owner : Reasons, emitted : Reasons]
          /\ frame \in [next : Int, end : Int]
      BY DEF Init, Reasons
    <3>3. track \in SUBSET Trackers /\ expected \in SUBSET Int /\ anchor \in SUBSET Int
      BY DEF Init
    <3>4. sink \in Seq(Int) /\ played \in Nat
      BY DEF Init
    <3>5. whole \in BOOLEAN /\ draining \in BOOLEAN
      BY DEF Init
    <3> QED BY <3>1, <3>2, <3>3, <3>4, <3>5 DEF TypeOK
  <2>2. TaskHolds /\ EndHasReason /\ EndIsTold /\ UnitsAreAccounted /\ SinkIsContinuous
    BY DEF Init, TaskHolds, EndHasReason, EndIsTold, UnitsAreAccounted, SinkIsContinuous
  <2> QED BY <2>1, <2>2 DEF AudioInvariant
<1>2. AudioInvariant /\ [Next]_vars => AudioInvariant'
  <2> SUFFICES ASSUME AudioInvariant, [Next]_vars PROVE AudioInvariant'
    OBVIOUS
  <2>1. CASE Task
    BY <2>1, PendingKeeps, EndsKeep, MovesKeep, WriteKeeps, FrameEndKeeps DEF Task
  <2>2. CASE Read \/ ReadEnds \/ WriteFails
    BY <2>2, ReadKeeps, MovesKeep
  <2>3. CASE Replace \/ StopForGood \/ Aborted \/ Spawned
    BY <2>3, StopKeeps, EndsKeep, SpawnedKeeps
  <2>4. CASE Tick
    BY <2>4, TickKeeps
  <2>5. CASE Receive \/ Done \/ UNCHANGED vars
    BY <2>5, AudioStays DEF Receive, Done, vars
  <2> QED BY <2>1, <2>2, <2>3, <2>4, <2>5 DEF Next
<1> QED BY <1>1, <1>2, PTL DEF Spec

\* A continuous sink has no hole, and its first unit is as far before the end
\* of what was written as the sink is long.
LEMMA ContinuousSinkIsKnown ==
  ASSUME AudioInvariant, ~draining, Continuous
  PROVE  /\ \A i \in 1 .. Len(sink) - 1 : sink[i + 1] = sink[i] + 1
         /\ sink # <<>> => Head(sink) = frame.next - Len(sink)
<1>1. sink \in Seq(Int) /\ Len(sink) \in Nat /\ frame.next \in Int
  BY DEF AudioInvariant, TypeOK
<1>2. \A i \in 1 .. Len(sink) : sink[i] = frame.next - Len(sink) + i - 1
  BY DEF AudioInvariant, SinkIsContinuous
<1>3. ASSUME NEW i \in 1 .. Len(sink) - 1 PROVE sink[i + 1] = sink[i] + 1
  <2>1. i \in 1 .. Len(sink) /\ i + 1 \in 1 .. Len(sink)
    BY <1>1
  <2>2. sink[i] = frame.next - Len(sink) + i - 1
    BY <1>2, <2>1
  <2>3. sink[i + 1] = frame.next - Len(sink) + (i + 1) - 1
    BY <1>2, <2>1
  <2> QED BY <1>1, <2>1, <2>2, <2>3
<1>4. sink # <<>> => Head(sink) = frame.next - Len(sink)
  BY <1>1, <1>2, SinkShrinks
<1> QED BY <1>3, <1>4

\* For any frames, gaps, chunk, ceiling and capacities: every decoded unit is
\* played, held, dropped or still to be written, the clock is what is being
\* played, and the end of a generation is told once, with its reason.
THEOREM AudioIsAccounted == Spec => SoundIsAccounted
<1>1. AudioInvariant => UnitsAreAccounted /\ SinkHasNoHole /\ EndIsTold
  <2>1. AudioInvariant /\ anchor # {} => ~draining
    BY DEF AudioInvariant, SinkIsContinuous
  <2> QED BY <2>1, ContinuousSinkIsKnown DEF AudioInvariant, SinkHasNoHole
<1>2. AudioInvariant => AnchorsWhatPlays
  <2> SUFFICES ASSUME AudioInvariant, FrameEnd, MayAnchor, Continuous, sink # <<>>
               PROVE  anchor' = {Head(sink)}
    BY DEF AnchorsWhatPlays
  <2>1. Head(sink) = frame.next - Len(sink)
    BY ContinuousSinkIsKnown DEF MayAnchor
  <2> QED BY <2>1 DEF FrameEnd
<1> QED BY <1>1, <1>2, AudioInvariantHolds, PTL DEF SoundIsAccounted
=============================================================================
