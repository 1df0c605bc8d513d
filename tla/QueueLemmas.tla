----------------------------- MODULE QueueLemmas -----------------------------
(***************************************************************************)
(* What taking from and sending to a queue do to the places of a sequence, *)
(* for every queue of the supervisor's proofs.                             *)
(***************************************************************************)
EXTENDS Naturals, Sequences, TLAPS

\* Taking the head shifts the rest by one place.
LEMMA TailShifts ==
  ASSUME NEW S, NEW q \in Seq(S), q # <<>>
  PROVE  /\ Tail(q) \in Seq(S) /\ Len(q) \in Nat /\ Len(Tail(q)) = Len(q) - 1
         /\ \A i \in 1 .. Len(Tail(q)) : Tail(q)[i] = q[i + 1] /\ i + 1 \in 1 .. Len(q)
         /\ \A i \in 1 .. Len(q) : i = 1 \/ i - 1 \in 1 .. Len(Tail(q))
         /\ Head(q) = q[1] /\ Head(q) \in S /\ 1 \in 1 .. Len(q)
  OBVIOUS

\* What was behind the head is still there, one place further on.
LEMMA TailKeepsTheRest ==
  ASSUME NEW S, NEW q \in Seq(S), q # <<>>, NEW i \in 1 .. Len(q), i # 1
  PROVE  i - 1 \in 1 .. Len(Tail(q)) /\ Tail(q)[i - 1] = q[i]
<1>1. i - 1 \in 1 .. Len(Tail(q)) /\ (i - 1) + 1 = i
  BY TailShifts
<1> QED BY <1>1, TailShifts

\* Sending adds one place and leaves the others alone.
LEMMA AppendAdds ==
  ASSUME NEW S, NEW q \in Seq(S), NEW e \in S
  PROVE  /\ Append(q, e) \in Seq(S) /\ Len(q) \in Nat /\ Len(Append(q, e)) = Len(q) + 1
         /\ \A i \in 1 .. Len(q) : Append(q, e)[i] = q[i] /\ i \in 1 .. Len(Append(q, e))
         /\ Append(q, e)[Len(q) + 1] = e /\ Len(q) + 1 \in 1 .. Len(Append(q, e))
         /\ \A i \in 1 .. Len(Append(q, e)) : i = Len(q) + 1 \/ i \in 1 .. Len(q)
  OBVIOUS

\* The places of a queue hold elements of its kind.
LEMMA PlacesAreTyped ==
  ASSUME NEW S, NEW q \in Seq(S)
  PROVE  Len(q) \in Nat /\ \A i \in 1 .. Len(q) : q[i] \in S
  OBVIOUS

\* The places of a queue that is kept or gives up its head, d places further on.
LEMMA QueueKeptOrTaken ==
  ASSUME NEW S, NEW q \in Seq(S), NEW r, r = q \/ (q # <<>> /\ r = Tail(q))
  PROVE  \E d \in {0, 1} :
           /\ r # q => d = 1
           /\ \A i \in 1 .. Len(r) : i + d \in 1 .. Len(q) /\ r[i] = q[i + d]
           /\ \A i \in 1 .. Len(q) : (i = 1 /\ d = 1) \/ (i - d \in 1 .. Len(r) /\ r[i - d] = q[i])
<1>1. CASE r = q
  BY <1>1
<1>2. CASE q # <<>> /\ r = Tail(q)
  <2>1. \A i \in 1 .. Len(r) : r[i] = q[i + 1] /\ i + 1 \in 1 .. Len(q)
    BY <1>2, TailShifts
  <2>2. \A i \in 1 .. Len(q) : i = 1 \/ (i - 1 \in 1 .. Len(r) /\ r[i - 1] = q[i])
    BY <1>2, TailKeepsTheRest
  <2> QED BY <2>1, <2>2
<1> QED BY <1>1, <1>2
=============================================================================
