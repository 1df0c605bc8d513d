----------------------------- MODULE MediaLease -----------------------------
(***************************************************************************)
(* What the screen media slot promises: one lease that the local           *)
(* publication and the remote playback take in turns.  The holder has work *)
(* running; the lease is given back only after that work has ended, either *)
(* because it ended on its own or because the lease was closed.            *)
(***************************************************************************)
VARIABLES
  holder,   \* who has the lease
  working,  \* the holder's task still runs
  closing   \* a stop of the holder has begun

leaseVars == <<holder, working, closing>>

Activities == {"publication", "playback"}

LeaseInit == holder = "nobody" /\ working = FALSE /\ closing = FALSE

Acquire(a) ==
  /\ holder = "nobody"
  /\ holder' = a /\ working' = TRUE /\ closing' = FALSE

Close ==
  /\ holder # "nobody" /\ ~closing
  /\ closing' = TRUE /\ UNCHANGED <<holder, working>>

WorkEnds ==
  /\ working
  /\ working' = FALSE /\ UNCHANGED <<holder, closing>>

Release ==
  /\ holder # "nobody" /\ ~working
  /\ holder' = "nobody" /\ closing' = FALSE /\ UNCHANGED working

LeaseNext == (\E a \in Activities : Acquire(a)) \/ Close \/ WorkEnds \/ Release

\* Work under a closing lease ends, and the lease is then given back.
Spec ==
  /\ LeaseInit /\ [][LeaseNext]_leaseVars
  /\ WF_leaseVars(closing /\ WorkEnds) /\ WF_leaseVars(closing /\ Release)
=============================================================================
