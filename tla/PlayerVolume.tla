---------------------------- MODULE PlayerVolume ----------------------------
(***************************************************************************)
(* PlayerVolumeState (shared/ui/src/components/player.rs): the volume a    *)
(* player shows belongs to one playback, and mute remembers where it was.  *)
(***************************************************************************)
EXTENDS Naturals

NewVolume(gen) == [gen |-> gen, percent |-> 100, last |-> 100]

\* sync_generation
SyncedTo(v, gen) == IF v.gen = gen THEN v ELSE NewVolume(gen)

\* set_percent and toggle_mute
Louder(v, percent) ==
  [v EXCEPT !.percent = percent, !.last = IF percent > 0 THEN percent ELSE @]
Muted(v) == [v EXCEPT !.percent = IF @ = 0 THEN v.last ELSE 0]
=============================================================================
