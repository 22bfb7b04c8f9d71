---------------------------- MODULE MCMuteWatch ----------------------------
(***************************************************************************)
(* MuteWatch under three configurations: the mute state read from capture  *)
(* that never stops, polled beside it, and polled beside capture that runs *)
(* with the session only, without the flap guard.                          *)
(***************************************************************************)
EXTENDS MuteWatch

MCSetups == {[source |-> "pcm-zero", capture |-> "continuous", threshold |-> 1],
             [source |-> "pipewire", capture |-> "continuous", threshold |-> 1],
             [source |-> "pipewire", capture |-> "on-demand", threshold |-> 0]}

=============================================================================
