----------------------------- MODULE MuteEvents -----------------------------
(***************************************************************************)
(* What the mute sources say and the watcher hears (internal/mute): a      *)
(* state, and whether it is an Initial event or a transition.              *)
(***************************************************************************)

States == {"muted", "unmuted"}
Event == [state : States, initial : BOOLEAN]

=============================================================================
