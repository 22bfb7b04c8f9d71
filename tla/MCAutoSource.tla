---------------------------- MODULE MCAutoSource ----------------------------
(***************************************************************************)
(* AutoSource over the two sources of buildMuteSource.                     *)
(***************************************************************************)
EXTENDS AutoSource

MCSubs == {"pcm-zero", "pipewire"}
MCPolling == {"pipewire"}

=============================================================================
