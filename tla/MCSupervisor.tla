---------------------------- MODULE MCSupervisor ----------------------------
(***************************************************************************)
(* Supervisor with an ephemeral port, a delay that doubles once before its *)
(* cap cuts it off, and room for two respawns.                             *)
(***************************************************************************)
EXTENDS Supervisor

MCEphemeral == {7, 8}

=============================================================================
