----------------------------- MODULE MCControl -----------------------------
(***************************************************************************)
(* Control with two connections and one goroutine that serves none. The    *)
(* one filter is of the event that commands publish, and leaves one out.   *)
(***************************************************************************)
EXTENDS Control

MCPeers == {"panel", "cli"}
MCPublishers == {"asr"}
MCNames == {"transcript", "session_state"}
MCFilters == {{"session_state"}}

=============================================================================
