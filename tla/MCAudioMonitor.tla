--------------------------- MODULE MCAudioMonitor ---------------------------
(***************************************************************************)
(* AudioMonitor with one goroutine that flushes: a second one would only   *)
(* wait for the same request channel.                                      *)
(***************************************************************************)
EXTENDS AudioMonitor

MCFlushers == {"close"}

=============================================================================
