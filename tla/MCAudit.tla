------------------------------ MODULE MCAudit ------------------------------
(***************************************************************************)
(* Audit with two utterances, whose records two goroutines write, over     *)
(* four days of which one is kept.                                         *)
(***************************************************************************)
EXTENDS Audit

MCUtterances == {"u1", "u2"}

=============================================================================
