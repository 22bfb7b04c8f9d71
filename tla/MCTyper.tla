------------------------------ MODULE MCTyper ------------------------------
(***************************************************************************)
(* Typer with the code's threshold of three, and texts of nine characters  *)
(* that are blank in any of four places. Sizes without a last              *)
(* quarter, and with one of one and of two characters.                     *)
(***************************************************************************)
EXTENDS Typer

MCRunes == {"x", " "}
MCBlanks == {" "}
MCPlaces == {4, 6, 7, 8}
MCTexts == {[k \in 1..9 |-> IF k \in places THEN " " ELSE "x"] : places \in SUBSET MCPlaces}
MCSizes == {3, 4, 8}
MCThreshold == 3
MCRemembered == MCThreshold + 2

=============================================================================
