----------------------------- MODULE MCSession -----------------------------
(***************************************************************************)
(* Session on small instances. Threads of one kind are interchangeable;    *)
(* only runs of safety properties use that.                                *)
(***************************************************************************)
EXTENDS Session, TLC

ClientSymmetry == Permutations(Clients)
CallbackSymmetry == Permutations(Callbacks)

=============================================================================
