----------------------------- MODULE LossyQueue -----------------------------
(***************************************************************************)
(* What type-mode promises about the order of dictation, with no word of   *)
(* transcription, epochs or goroutines: utterances are accepted into one   *)
(* line of bounded length, and only the head of the line leaves it, typed  *)
(* or dropped.                                                             *)
(***************************************************************************)
EXTENDS Naturals, Sequences

CONSTANTS Utterances,   \* the utterances that may be spoken
          Room          \* how many the line holds

VARIABLES line,         \* accepted, not yet typed nor dropped
          out           \* typed, in the order of typing

LineInit == line = <<>> /\ out = <<>>

Accept(u) ==
    /\ Len(line) < Room
    /\ line' = Append(line, u)
    /\ UNCHANGED out

TypeHead ==
    /\ line # <<>>
    /\ out' = Append(out, Head(line))
    /\ line' = Tail(line)

DropHead ==
    /\ line # <<>>
    /\ line' = Tail(line)
    /\ UNCHANGED out

LineNext == (\E u \in Utterances : Accept(u)) \/ TypeHead \/ DropHead

LineSpec == LineInit /\ [][LineNext]_<<line, out>>

=============================================================================
