------------------------------ MODULE Chunking ------------------------------
(***************************************************************************)
(* chunkString (internal/dispatch/typer.go): a text is cut into pieces of  *)
(* at most size runes, each of which one ydotool invocation types. Pieces  *)
(* are given by where they end.                                            *)
(***************************************************************************)
EXTENDS Integers, Sequences

CONSTANTS Runes,  \* the characters
          Blanks, \* space and tab
          Texts,  \* the texts; Type passes no empty one
          Sizes   \* the chunk sizes

ASSUME ChunkingAssumption ==
    /\ Blanks \subseteq Runes
    /\ Texts \subseteq Seq(Runes) \ {<<>>}
    /\ Sizes \subseteq Nat \ {0}

VARIABLES text, size,
          i,      \* start of the piece being cut
          ends,   \* where the pieces cut so far end
          cut     \* the call: "none", "loop" or "done"

chunkVars == <<text, size, i, ends, cut>>

NoCall == cut = "none" /\ text = <<>> /\ i = 0 /\ ends = <<>>

ChunkTypeOK ==
    /\ size \in Sizes
    /\ i \in Nat
    /\ ends \in Seq(1..Len(text))
    /\ cut \in {"none", "loop", "done"}
    /\ IF cut = "none" THEN NoCall ELSE text \in Texts /\ i \in 0..Len(text)

ChunkInit ==
    /\ size \in Sizes
    /\ NoCall

\* chunkString is called with a text.
Call ==
    /\ cut = "none" /\ cut' = "loop"
    /\ text' \in Texts
    /\ UNCHANGED <<size, i, ends>>

\* Blanks within the last quarter of the window that starts at p.
Boundaries(p) == {j \in (p + size - size \div 4 + 1)..(p + size) : text[j] \in Blanks}

\* Fault: a boundary anywhere in the window will do, the window's start included.
SplitEarly(p) ==
    LET near == {j \in p..(p + size) : j > 0 /\ text[j] \in Blanks}
    IN IF near = {} THEN p + size ELSE CHOOSE j \in near : \A k \in near : k <= j

\* Fault: the window is always filled.
SplitFull(p) == p + size

\* The last of them, or the full size.
Split(p) ==
    IF Boundaries(p) = {} THEN p + size
    ELSE CHOOSE j \in Boundaries(p) : \A k \in Boundaries(p) : k <= j

\* What is left fits into one piece; so does a short text as a whole.
Rest ==
    /\ cut = "loop" /\ i + size >= Len(text)
    /\ ends' = Append(ends, Len(text))
    /\ cut' = "done"
    /\ UNCHANGED <<text, size, i>>

\* Fault: the next piece starts at the full window.
CutLosesTail ==
    /\ cut = "loop" /\ i + size < Len(text)
    /\ ends' = Append(ends, Split(i))
    /\ i' = i + size
    /\ UNCHANGED <<text, size, cut>>

Cut ==
    /\ cut = "loop" /\ i + size < Len(text)
    /\ ends' = Append(ends, Split(i))
    /\ i' = Split(i)
    /\ UNCHANGED <<text, size, cut>>

\* The pieces have been dealt with.
Forget ==
    /\ cut = "done" /\ cut' = "none"
    /\ text' = <<>> /\ i' = 0 /\ ends' = <<>>
    /\ UNCHANGED size

ChunkNext == Call \/ Rest \/ Cut \/ Forget

ChunkSpec == ChunkInit /\ [][ChunkNext]_chunkVars
-----------------------------------------------------------------------------

Start(k) == IF k = 1 THEN 0 ELSE ends[k - 1]

\* No piece is empty or longer than size, whatever the text: an oversized one
\* holds the keyboard, an empty one never ends the loop (typer.go:445).
PiecesFit == \A k \in 1..Len(ends) : ends[k] - Start(k) \in 1..size

\* The pieces cover the text without a gap: each starts where the last ended,
\* and the last one ends with the text (typer.go:475).
TextCovered ==
    /\ cut = "loop" => i = IF ends = <<>> THEN 0 ELSE ends[Len(ends)]
    /\ cut = "done" => ends # <<>> /\ ends[Len(ends)] = Len(text)

\* A word is only cut when the last quarter of the window holds no blank, and
\* then the piece is full (typer.go:446).
WordsKept ==
    \A k \in 1..(Len(ends) - 1) :
        \/ text[ends[k]] \in Blanks
        \/ /\ ends[k] = Start(k) + size
           /\ Boundaries(Start(k)) = {}
=============================================================================
