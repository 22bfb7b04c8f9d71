----------------------------- MODULE TyperProofs -----------------------------
(***************************************************************************)
(* The keyboard dispatcher for every set of texts, every chunk size and    *)
(* every threshold: it cuts texts as chunkString does, and its breaker     *)
(* follows the history of attempts.                                        *)
(***************************************************************************)
EXTENDS Typer, TLAPS, WellFoundedInduction, SequenceTheorems

-----------------------------------------------------------------------------
(* chunkString: every text and every size.                                 *)

NatLess == {ss \in Nat \X Nat : ss[1] < ss[2]}

\* The library's fact on the naturals, in a form the provers can use.
LEMMA NatLessWellFounded == IsWellFoundedOn(NatLess, Nat)
  BY NatLessThanWellFounded DEF OpToRel, NatLess

\* A bounded set of integers that is not empty has a largest element: the one
\* whose distance from the bound is least.
LEMMA Largest ==
    ASSUME NEW S \in SUBSET Int, S # {}, NEW b \in Int, \A k \in S : k <= b
    PROVE  \E j \in S : \A k \in S : k <= j
  <1> DEFINE Distances == {b - k : k \in S}
  <1>1. Distances \subseteq Nat
    <2>1. \A k \in S : b - k \in Nat
      OBVIOUS
    <2> QED BY <2>1
  <1>2. Distances # {}
    <2>1. PICK k \in S : TRUE
      OBVIOUS
    <2>2. b - k \in Distances
      BY <2>1
    <2> QED BY <2>2
  <1>3. PICK x \in Distances : \A y \in Distances : <<y, x>> \notin NatLess
    <2> HIDE DEF Distances
    <2> QED BY <1>1, <1>2, NatLessWellFounded, WFMin
  <1>4. PICK j \in S : x = b - j
    BY <1>3
  <1>5. ASSUME NEW k \in S
        PROVE  k <= j
    <2>1. b - k \in Distances /\ <<b - k, x>> \notin NatLess
      BY <1>3
    <2>2. ~ (b - k < b - j)
      BY <2>1, <1>1, <1>3, <1>4 DEF NatLess
    <2> QED BY <2>2
  <1> QED BY <1>5

\* A text is a non-empty sequence, and a size a positive number.
LEMMA Constants ==
    /\ \A t \in Texts : t \in Seq(Runes) /\ Len(t) \in Nat \ {0}
    /\ \A z \in Sizes : z \in Nat \ {0} /\ z \div 4 \in Nat /\ z \div 4 < z
  <1>1. ASSUME NEW t \in Texts
        PROVE  t \in Seq(Runes) /\ Len(t) \in Nat \ {0}
    BY ChunkingAssumption
  <1>2. ASSUME NEW z \in Sizes
        PROVE  z \in Nat \ {0} /\ z \div 4 \in Nat /\ z \div 4 < z
    BY ChunkingAssumption
  <1> QED BY <1>1, <1>2

\* A cut lies within the window: after a blank, or at its end when the last
\* quarter holds none.
LEMMA SplitFits ==
    ASSUME size \in Sizes, NEW p \in Nat
    PROVE  /\ Split(p) \in (p + 1)..(p + size)
           /\ \/ text[Split(p)] \in Blanks
              \/ Boundaries(p) = {} /\ Split(p) = p + size
  <1>1. size \in Nat \ {0} /\ size \div 4 \in Nat /\ size \div 4 < size
    BY Constants
  <1>2. Boundaries(p) \subseteq (p + 1)..(p + size)
    BY <1>1 DEF Boundaries
  <1>3. CASE Boundaries(p) = {}
    BY <1>1, <1>3 DEF Split
  <1>4. CASE Boundaries(p) # {}
    <2>1. \E j \in Boundaries(p) : \A k \in Boundaries(p) : k <= j
      <3>1. Boundaries(p) \in SUBSET Int /\ p + size \in Int
            /\ \A k \in Boundaries(p) : k <= p + size
        BY <1>1, <1>2
      <3> QED BY <3>1, <1>4, Largest
    <2>2. Split(p) \in Boundaries(p)
      BY <1>4, <2>1 DEF Split
    <2>3. text[Split(p)] \in Blanks
      BY <2>2 DEF Boundaries
    <2> QED BY <1>2, <2>2, <2>3
  <1> QED BY <1>3, <1>4

\* In the loop there is text left, so a piece is never empty.
TextLeft == cut = "loop" => i < Len(text)

\* Every piece that is followed by another was cut by Split.
CutInv == ChunkTypeOK /\ TextLeft /\ PiecesFit /\ TextCovered /\ WordsKept

\* The loop starts with nothing cut.
LEMMA CutInit == ChunkInit => CutInv
  <1> SUFFICES ASSUME ChunkInit PROVE CutInv
    OBVIOUS
  <1>1. ChunkTypeOK /\ TextLeft
    BY DEF ChunkInit, NoCall, ChunkTypeOK, TextLeft
  <1>2. PiecesFit /\ TextCovered /\ WordsKept
    BY DEF ChunkInit, NoCall, PiecesFit, TextCovered, WordsKept
  <1> QED BY <1>1, <1>2 DEF CutInv

\* A piece added at the end of the ones before leaves those as they are.
LEMMA PieceAdded ==
    ASSUME CutInv, cut = "loop", NEW e \in 1..Len(text), e - i \in 1..size,
           ends' = Append(ends, e), text' = text, size' = size
    PROVE  /\ ends' \in Seq(1..Len(text)) /\ ends' # <<>>
           /\ Len(ends') = Len(ends) + 1 /\ ends'[Len(ends')] = e
           /\ \A k \in 1..Len(ends) : ends'[k] = ends[k] /\ Start(k)' = Start(k)
           /\ \A k \in Nat : k = Len(ends) + 1 => Start(k)' = i
           /\ PiecesFit'
  <1>1. /\ Len(text) \in Nat \ {0} /\ size \in Nat \ {0} /\ i \in Nat
        /\ ends \in Seq(1..Len(text)) /\ Len(ends) \in Nat
        /\ \A k \in 1..Len(ends) : ends[k] \in 1..Len(text)
    <2>1. /\ text \in Texts /\ size \in Sizes /\ i \in Nat /\ ends \in Seq(1..Len(text))
      BY DEF CutInv, ChunkTypeOK
    <2>2. Len(text) \in Nat \ {0} /\ size \in Nat \ {0}
      BY <2>1, Constants
    <2> QED BY <2>1, <2>2
  <1>2. /\ ends' \in Seq(1..Len(text)) /\ Len(ends') = Len(ends) + 1 /\ ends'[Len(ends) + 1] = e
        /\ \A k \in 1..Len(ends) : ends'[k] = ends[k]
    BY <1>1
  <1>3. ends' # <<>>
    BY <1>1, <1>2, EmptySeq
  <1>4. ASSUME NEW k \in Nat, k = Len(ends) + 1
        PROVE  Start(k)' = i
    <2>1. CASE Len(ends) = 0
      <3>1. ends = <<>> /\ i = 0
        BY <1>1, <2>1, EmptySeq DEF CutInv, TextCovered
      <3> QED BY <1>4, <2>1, <3>1 DEF Start
    <2>2. CASE Len(ends) # 0
      <3>1. ends # <<>>
        BY <1>1, <2>2, EmptySeq
      <3>2. i = ends[Len(ends)]
        BY <3>1 DEF CutInv, TextCovered
      <3>3. Len(ends) \in 1..Len(ends) /\ k # 1 /\ k - 1 = Len(ends)
        BY <1>1, <1>4, <2>2
      <3>4. ends'[Len(ends)] = ends[Len(ends)]
        BY <1>2, <3>3
      <3> QED BY <3>2, <3>3, <3>4 DEF Start
    <2> QED BY <2>1, <2>2
  <1>5. ASSUME NEW k \in 1..Len(ends)
        PROVE  Start(k)' = Start(k)
    <2>1. k # 1 => k - 1 \in 1..Len(ends)
      BY <1>1
    <2>2. k # 1 => ends'[k - 1] = ends[k - 1]
      BY <1>2, <2>1
    <2> QED BY <2>2 DEF Start
  <1>6. PiecesFit'
    <2> SUFFICES ASSUME NEW k \in 1..Len(ends')
                 PROVE  ends'[k] - Start(k)' \in 1..size'
      BY DEF PiecesFit
    <2>1. CASE k = Len(ends) + 1
      BY <2>1, <1>2, <1>4
    <2>2. CASE k # Len(ends) + 1
      <3>1. k \in 1..Len(ends)
        BY <1>1, <1>2, <2>2
      <3>2. ends[k] - Start(k) \in 1..size
        BY <3>1 DEF CutInv, PiecesFit
      <3> QED BY <1>2, <1>5, <3>1, <3>2
    <2> QED BY <2>1, <2>2
  <1> QED BY <1>2, <1>3, <1>4, <1>5, <1>6

\* What WordsKept says of a piece that another follows.
Kept(k) ==
    \/ text[ends[k]] \in Blanks
    \/ ends[k] = Start(k) + size /\ Boundaries(Start(k)) = {}

\* It also holds of the last piece while the loop goes on.
AllKept == cut = "loop" => \A k \in 1..Len(ends) : Kept(k)

\* Each step keeps the invariant.
LEMMA CutNext == CutInv /\ AllKept /\ [ChunkNext]_chunkVars => CutInv' /\ AllKept'
  <1> SUFFICES ASSUME CutInv, AllKept, [ChunkNext]_chunkVars PROVE CutInv' /\ AllKept'
    OBVIOUS
  <1>1. cut = "loop" =>
            /\ Len(text) \in Nat \ {0} /\ size \in Nat \ {0} /\ size \in Sizes /\ i \in Nat
            /\ ends \in Seq(1..Len(text)) /\ Len(ends) \in Nat
            /\ \A k \in 1..Len(ends) : ends[k] \in 1..Len(text)
    BY Constants DEF CutInv, ChunkTypeOK
  <1>2. ASSUME NEW k \in 1..Len(ends), cut = "loop", text' = text, size' = size,
               ends'[k] = ends[k], Start(k)' = Start(k)
        PROVE  Kept(k)'
    <2>1. Kept(k)
      BY <1>2 DEF AllKept
    <2> QED BY <1>2, <2>1 DEF Kept, Boundaries
  <1>3. CASE Rest
    <2>1. /\ cut = "loop" /\ ends' = Append(ends, Len(text)) /\ text' = text /\ size' = size
          /\ Len(text) \in 1..Len(text) /\ Len(text) - i \in 1..size
      BY <1>1, <1>3 DEF Rest, CutInv, TextLeft
    <2>2. /\ ends' \in Seq(1..Len(text)) /\ ends' # <<>>
          /\ Len(ends') = Len(ends) + 1 /\ ends'[Len(ends')] = Len(text)
          /\ \A k \in 1..Len(ends) : ends'[k] = ends[k] /\ Start(k)' = Start(k)
          /\ PiecesFit'
      BY <2>1, PieceAdded
    <2>3. ChunkTypeOK' /\ TextLeft' /\ TextCovered' /\ AllKept'
      BY <1>3, <2>2 DEF Rest, CutInv, ChunkTypeOK, TextLeft, TextCovered, AllKept
    <2>4. WordsKept'
      <3>1. \A k \in 1..(Len(ends') - 1) : Kept(k)'
        BY <1>1, <1>2, <2>1, <2>2
      <3> QED BY <3>1 DEF WordsKept, Kept
    <2> QED BY <2>2, <2>3, <2>4 DEF CutInv
  <1>4. CASE Cut
    <2>1. /\ cut = "loop" /\ ends' = Append(ends, Split(i)) /\ text' = text /\ size' = size
          /\ i + size < Len(text) /\ i' = Split(i) /\ cut' = "loop"
      BY <1>4 DEF Cut
    <2>2. /\ Split(i) \in (i + 1)..(i + size)
          /\ \/ text[Split(i)] \in Blanks
             \/ Boundaries(i) = {} /\ Split(i) = i + size
      BY <1>1, <2>1, SplitFits
    <2>3. Split(i) \in 1..Len(text) /\ Split(i) < Len(text) /\ Split(i) - i \in 1..size
      BY <1>1, <2>1, <2>2
    <2>4. /\ ends' \in Seq(1..Len(text)) /\ ends' # <<>>
          /\ Len(ends') = Len(ends) + 1 /\ ends'[Len(ends')] = Split(i)
          /\ \A k \in 1..Len(ends) : ends'[k] = ends[k] /\ Start(k)' = Start(k)
          /\ \A k \in Nat : k = Len(ends) + 1 => Start(k)' = i
          /\ PiecesFit'
      BY <2>1, <2>3, PieceAdded
    <2>5. ChunkTypeOK' /\ TextLeft' /\ TextCovered'
      <3>1. ChunkTypeOK'
        BY <2>1, <2>3, <2>4 DEF CutInv, ChunkTypeOK
      <3>2. TextLeft'
        BY <2>1, <2>3 DEF TextLeft
      <3>3. TextCovered'
        BY <2>1, <2>4 DEF TextCovered
      <3> QED BY <3>1, <3>2, <3>3
    <2>6. ASSUME NEW k \in 1..Len(ends')
          PROVE  Kept(k)'
      <3>1. CASE k \in 1..Len(ends)
        BY <1>2, <2>1, <2>4, <3>1
      <3>2. CASE k = Len(ends) + 1
        <4>1. Start(k)' = i /\ ends'[k] = Split(i)
          BY <1>1, <2>4, <3>2
        <4> QED BY <2>1, <2>2, <4>1 DEF Kept, Boundaries
      <3> QED BY <1>1, <2>4, <3>1, <3>2
    <2>7. WordsKept' /\ AllKept'
      <3>1. \A k \in 1..(Len(ends') - 1) : Kept(k)'
        BY <1>1, <2>4, <2>6
      <3>2. WordsKept'
        BY <3>1 DEF WordsKept, Kept
      <3> QED BY <3>2, <2>6 DEF AllKept
    <2> QED BY <2>4, <2>5, <2>7 DEF CutInv
  <1>5. CASE UNCHANGED chunkVars
    BY <1>5 DEF chunkVars, CutInv, AllKept, Kept, ChunkTypeOK, NoCall, TextLeft, PiecesFit, TextCovered, WordsKept,
                Start, Boundaries
  <1>6. CASE Call
    <2>1. cut' = "loop" /\ text' \in Texts /\ i' = 0 /\ ends' = <<>> /\ size' = size
      BY <1>6 DEF Call, CutInv, ChunkTypeOK, NoCall
    <2>2. Len(text') \in Nat \ {0}
      BY <2>1, Constants
    <2>3. ChunkTypeOK' /\ TextLeft'
      BY <2>1, <2>2 DEF CutInv, ChunkTypeOK, TextLeft
    <2>4. PiecesFit' /\ TextCovered' /\ WordsKept' /\ AllKept'
      BY <2>1 DEF PiecesFit, TextCovered, WordsKept, AllKept
    <2> QED BY <2>3, <2>4 DEF CutInv
  <1>7. CASE Forget
    <2>1. cut' = "none" /\ text' = <<>> /\ i' = 0 /\ ends' = <<>> /\ size' = size
      BY <1>7 DEF Forget
    <2>2. ChunkTypeOK' /\ TextLeft'
      BY <2>1 DEF CutInv, ChunkTypeOK, NoCall, TextLeft
    <2>3. PiecesFit' /\ TextCovered' /\ WordsKept' /\ AllKept'
      BY <2>1 DEF PiecesFit, TextCovered, WordsKept, AllKept
    <2> QED BY <2>2, <2>3 DEF CutInv
  <1> QED BY <1>3, <1>4, <1>5, <1>6, <1>7 DEF ChunkNext

\* Every state of every text and size satisfies it.
LEMMA CutAlways == ChunkSpec => [](CutInv /\ AllKept)
  <1>1. ChunkInit => CutInv /\ AllKept
    BY CutInit DEF ChunkInit, NoCall, AllKept
  <1> QED BY <1>1, CutNext, PTL DEF ChunkSpec

\* The splitter's state stays of its types (typer.go:449).
THEOREM TypesAlwaysOK == ChunkSpec => []ChunkTypeOK
  <1>1. CutInv => ChunkTypeOK
    BY DEF CutInv
  <1> QED BY <1>1, CutAlways, PTL

\* No piece is ever empty or oversized, for every text and size (typer.go:445).
THEOREM PiecesAlwaysFit == ChunkSpec => []PiecesFit
  <1>1. CutInv => PiecesFit
    BY DEF CutInv
  <1> QED BY <1>1, CutAlways, PTL

\* The pieces always cover the text up to i, and all of it at the end
\* (typer.go:475).
THEOREM TextAlwaysCovered == ChunkSpec => []TextCovered
  <1>1. CutInv => TextCovered
    BY DEF CutInv
  <1> QED BY <1>1, CutAlways, PTL

\* A word is only ever cut when its window ends without a blank (typer.go:446).
THEOREM WordsAlwaysKept == ChunkSpec => []WordsKept
  <1>1. CutInv => WordsKept
    BY DEF CutInv
  <1> QED BY <1>1, CutAlways, PTL

-----------------------------------------------------------------------------
(* Type cuts as chunkString does.                                          *)

\* Where Type is says how far chunkString is.
Phases ==
    /\ cut = "none" <=> at \in {"idle", "called"}
    /\ cut = "loop" <=> at = "cut"

\* The variables of Type itself, whatever the text.
OwnTypeOK ==
    /\ at \in {"idle", "called", "cut", "invoke", "pause", "sweep", "record"}
    /\ next \in 0..Len(ends)
    /\ failed \in BOOLEAN /\ killed \in BOOLEAN /\ swept \in BOOLEAN
    /\ failures \in 0..Remembered
    /\ breaker \in {"open", "closed"} /\ cooled \in BOOLEAN
    /\ notified \in BOOLEAN /\ notices \in 0..2
    /\ ctx \in {"live", "cancelled"}
    /\ tool \in {"ok", "fails", "hangs"}
    /\ history \in Seq({"ok", "failed"}) /\ Len(history) <= Remembered

\* Type calls chunkString once for each attempt, and nothing else touches the
\* pieces (typer.go:228).
LEMMA StepsCut == [Next]_vars => [ChunkNext]_chunkVars
  <1> SUFFICES ASSUME [Next]_vars PROVE ChunkNext \/ UNCHANGED chunkVars
    OBVIOUS
  <1>1. CASE Attempt
    BY <1>1 DEF Attempt, AllowAttempt, CutPiece, CutRest, PieceTyped, PauseEnds, PauseCancelled,
                InvokeFails, InvokeKilled, ReleaseAllKeys, Record, ChunkNext, callVars
  <1>2. CASE Type \/ CooldownElapses \/ Cancel \/ ToolChanges \/ UNCHANGED vars
    BY <1>2 DEF Type, CooldownElapses, Cancel, ToolChanges, vars, callVars
  <1> QED BY <1>1, <1>2 DEF Next

\* The dispatcher implements the splitter (typer.go:227-244).
THEOREM TyperCuts == Spec => ChunkSpec
  <1>1. Init => ChunkInit
    BY DEF Init
  <1> QED BY <1>1, StepsCut, PTL DEF Spec, ChunkSpec

\* Every piece ydotool is given fits (typer.go:352, 445).
THEOREM TypedPiecesFit == Spec => []PiecesFit
  BY TyperCuts, PiecesAlwaysFit, PTL

\* The pieces of every text cover it (typer.go:475).
THEOREM TypedTextCovered == Spec => []TextCovered
  BY TyperCuts, TextAlwaysCovered, PTL

\* No text is cut inside a word without need (typer.go:446).
THEOREM TypedWordsKept == Spec => []WordsKept
  BY TyperCuts, WordsAlwaysKept, PTL

-----------------------------------------------------------------------------
(* Types.                                                                  *)

LEMMA Bounds == Threshold \in Nat \ {0} /\ Remembered \in Nat /\ Remembered > Threshold
  BY TyperAssumption

LEMMA TailOfHistory ==
    ASSUME NEW h \in Seq({"ok", "failed"}), Len(h) > 0
    PROVE  /\ Tail(h) \in Seq({"ok", "failed"}) /\ Len(Tail(h)) = Len(h) - 1
           /\ \A k \in 1..(Len(h) - 1) : Tail(h)[k] = h[k + 1]
  BY SMT

\* Remembering an outcome: the history stays bounded, the outcome is its last,
\* and what was k places from the end is k + 1 places from it.
LEMMA Remembering ==
    ASSUME OwnTypeOK, NEW o \in {"ok", "failed"}, Remember(o)
    PROVE  /\ history' \in Seq({"ok", "failed"}) /\ Len(history') <= Remembered
           /\ Len(history') > 0 /\ history'[Len(history')] = o
           /\ Len(history') = IF Len(history) = Remembered THEN Remembered ELSE Len(history) + 1
           /\ \A k \in 0..(Len(history') - 2) :
                  history'[Len(history') - (k + 1)] = history[Len(history) - k]
  <1>1. history \in Seq({"ok", "failed"}) /\ Len(history) \in Nat /\ Len(history) <= Remembered
    BY DEF OwnTypeOK
  <1>2. CASE Len(history) = Remembered
    <2>1. Len(history) > 0
      BY <1>2, Bounds
    <2>2. /\ Tail(history) \in Seq({"ok", "failed"}) /\ Len(Tail(history)) = Remembered - 1
          /\ \A k \in 1..(Remembered - 1) : Tail(history)[k] = history[k + 1]
      BY <1>1, <1>2, <2>1, TailOfHistory
    <2>3. history' = Append(Tail(history), o)
      BY <1>2 DEF Remember
    <2>4. /\ history' \in Seq({"ok", "failed"}) /\ Len(history') = Remembered
          /\ history'[Remembered] = o
          /\ \A k \in 1..(Remembered - 1) : history'[k] = history[k + 1]
      BY <2>2, <2>3, Bounds
    <2> QED BY <1>2, <2>4, Bounds
  <1>3. CASE Len(history) # Remembered
    <2>1. history' = Append(history, o)
      BY <1>3 DEF Remember
    <2>2. /\ history' \in Seq({"ok", "failed"}) /\ Len(history') = Len(history) + 1
          /\ history'[Len(history) + 1] = o
          /\ \A k \in 1..Len(history) : history'[k] = history[k]
      BY <1>1, <2>1
    <2> QED BY <1>1, <1>3, <2>2, Bounds
  <1> QED BY <1>2, <1>3

\* Every step keeps the variables' types.
LEMMA OwnTypeNext ==
    ASSUME ChunkTypeOK, OwnTypeOK, Phases, [Next]_vars
    PROVE  OwnTypeOK' /\ Phases'
  <1>1. ASSUME NEW n \in Nat
        PROVE  n <= Remembered + 1 => Capped(n) \in 0..Remembered
    BY <1>1, Bounds DEF Capped
  <1>2. CASE Type \/ PauseEnds \/ UNCHANGED vars
    BY <1>2 DEF Type, PauseEnds, vars, callVars, breakerVars, envVars, chunkVars, OwnTypeOK, Phases
  <1>3. CASE PauseCancelled \/ InvokeFails \/ InvokeKilled
    BY <1>3 DEF PauseCancelled, InvokeFails, InvokeKilled, breakerVars, envVars, chunkVars,
                OwnTypeOK, Phases
  <1>4. CASE ReleaseAllKeys
    <2>1. swept' \in BOOLEAN
      BY <1>4 DEF ReleaseAllKeys
    <2> QED BY <1>4, <2>1 DEF ReleaseAllKeys, breakerVars, envVars, chunkVars, OwnTypeOK, Phases
  <1>5. CASE CooldownElapses
    BY <1>5 DEF CooldownElapses, callVars, envVars, chunkVars, OwnTypeOK, Phases
  <1>6. CASE Cancel \/ ToolChanges
    <2>1. ctx' \in {"live", "cancelled"} /\ tool' \in {"ok", "fails", "hangs"}
      BY <1>6 DEF Cancel, ToolChanges, OwnTypeOK
    <2>2. UNCHANGED <<at, callVars, breakerVars, history>>
      BY <1>6 DEF Cancel, ToolChanges
    <2> QED BY <2>1, <2>2 DEF callVars, breakerVars, chunkVars, OwnTypeOK, Phases
  <1>7. CASE AllowAttempt
    BY <1>7 DEF AllowAttempt, Call, callVars, breakerVars, envVars, chunkVars, OwnTypeOK, Phases
  <1>8. CASE CutPiece
    <2>1. ends \in Seq(1..Len(text)) /\ ends' = Append(ends, Split(i))
      BY <1>8 DEF CutPiece, Cut, ChunkTypeOK
    <2>2. Len(ends') = Len(ends) + 1 /\ Len(ends) \in Nat
      BY <2>1
    <2> QED BY <1>8, <2>2 DEF CutPiece, Cut, breakerVars, envVars, OwnTypeOK, Phases
  <1>9. CASE CutRest
    <2>1. ends \in Seq(1..Len(text)) /\ ends' = Append(ends, Len(text))
      BY <1>9 DEF CutRest, Rest, ChunkTypeOK
    <2>2. Len(ends') = Len(ends) + 1 /\ Len(ends) \in Nat
      BY <2>1
    <2> QED BY <1>9, <2>2 DEF CutRest, Rest, breakerVars, envVars, OwnTypeOK, Phases
  <1>10. CASE PieceTyped
    <2>1. Len(ends) \in Nat
      BY DEF ChunkTypeOK
    <2>2. next' \in 0..Len(ends')
      BY <1>10, <2>1 DEF PieceTyped, OwnTypeOK, chunkVars
    <2> QED BY <1>10, <2>2 DEF PieceTyped, chunkVars, breakerVars, envVars, OwnTypeOK, Phases
  <1>11. CASE Record
    <2>1. /\ cut' = "none" /\ ends' = <<>> /\ next' = 0 /\ at' = "idle"
          /\ failed' = FALSE /\ killed' = FALSE /\ swept' = FALSE /\ UNCHANGED envVars
      BY <1>11 DEF Record, Forget
    <2>2. /\ failures' \in 0..Remembered /\ breaker' \in {"open", "closed"} /\ cooled' \in BOOLEAN
          /\ notified' \in BOOLEAN /\ notices' \in 0..2
          /\ history' \in Seq({"ok", "failed"}) /\ Len(history') <= Remembered
      <3>1. CASE RecordCancelled
        BY <3>1 DEF RecordCancelled, breakerVars, OwnTypeOK
      <3>2. CASE RecordOK
        <4>1. history' \in Seq({"ok", "failed"}) /\ Len(history') <= Remembered
          BY <3>2, Remembering DEF RecordOK
        <4>2. failures' = 0 /\ 0 \in 0..Remembered /\ breaker' = "closed" /\ notices' = 0
          BY <3>2, Bounds DEF RecordOK
        <4>3. cooled' \in BOOLEAN /\ notified' \in BOOLEAN
          BY <3>2 DEF RecordOK
        <4> QED BY <4>1, <4>2, <4>3
      <3>3. CASE RecordFailure
        <4>1. history' \in Seq({"ok", "failed"}) /\ Len(history') <= Remembered
          BY <3>3, Remembering DEF RecordFailure
        <4>2. failures' \in 0..Remembered
          BY <3>3, <1>1, Bounds DEF RecordFailure, OwnTypeOK
        <4>3. /\ breaker' \in {"open", "closed"} /\ cooled' = FALSE
              /\ notices' \in 0..2
          BY <3>3 DEF RecordFailure, OwnTypeOK
        <4>4. notified' \in BOOLEAN
          BY <3>3 DEF RecordFailure
        <4> QED BY <4>1, <4>2, <4>3, <4>4
      <3> QED BY <1>11, <3>1, <3>2, <3>3 DEF Record
    <2>3. next' \in 0..Len(ends') /\ ctx' \in {"live", "cancelled"} /\ tool' \in {"ok", "fails", "hangs"}
      BY <2>1 DEF envVars, OwnTypeOK
    <2>4. failed' \in BOOLEAN /\ killed' \in BOOLEAN /\ swept' \in BOOLEAN
      BY <2>1
    <2>5. Phases'
      BY <2>1 DEF Phases
    <2> QED BY <2>1, <2>2, <2>3, <2>4, <2>5 DEF OwnTypeOK
  <1> QED BY <1>2, <1>3, <1>4, <1>5, <1>6, <1>7, <1>8, <1>9, <1>10, <1>11 DEF Next, Attempt

\* No text and no piece yet.
LEMMA OwnTypeInit == Init => OwnTypeOK /\ Phases
  <1> SUFFICES ASSUME Init PROVE OwnTypeOK /\ Phases
    OBVIOUS
  <1>1. next \in 0..Len(ends) /\ failures \in 0..Remembered /\ notices \in 0..2
    BY Bounds DEF Init, ChunkInit, NoCall
  <1>2. history \in Seq({"ok", "failed"}) /\ Len(history) <= Remembered
    BY Bounds DEF Init
  <1>3. /\ failed \in BOOLEAN /\ killed \in BOOLEAN /\ swept \in BOOLEAN
        /\ cooled \in BOOLEAN /\ notified \in BOOLEAN
    BY DEF Init
  <1>4. /\ at = "idle" /\ breaker = "closed" /\ ctx = "live" /\ tool = "ok" /\ cut = "none"
    BY DEF Init, ChunkInit, NoCall
  <1> QED BY <1>1, <1>2, <1>3, <1>4 DEF OwnTypeOK, Phases

LEMMA AlwaysOwnType == Spec => [](ChunkTypeOK /\ OwnTypeOK /\ Phases)
  <1>1. Spec => []ChunkTypeOK
    BY TyperCuts, TypesAlwaysOK, PTL
  <1>2. Init => OwnTypeOK /\ Phases
    BY OwnTypeInit
  <1>3. ChunkTypeOK /\ OwnTypeOK /\ Phases /\ [Next]_vars => (OwnTypeOK /\ Phases)'
    BY OwnTypeNext
  <1> QED BY <1>1, <1>2, <1>3, PTL DEF Spec

\* Every variable keeps its type, and next names a piece that was cut
\* (typer.go:192-301).
THEOREM TypeCorrect == Spec => []TypeOK
  <1>1. ChunkTypeOK /\ OwnTypeOK => TypeOK
    BY DEF OwnTypeOK, TypeOK
  <1> QED BY <1>1, AlwaysOwnType, PTL

-----------------------------------------------------------------------------
(***************************************************************************)
(* The breaker. What makes it follow the history is that failures counts   *)
(* the failures at the history's end: all of those, and no more.           *)
(***************************************************************************)

Counted ==
    /\ Outage(failures)
    /\ failures < Remembered => ~Outage(failures + 1)

BreakerInv ==
    /\ Counted
    /\ breaker = "open" <=> failures >= Threshold
    /\ notified <=> breaker = "open"
    /\ notices = IF breaker = "open" THEN 1 ELSE 0

\* A longer outage is one of every shorter length, too.
LEMMA OutageShorter ==
    ASSUME OwnTypeOK, NEW n \in Nat, NEW m \in 0..n, Outage(n)
    PROVE  Outage(m)
  BY DEF Outage, OwnTypeOK

\* A failure makes every outage one longer ...
LEMMA OutageGrows ==
    ASSUME OwnTypeOK, Remember("failed"), NEW n \in Nat, n < Remembered
    PROVE  Outage(n + 1)' <=> Outage(n)
  <1> DEFINE L == Len(history)
             M == Len(history')
  <1>1. /\ L \in Nat /\ M \in Nat /\ M > 0 /\ history'[M] = "failed"
        /\ M = IF L = Remembered THEN Remembered ELSE L + 1
        /\ \A k \in 0..(M - 2) : history'[M - (k + 1)] = history[L - k]
    BY Remembering DEF OwnTypeOK
  <1> HIDE DEF L, M
  <1>2. L >= n <=> M >= n + 1
    BY <1>1, Bounds
  <1>3. ASSUME M >= n + 1, \A k \in 0..n : history'[M - k] = "failed", NEW k \in 0..(n - 1)
        PROVE  history[L - k] = "failed"
    <2>1. k + 1 \in 0..n /\ k \in 0..(M - 2)
      BY <1>1, <1>3
    <2> QED BY <1>1, <1>3, <2>1
  <1>4. ASSUME M >= n + 1, \A k \in 0..(n - 1) : history[L - k] = "failed", NEW k \in 0..n
        PROVE  history'[M - k] = "failed"
    <2>1. CASE k = 0
      BY <1>1, <2>1
    <2>2. CASE k # 0
      <3>1. k - 1 \in 0..(n - 1) /\ k - 1 \in 0..(M - 2) /\ (k - 1) + 1 = k
        BY <1>1, <1>4, <2>2
      <3>2. history'[M - ((k - 1) + 1)] = history[L - (k - 1)]
        BY <1>1, <3>1
      <3> QED BY <1>4, <3>1, <3>2
    <2> QED BY <2>1, <2>2
  <1>5. Outage(n) <=> L >= n /\ \A k \in 0..(n - 1) : history[L - k] = "failed"
    BY DEF Outage, L
  <1>6. Outage(n + 1)' <=> M >= n + 1 /\ \A k \in 0..n : history'[M - k] = "failed"
    BY DEF Outage, M
  <1> QED BY <1>2, <1>3, <1>4, <1>5, <1>6

\* ... and a success ends it.
LEMMA OutageEnds ==
    ASSUME OwnTypeOK, Remember("ok")
    PROVE  ~Outage(1)' /\ Outage(0)'
  <1>1. history'[Len(history')] = "ok" /\ Len(history') \in Nat
    BY Remembering
  <1> QED BY <1>1 DEF Outage

\* A failure that counts: the count follows the history.
LEMMA FailureCounted ==
    ASSUME OwnTypeOK, Counted, Remember("failed"), failures' = Capped(failures + 1)
    PROVE  Counted'
  <1>1. PICK n \in Nat : n = failures
    BY DEF OwnTypeOK
  <1>2. n <= Remembered /\ Outage(n) /\ (n < Remembered => ~Outage(n + 1))
    BY <1>1 DEF OwnTypeOK, Counted
  <1>3. CASE n < Remembered
    <2>1. failures' = n + 1
      BY <1>1, <1>3, Bounds DEF Capped
    <2>2. Outage(n + 1)'
      BY <1>2, <1>3, OutageGrows
    <2>3. ASSUME n + 1 < Remembered
          PROVE  ~Outage((n + 1) + 1)'
      <3>1. n + 1 \in Nat
        OBVIOUS
      <3>2. Outage((n + 1) + 1)' <=> Outage(n + 1)
        BY <2>3, <3>1, OutageGrows
      <3> QED BY <1>2, <1>3, <3>2
    <2> QED BY <2>1, <2>2, <2>3 DEF Counted, Outage
  <1>4. CASE n = Remembered
    <2>1. failures' = Remembered
      BY <1>1, <1>4, Bounds DEF Capped
    <2>2. Remembered - 1 \in Nat /\ Remembered - 1 \in 0..Remembered
          /\ Remembered - 1 < Remembered /\ (Remembered - 1) + 1 = Remembered
      BY Bounds
    <2>3. Outage(Remembered - 1)
      BY <1>2, <1>4, <2>2, OutageShorter
    <2>4. Outage((Remembered - 1) + 1)'
      BY <2>2, <2>3, OutageGrows
    <2>5. Outage(Remembered)'
      BY <2>2, <2>4
    <2> QED BY <2>1, <2>5, Bounds DEF Counted, Outage
  <1> QED BY <1>2, <1>3, <1>4, Bounds

\* Every step keeps the count right, and the breaker with it.
LEMMA BreakerNext ==
    ASSUME OwnTypeOK, BreakerInv, [Next]_vars
    PROVE  BreakerInv'
  <1>1. ASSUME UNCHANGED <<failures, breaker, notified, notices, history>>
        PROVE  BreakerInv'
    BY <1>1 DEF BreakerInv, Counted, Outage
  <1>2. CASE Record
    <2>1. CASE RecordCancelled
      BY <1>1, <2>1 DEF RecordCancelled, breakerVars
    <2>2. CASE RecordOK
      <3>1. ~Outage(1)' /\ Outage(0)' /\ failures' = 0
        BY <2>2, OutageEnds DEF RecordOK
      <3>2. Counted'
        BY <3>1 DEF Counted, Outage
      <3> QED BY <2>2, <3>2, Bounds DEF RecordOK, BreakerInv
    <2>3. CASE RecordFailure
      <3>1. failures \in Nat /\ failures <= Remembered /\ breaker \in {"open", "closed"}
        BY DEF OwnTypeOK
      <3>2. Counted'
        BY <2>3, FailureCounted DEF RecordFailure, BreakerInv
      <3>3. failures' >= Threshold <=> failures + 1 >= Threshold
        BY <2>3, <3>1, Bounds DEF RecordFailure, Capped
      <3>4. failures' \in Nat
        BY <2>3, <3>1, Bounds DEF RecordFailure, Capped
      <3>5. CASE breaker = "open"
        <4>1. failures >= Threshold /\ notified /\ notices = 1
          BY <3>5 DEF BreakerInv
        <4>2. breaker' = "open" /\ notices' = 1
          BY <2>3, <3>5, <4>1 DEF RecordFailure
        <4>3. notified'
          BY <2>3, <3>5, <4>1 DEF RecordFailure
        <4>4. failures' >= Threshold
          BY <3>1, <3>3, <4>1, Bounds
        <4> QED BY <3>2, <4>2, <4>3, <4>4 DEF BreakerInv
      <3>6. CASE breaker = "closed"
        <4>1. ~notified /\ notices = 0
          BY <3>6 DEF BreakerInv
        <4>2. CASE failures' >= Threshold
          <5>1. breaker' = "open" /\ notices' = 1
            BY <2>3, <3>6, <4>1, <4>2 DEF RecordFailure
          <5>2. notified'
            BY <2>3, <3>6, <4>1, <4>2 DEF RecordFailure
          <5> QED BY <3>2, <4>2, <5>1, <5>2 DEF BreakerInv
        <4>3. CASE ~(failures' >= Threshold)
          <5>1. breaker' = "closed" /\ notices' = 0
            BY <2>3, <3>6, <4>1, <4>3 DEF RecordFailure
          <5>2. ~notified'
            BY <2>3, <3>6, <4>1, <4>3 DEF RecordFailure
          <5> QED BY <3>2, <4>3, <5>1, <5>2 DEF BreakerInv
        <4> QED BY <4>2, <4>3
      <3> QED BY <3>1, <3>5, <3>6
    <2> QED BY <1>2, <2>1, <2>2, <2>3 DEF Record
  <1>3. CASE ~Record
    BY <1>1, <1>3 DEF Next, Attempt, Type, AllowAttempt, CutPiece, CutRest, PieceTyped, PauseEnds,
       PauseCancelled, InvokeFails, InvokeKilled, ReleaseAllKeys, CooldownElapses, Cancel,
       ToolChanges, vars, breakerVars
  <1> QED BY <1>2, <1>3

LEMMA BreakerInit == Init => BreakerInv
  BY Bounds DEF Init, BreakerInv, Counted, Outage

LEMMA AlwaysBreaker == Spec => [](OwnTypeOK /\ BreakerInv)
  <1>1. OwnTypeOK /\ BreakerInv /\ [Next]_vars => BreakerInv'
    BY BreakerNext
  <1> QED BY BreakerInit, <1>1, AlwaysOwnType, PTL DEF Spec

\* The count decides whether there is an outage.
LEMMA CountIsOutage ==
    ASSUME OwnTypeOK, Counted
    PROVE  Outage(Threshold) <=> failures >= Threshold
  <1>1. failures \in Nat /\ failures <= Remembered
    BY DEF OwnTypeOK
  <1>2. CASE failures >= Threshold
    <2>1. Threshold \in 0..failures
      BY <1>1, <1>2, Bounds
    <2> QED BY <1>1, <1>2, <2>1, OutageShorter DEF Counted
  <1>3. CASE ~(failures >= Threshold)
    <2>1. failures + 1 \in 0..Threshold /\ failures < Remembered
      BY <1>1, <1>3, Bounds
    <2>2. Outage(Threshold) => Outage(failures + 1)
      BY <2>1, Bounds, OutageShorter
    <2> QED BY <1>3, <2>1, <2>2 DEF Counted
  <1> QED BY <1>2, <1>3

\* For every threshold the breaker is open exactly after that many failures in a
\* row, whatever cancellations came in between (typer.go:258).
THEOREM BreakerFollowsHistory == Spec => []OpenDuringOutage
  <1>1. OwnTypeOK /\ BreakerInv => OpenDuringOutage
    BY CountIsOutage DEF BreakerInv, OpenDuringOutage
  <1> QED BY <1>1, AlwaysBreaker, PTL

\* For every threshold an outage is told exactly once (typer.go:81).
THEOREM OutageToldOnce == Spec => []ToldOnce
  <1>1. OwnTypeOK /\ BreakerInv => ToldOnce
    BY CountIsOutage DEF BreakerInv, ToldOnce
  <1> QED BY <1>1, AlwaysBreaker, PTL

=============================================================================
