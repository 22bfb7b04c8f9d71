------------------------- MODULE AudioMonitorProofs -------------------------
(***************************************************************************)
(* The audio loop for every cap, window, gate and hangover, any number of  *)
(* frames, starts and flushes: no speech is lost, doubled or reordered,    *)
(* utterances are whole, chunks have their size, and a flush takes all     *)
(* that was heard before it.                                               *)
(***************************************************************************)
EXTENDS AudioMonitor, TLAPS, WellFoundedInduction, SequenceTheorems

Numbered == 1..MaxFrames
Hows == {"pause", "flush", "split"}
Utts == [frames : Seq(Numbered), how : Hows]

\* What the argument needs of the types.
LoopTypeOK ==
    /\ n \in 0..MaxFrames /\ queue \in Nat /\ n + queue <= MaxFrames
    /\ utterance \in {"yes", "no"}
    /\ acc \in Seq(Frames) /\ (Cap > 0 => Len(acc) < Cap)
    /\ out \in Seq(Utts)
    /\ asked \in [Flushers -> Nat]
    /\ flusher \in [Flushers -> {"idle", "sending", "waiting", "done"}]

(***************************************************************************)
(* The frames of the accumulator are the last ones heard, whatever was     *)
(* emitted, dropped or split off before: it is emptied whenever a frame is *)
(* heard that does not join it, and no loop starts before the last has     *)
(* ended and left it empty.                                                *)
(***************************************************************************)
Before == n - Len(acc)

AccInv ==
    /\ Len(acc) <= n
    /\ \A k \in 1..Len(acc) : acc[k].n = Before + k
    /\ utterance = "no" \/ loop = "off" => acc = <<>>
    /\ monitor = "idle" => loop = "off"

-----------------------------------------------------------------------------
(* Where speech is, when m frames were heard and the first c of them are   *)
(* not in the accumulator: h is what counted as speech, d what was dropped *)
(* and o what was handed on.                                               *)

Consecutive(s) == \A k \in 1..Len(s) : s[k] = s[1] + k - 1
HandedOn(o, x) == \E i \in 1..Len(o) : \E k \in 1..Len(o[i].frames) : o[i].frames[k] = x

Placed(o, c, m, h, d) ==
    /\ \A i \in 1..Len(o) : Consecutive(o[i].frames)
    /\ \A i \in 1..Len(o) : \A k \in 1..Len(o[i].frames) : o[i].frames[k] <= c
    /\ \A i, j \in 1..Len(o) : i < j =>
          \A k \in 1..Len(o[i].frames), l \in 1..Len(o[j].frames) : o[i].frames[k] < o[j].frames[l]
    /\ d \subseteq 1..c
    /\ \A x \in d : ~HandedOn(o, x)
    /\ h \subseteq 1..m
    /\ \A x \in 1..m : x \in h <=> x \in d \/ HandedOn(o, x) \/ x > c

FlushInv ==
    \A f \in Flushers :
        /\ asked[f] <= n
        /\ flusher[f] = "done" => asked[f] <= Before

IInv == LoopTypeOK /\ AccInv /\ Placed(out, Before, n, heard, dropped) /\ ChunkBounds /\ FlushInv

-----------------------------------------------------------------------------
(* What can happen to speech.                                              *)

\* Frames are numbered from one.
LEMMA FramesNumbered ==
    ASSUME NEW o \in Seq(Utts)
    PROVE  \A i \in 1..Len(o) : /\ o[i] \in Utts /\ Len(o[i].frames) \in Nat
                                /\ \A k \in 1..Len(o[i].frames) : o[i].frames[k] \in Nat \ {0}
  <1> SUFFICES ASSUME NEW i \in 1..Len(o)
               PROVE  /\ o[i] \in Utts /\ Len(o[i].frames) \in Nat
                      /\ \A k \in 1..Len(o[i].frames) : o[i].frames[k] \in Nat \ {0}
    OBVIOUS
  <1>1. o[i] \in Utts
    BY ElementOfSeq
  <1>2. o[i].frames \in Seq(Numbered)
    BY <1>1 DEF Utts
  <1>3. Len(o[i].frames) \in Nat /\ \A k \in 1..Len(o[i].frames) : o[i].frames[k] \in Numbered
    BY <1>2, ElementOfSeq, LenProperties
  <1>4. Numbered \subseteq Nat \ {0}
    BY AudioAssumption DEF Numbered
  <1> QED BY <1>1, <1>3, <1>4

\* A speech frame joins the accumulator.
LEMMA Grows ==
    ASSUME NEW o, NEW c \in Nat, NEW m \in Nat, c <= m, NEW h, NEW d, o \in Seq(Utts),
           Placed(o, c, m, h, d)
    PROVE  Placed(o, c, m + 1, h \union {m + 1}, d)
  <1>1. \A x \in 1..(m + 1) : HandedOn(o, x) => x <= c
    BY DEF Placed, HandedOn
  <1> DEFINE g == h \union {m + 1}
  <1>2. g \subseteq 1..(m + 1) /\ \A x \in 1..(m + 1) : x \in g <=> x \in d \/ HandedOn(o, x) \/ x > c
    BY <1>1 DEF Placed
  <1> QED BY <1>2 DEF Placed

\* A frame that is no speech goes by an empty accumulator.
LEMMA Skips ==
    ASSUME NEW o, NEW m \in Nat, NEW h, NEW d, o \in Seq(Utts), Placed(o, m, m, h, d)
    PROVE  Placed(o, m + 1, m + 1, h, d)
  <1>1. \A i \in 1..Len(o) : \A k \in 1..Len(o[i].frames) : o[i].frames[k] \in Nat \ {0} /\ o[i].frames[k] <= m
    BY FramesNumbered DEF Placed
  <1>2. \A x \in 1..(m + 1) : HandedOn(o, x) => x <= m
    BY <1>1 DEF HandedOn
  <1>3. h \subseteq 1..(m + 1) /\ d \subseteq 1..(m + 1)
        /\ \A x \in 1..(m + 1) : x \in h <=> x \in d \/ HandedOn(o, x) \/ x > m + 1
    BY <1>2 DEF Placed
  <1> QED BY <1>1, <1>3 DEF Placed

\* The accumulator is dropped.
LEMMA Drops ==
    ASSUME NEW o, NEW c \in Nat, NEW m \in Nat, c <= m, NEW h, NEW d, o \in Seq(Utts),
           Placed(o, c, m, h, d)
    PROVE  Placed(o, m, m, h, d \union ((c + 1)..m))
  <1>1. \A i \in 1..Len(o) : \A k \in 1..Len(o[i].frames) : o[i].frames[k] \in Nat \ {0} /\ o[i].frames[k] <= c
    BY FramesNumbered DEF Placed
  <1>2. \A x \in (c + 1)..m : ~HandedOn(o, x)
    BY <1>1 DEF HandedOn
  <1>3. d \union ((c + 1)..m) \subseteq 1..m
    <2>1. d \subseteq 1..c
      BY DEF Placed
    <2>2. 1..c \subseteq 1..m /\ (c + 1)..m \subseteq 1..m
      OBVIOUS
    <2> QED BY <2>1, <2>2
  <1>4. \A x \in 1..m : x \in h <=> x \in d \union ((c + 1)..m) \/ HandedOn(o, x) \/ x > m
    <2>1. \A x \in 1..m : x > c <=> x \in (c + 1)..m
      OBVIOUS
    <2> QED BY <2>1 DEF Placed
  <1>5. \A i \in 1..Len(o) : \A k \in 1..Len(o[i].frames) : o[i].frames[k] <= m
    BY <1>1
  <1> QED BY <1>2, <1>3, <1>4, <1>5 DEF Placed

\* The accumulator's first frames, up to the one of number e, are handed on.
LEMMA HandsOn ==
    ASSUME NEW o, NEW c \in Nat, NEW m \in Nat, NEW e \in c..m, NEW h, NEW d, o \in Seq(Utts),
           Placed(o, c, m, h, d),
           NEW u \in Utts, Len(u.frames) = e - c, \A k \in 1..(e - c) : u.frames[k] = c + k
    PROVE  Placed(Append(o, u), e, m, h, d)
  <1> DEFINE p == Append(o, u)
  <1>1. /\ p \in Seq(Utts) /\ Len(p) = Len(o) + 1 /\ p[Len(o) + 1] = u
        /\ \A i \in 1..Len(o) : p[i] = o[i]
    BY AppendProperties
  <1>2. \A i \in 1..Len(o) : \A k \in 1..Len(o[i].frames) : o[i].frames[k] \in Nat \ {0} /\ o[i].frames[k] <= c
    BY FramesNumbered DEF Placed
  <1>3. \A x \in 1..m : HandedOn(p, x) <=> HandedOn(o, x) \/ x \in (c + 1)..e
    <2> SUFFICES ASSUME NEW x \in 1..m
                 PROVE  HandedOn(p, x) <=> HandedOn(o, x) \/ x \in (c + 1)..e
      OBVIOUS
    <2>1. (\E k \in 1..Len(u.frames) : u.frames[k] = x) <=> x \in (c + 1)..e
      <3>1. x \in (c + 1)..e => x - c \in 1..(e - c) /\ u.frames[x - c] = x
        OBVIOUS
      <3> QED BY <3>1
    <2>2. HandedOn(p, x) <=> HandedOn(o, x) \/ \E k \in 1..Len(u.frames) : u.frames[k] = x
      <3> DEFINE In(v) == \E k \in 1..Len(v.frames) : v.frames[k] = x
      <3>1. HandedOn(p, x) <=> \E i \in 1..Len(p) : In(p[i])
        BY DEF HandedOn
      <3>2. HandedOn(o, x) <=> \E i \in 1..Len(o) : In(o[i])
        BY DEF HandedOn
      <3> HIDE DEF In, p
      <3>3. (\E i \in 1..Len(p) : In(p[i])) <=> (\E i \in 1..Len(o) : In(o[i])) \/ In(u)
        <4>1. Len(o) \in Nat
          OBVIOUS
        <4>2. \A i : i \in 1..Len(p) <=> i \in 1..Len(o) \/ i = Len(o) + 1
          BY <1>1, <4>1
        <4> QED BY <1>1, <4>2
      <3> QED BY <3>1, <3>2, <3>3 DEF In
    <2> QED BY <2>1, <2>2
  <1>4. \A i \in 1..Len(p) : Consecutive(p[i].frames)
    <2>1. Consecutive(u.frames)
      BY DEF Consecutive
    <2> QED BY <1>1, <2>1 DEF Placed
  <1>5. ASSUME NEW i \in 1..Len(p), NEW k \in 1..Len(p[i].frames)
        PROVE  p[i].frames[k] <= e
    <2>1. CASE i \in 1..Len(o)
      <3>1. p[i] = o[i]
        BY <1>1, <2>1
      <3>2. o[i].frames[k] \in Nat /\ o[i].frames[k] <= c
        BY <1>2, <2>1, <3>1
      <3> HIDE DEF p
      <3> QED BY <3>1, <3>2
    <2>2. CASE i = Len(o) + 1
      <3>1. p[i] = u
        BY <1>1, <2>2
      <3> HIDE DEF p
      <3>2. k \in 1..(e - c) /\ p[i].frames[k] = c + k
        BY <3>1
      <3> QED BY <3>2
    <2> HIDE DEF p
    <2> QED BY <1>1, <2>1, <2>2
  <1>6. ASSUME NEW i \in 1..Len(p), NEW j \in 1..Len(p), i < j,
               NEW k \in 1..Len(p[i].frames), NEW l \in 1..Len(p[j].frames)
        PROVE  p[i].frames[k] < p[j].frames[l]
    <2>1. i \in 1..Len(o) /\ p[i] = o[i]
      BY <1>1, <1>6
    <2>2. CASE j \in 1..Len(o)
      BY <1>1, <1>6, <2>1, <2>2 DEF Placed
    <2>3. CASE j = Len(o) + 1
      <3>1. p[i].frames[k] <= c /\ p[i].frames[k] \in Nat
        BY <1>2, <2>1
      <3>2. p[j].frames[l] = c + l /\ l \in 1..(e - c)
        BY <1>1, <2>3
      <3> DEFINE a == p[i].frames[k]
                 b == p[j].frames[l]
      <3>3. a \in Nat /\ a <= c
        BY <3>1
      <3>4. b = c + l /\ l \in Nat \ {0}
        BY <3>2
      <3> HIDE DEF p, a, b
      <3>5. a < b
        BY <3>3, <3>4
      <3> QED BY <3>5 DEF a, b
    <2> QED BY <1>1, <2>2, <2>3
  <1>7. d \subseteq 1..e /\ \A x \in d : ~HandedOn(p, x)
    <2>1. d \subseteq 1..c /\ \A x \in d : ~HandedOn(o, x)
      BY DEF Placed
    <2> QED BY <1>3, <2>1
  <1>8. h \subseteq 1..m /\ \A x \in 1..m : x \in h <=> x \in d \/ HandedOn(p, x) \/ x > e
    <2>1. \A x \in 1..m : x > c <=> x \in (c + 1)..e \/ x > e
      OBVIOUS
    <2> QED BY <1>3, <2>1 DEF Placed
  <1> HIDE DEF p
  <1>9. Placed(p, e, m, h, d)
    BY <1>4, <1>5, <1>6, <1>7, <1>8 DEF Placed
  <1> QED BY <1>9 DEF p

\* The same, by how many frames are handed on.
LEMMA HandsOnNext ==
    ASSUME NEW o, NEW c \in Nat, NEW m \in Nat, NEW l \in Nat, c + l <= m, NEW h, NEW d,
           o \in Seq(Utts), Placed(o, c, m, h, d),
           NEW u \in Utts, Len(u.frames) = l, \A k \in 1..l : u.frames[k] = c + k
    PROVE  Placed(Append(o, u), c + l, m, h, d)
  <1>1. c + l \in c..m /\ (c + l) - c = l
    OBVIOUS
  <1>2. PICK e \in c..m : e = c + l /\ e - c = l
    BY <1>1
  <1>3. Len(u.frames) = e - c /\ \A k \in 1..(e - c) : u.frames[k] = c + k
    BY <1>2
  <1>4. Placed(Append(o, u), e, m, h, d)
    BY <1>3, HandsOn
  <1> QED BY <1>2, <1>4

-----------------------------------------------------------------------------
(* quietestSplit.                                                          *)

NatLess == {ss \in Nat \X Nat : ss[1] < ss[2]}

\* The library's fact on the naturals, in a form the provers can use.
LEMMA NatLessWellFounded == IsWellFoundedOn(NatLess, Nat)
  BY NatLessThanWellFounded DEF OpToRel, NatLess

\* Of the candidates for a split there is a latest one.
LEMMA LatestExists ==
    ASSUME NEW b \in Nat, NEW S \in SUBSET (1..b), S # {}
    PROVE  \E j \in S : \A k \in S : k <= j
  <1> DEFINE Distances == {b - k : k \in S}
  <1>1. Distances \subseteq Nat /\ Distances # {}
    <2>1. \A k \in S : b - k \in Nat
      OBVIOUS
    <2> QED BY <2>1
  <1>2. PICK x \in Distances : \A y \in Distances : <<y, x>> \notin NatLess
    <2> HIDE DEF Distances
    <2> QED BY <1>1, NatLessWellFounded, WFMin
  <1>3. PICK j \in S : x = b - j
    BY <1>2
  <1>4. ASSUME NEW k \in S
        PROVE  k <= j
    <2>1. b - k \in Distances /\ <<b - k, x>> \notin NatLess
      BY <1>2
    <2>2. ~ (b - k < b - j)
      BY <2>1, <1>1, <1>2, <1>3 DEF NatLess
    <2> QED BY <2>2
  <1> QED BY <1>4

\* Among frames there is one with the least energy.
LEMMA QuietestExists ==
    ASSUME NEW a \in Seq(Frames), NEW S \in SUBSET (1..Len(a)), S # {}
    PROVE  \E e \in S : \A d \in S : Level[a[e].kind] <= Level[a[d].kind]
  <1>1. \A d \in S : Level[a[d].kind] \in 0..2
    <2>1. \A d \in S : a[d].kind \in Kinds
      <3>1. \A d \in S : a[d] \in Frames
        BY ElementOfSeq
      <3> QED BY <3>1 DEF Frames
    <2>2. \A kind \in Kinds : Level[kind] \in 0..2
      <3>1. Level["loud"] = 2 /\ Level["soft"] = 1 /\ Level["quiet"] = 0
        BY DEF Level
      <3> QED BY <3>1 DEF Kinds
    <2> QED BY <2>1, <2>2
  <1> DEFINE L(d) == Level[a[d].kind]
  <1>2. \A d \in S : L(d) \in 0..2
    BY <1>1
  <1> HIDE DEF L
  <1>3. \E e \in S : \A d \in S : L(e) <= L(d)
    <2>1. CASE \E e \in S : L(e) = 0
      BY <1>2, <2>1
    <2>2. CASE (\A e \in S : L(e) # 0) /\ \E e \in S : L(e) = 1
      BY <1>2, <2>2
    <2>3. CASE \A e \in S : L(e) # 0 /\ L(e) # 1
      <3>1. \A e \in S : L(e) = 2
        BY <1>2, <2>3
      <3>2. PICK e \in S : TRUE
        OBVIOUS
      <3> QED BY <3>1, <3>2
    <2> QED BY <2>1, <2>2, <2>3
  <1> QED BY <1>3 DEF L

\* A split leaves at least half of the buffer in front of it.
LEMMA SplitInSecondHalf ==
    ASSUME NEW a \in Seq(Frames), Len(a) > 0
    PROVE  QuietestSplit(a) \in 1..Len(a) /\ 2 * QuietestSplit(a) >= Len(a)
  <1> DEFINE half == Len(a) \div 2
             window == IF Window < half THEN Window ELSE half
             ends == (Len(a) - window + 1)..Len(a)
             least == {e \in ends : \A d \in ends : Level[a[e].kind] <= Level[a[d].kind]}
             latest == CHOOSE e \in least : \A d \in least : d <= e
  <1>1. Len(a) \in Nat /\ Window \in Nat
    BY AudioAssumption
  <1>2. half \in Nat /\ 2 * half <= Len(a) /\ window \in 0..half
    <2>1. half \in Nat /\ 2 * half <= Len(a)
      BY <1>1
    <2> HIDE DEF half
    <2> QED BY <1>1, <2>1
  <1>3. QuietestSplit(a) = IF ends = {} THEN Len(a) ELSE latest
    BY DEF QuietestSplit
  <1>4. ends \subseteq 1..Len(a) /\ \A e \in ends : 2 * e >= Len(a)
    <2> HIDE DEF half, window
    <2> QED BY <1>1, <1>2
  <1>5. CASE ends = {}
    BY <1>1, <1>3, <1>5
  <1>6. CASE ends # {}
    <2>1. least # {} /\ least \subseteq ends
      <3> HIDE DEF half, window, ends
      <3>1. \E e \in ends : \A d \in ends : Level[a[e].kind] <= Level[a[d].kind]
        BY <1>4, <1>6, QuietestExists
      <3> QED BY <3>1
    <2>2. latest \in least
      <3> HIDE DEF half, window, ends, least
      <3>1. \E e \in least : \A d \in least : d <= e
        BY <1>1, <1>4, <2>1, LatestExists
      <3> QED BY <3>1
    <2> HIDE DEF half, window, ends, least, latest
    <2> QED BY <1>3, <1>4, <1>6, <2>1, <2>2
  <1> QED BY <1>5, <1>6

-----------------------------------------------------------------------------
(* The loop.                                                               *)

\* The numbers of a run of frames, as an utterance.
LEMMA NumbersOf ==
    ASSUME NEW a \in Seq(Frames)
    PROVE  /\ Numbers(a) \in Seq(Numbered) /\ Len(Numbers(a)) = Len(a)
           /\ \A k \in 1..Len(a) : Numbers(a)[k] = a[k].n
  <1>1. Len(a) \in Nat /\ DOMAIN a = 1..Len(a)
    BY LenProperties
  <1>2. \A k \in 1..Len(a) : a[k].n \in Numbered
    <2>1. \A k \in 1..Len(a) : a[k] \in Frames
      BY ElementOfSeq
    <2> QED BY <2>1 DEF Frames, Numbered
  <1>3. Numbers(a) \in [1..Len(a) -> Numbered]
    BY <1>1, <1>2 DEF Numbers
  <1>4. Numbers(a) \in Seq(Numbered)
    BY <1>1, <1>3, SeqDef
  <1> QED BY <1>1, <1>3, <1>4, LenProperties DEF Numbers

\* The invariant in terms of numbers.
LEMMA Facts ==
    ASSUME IInv
    PROVE  /\ n \in Nat /\ Len(acc) \in Nat /\ Before \in Nat /\ Before <= n /\ Before = n - Len(acc)
           /\ out \in Seq(Utts) /\ acc \in Seq(Frames) /\ Placed(out, Before, n, heard, dropped)
           /\ Cap \in Nat /\ MaxFrames \in Nat
  BY AudioAssumption DEF IInv, LoopTypeOK, AccInv, Before

\* What is in the accumulator can be dropped.
LEMMA DropsAcc ==
    ASSUME IInv
    PROVE  Placed(out, n, n, heard, dropped \union ToSet(Numbers(acc)))
  <1>0. n \in Nat /\ Len(acc) \in Nat /\ Before \in Nat /\ Before = n - Len(acc)
    BY Facts
  <1>1. /\ Numbers(acc) \in Seq(Numbered) /\ Len(Numbers(acc)) = Len(acc)
        /\ \A k \in 1..Len(acc) : Numbers(acc)[k] = Before + k
    BY Facts, NumbersOf DEF IInv, AccInv
  <1>2. ToSet(Numbers(acc)) = (Before + 1)..n
    <2>1. DOMAIN Numbers(acc) = 1..Len(acc)
      BY <1>1
    <2>2. ASSUME NEW x \in (Before + 1)..n
          PROVE  \E k \in 1..Len(acc) : Numbers(acc)[k] = x
      <3>1. x - Before \in 1..Len(acc) /\ Before + (x - Before) = x
        BY <1>0
      <3>2. Numbers(acc)[x - Before] = Before + (x - Before)
        BY <1>1, <3>1
      <3> QED BY <3>1, <3>2
    <2>3. \A k \in 1..Len(acc) : Numbers(acc)[k] \in (Before + 1)..n
      BY <1>0, <1>1
    <2> QED BY <2>1, <2>2, <2>3 DEF ToSet
  <1>3. Placed(out, n, n, heard, dropped \union ((Before + 1)..n))
    BY Facts, Drops
  <1> QED BY <1>2, <1>3

\* The end of an utterance empties the accumulator and loses nothing.
LEMMA Emits ==
    ASSUME IInv, NEW how \in {"pause", "flush"}, Emit(how)
    PROVE  /\ acc' = <<>> /\ utterance' = "no"
           /\ out' \in Seq(Utts) /\ ChunkBounds'
           /\ Placed(out', n, n, heard, dropped')
  <1> DEFINE u == [frames |-> Numbers(acc), how |-> how]
  <1>1. /\ acc' = <<>> /\ utterance' = "no"
        /\ \/ out' = out /\ dropped' = dropped \union ToSet(Numbers(acc))
           \/ out' = out /\ dropped' = dropped /\ acc = <<>>
           \/ out' = Append(out, u) /\ dropped' = dropped
    BY DEF Emit
  <1>2. /\ n \in Nat /\ Len(acc) \in Nat /\ Before \in Nat /\ Before <= n /\ Before = n - Len(acc)
        /\ out \in Seq(Utts) /\ acc \in Seq(Frames) /\ Placed(out, Before, n, heard, dropped)
    BY Facts
  <1>3. /\ Numbers(acc) \in Seq(Numbered) /\ Len(Numbers(acc)) = Len(acc)
        /\ \A k \in 1..Len(acc) : Numbers(acc)[k] = Before + k
    BY <1>2, NumbersOf DEF IInv, AccInv
  <1>4. u \in Utts
    BY <1>3 DEF Utts, Hows
  <1>5. CASE out' = out /\ dropped' = dropped \union ToSet(Numbers(acc))
    <2>1. Placed(out, n, n, heard, dropped \union ToSet(Numbers(acc)))
      BY DropsAcc
    <2>2. ChunkBounds'
      BY <1>5 DEF IInv, ChunkBounds
    <2> QED BY <1>1, <1>2, <1>5, <2>1, <2>2
  <1>6. CASE out' = out /\ dropped' = dropped /\ acc = <<>>
    <2>1. Before = n
      BY <1>2, <1>6
    <2>2. ChunkBounds'
      BY <1>6 DEF IInv, ChunkBounds
    <2> QED BY <1>1, <1>2, <1>6, <2>1, <2>2
  <1>7. CASE out' = Append(out, u) /\ dropped' = dropped
    <2>1. Placed(Append(out, u), n, n, heard, dropped)
      <3>1. n \in Before..n /\ Len(u.frames) = n - Before
            /\ \A k \in 1..(n - Before) : u.frames[k] = Before + k
        BY <1>2, <1>3
      <3> HIDE DEF u, Before
      <3> QED BY <1>2, <1>4, <3>1, HandsOn
    <2>2. /\ out' \in Seq(Utts) /\ Len(out') = Len(out) + 1 /\ out'[Len(out) + 1] = u
          /\ \A i \in 1..Len(out) : out'[i] = out[i]
      BY <1>2, <1>4, <1>7, AppendProperties
    <2>3. ChunkBounds'
      <3>1. u.how # "split" /\ (Cap > 0 => Len(u.frames) <= Cap)
        <4>1. Len(u.frames) = Len(acc) /\ u.how = how
          BY <1>3
        <4>2. Cap > 0 => Len(acc) < Cap
          BY DEF IInv, LoopTypeOK
        <4>3. Len(acc) \in Nat /\ Cap \in Nat /\ how # "split"
          BY <1>2, AudioAssumption
        <4> HIDE DEF u
        <4> QED BY <4>1, <4>2, <4>3
      <3>2. \A i \in 1..Len(out) : Cap > 0 =>
                Len(out[i].frames) <= Cap /\ (out[i].how = "split" => 2 * Len(out[i].frames) >= Cap)
        BY <1>2 DEF IInv, ChunkBounds
      <3> HIDE DEF u
      <3>3. DOMAIN out' = 1..Len(out') /\ \A i \in 1..Len(out') : i \in 1..Len(out) \/ i = Len(out) + 1
        BY <1>2, <2>2
      <3> QED BY <2>2, <3>1, <3>2, <3>3 DEF ChunkBounds
    <2> QED BY <1>1, <1>7, <2>1, <2>2, <2>3
  <1> QED BY <1>1, <1>5, <1>6, <1>7

\* A speech frame joins the accumulator; what a forced split leaves is what was
\* heard last.
LEMMA Speaks ==
    ASSUME IInv, n < MaxFrames, NEW kind \in Kinds, SpeechFrame([n |-> n + 1, kind |-> kind])
    PROVE  /\ acc' \in Seq(Frames) /\ (Cap > 0 => Len(acc') < Cap) /\ Len(acc') <= n + 1
           /\ \A k \in 1..Len(acc') : acc'[k].n = n + 1 - Len(acc') + k
           /\ Before <= n + 1 - Len(acc')
           /\ utterance' = "yes" /\ out' \in Seq(Utts) /\ ChunkBounds'
           /\ Placed(out', n + 1 - Len(acc'), n + 1, heard \union {n + 1}, dropped')
  <1> DEFINE f == [n |-> n + 1, kind |-> kind]
             grown == Append(acc, f)
             cut == QuietestSplit(grown)
  <1>0. /\ n \in Nat /\ Len(acc) \in Nat /\ Before \in Nat /\ Before <= n /\ Before = n - Len(acc)
        /\ out \in Seq(Utts) /\ acc \in Seq(Frames) /\ Placed(out, Before, n, heard, dropped)
        /\ Cap \in Nat /\ MaxFrames \in Nat
    BY Facts
  <1>1. f \in Frames /\ f.n = n + 1
    BY <1>0 DEF Frames
  <1>2. /\ utterance' = "yes" /\ dropped' = dropped
        /\ IF Cap > 0 /\ Len(grown) >= Cap
           THEN /\ out' = Append(out, [frames |-> Numbers(SubSeq(grown, 1, cut)), how |-> "split"])
                /\ acc' = SubSeq(grown, cut + 1, Len(grown))
           ELSE acc' = grown /\ out' = out
    <2>1. (IF utterance = "no" THEN <<>> ELSE acc) = acc
      BY DEF IInv, AccInv
    <2> QED BY <2>1 DEF SpeechFrame
  <1> HIDE DEF f
  <1>3. /\ grown \in Seq(Frames) /\ Len(grown) = Len(acc) + 1
        /\ \A k \in 1..Len(grown) : grown[k].n = Before + k
    <2>1. /\ grown \in Seq(Frames) /\ Len(grown) = Len(acc) + 1 /\ grown[Len(acc) + 1] = f
          /\ \A k \in 1..Len(acc) : grown[k] = acc[k]
      BY <1>0, <1>1, AppendProperties
    <2>2. ASSUME NEW k \in 1..Len(grown)
          PROVE  grown[k].n = Before + k
      <3>1. CASE k \in 1..Len(acc)
        BY <2>1, <3>1 DEF IInv, AccInv
      <3>2. CASE k = Len(acc) + 1
        BY <1>0, <1>1, <2>1, <3>2
      <3> QED BY <1>0, <2>1, <3>1, <3>2
    <2> QED BY <2>1, <2>2
  <1>4. Placed(out, Before, n + 1, heard \union {n + 1}, dropped)
    BY <1>0, Grows
  <1> HIDE DEF grown
  <1>5. CASE ~(Cap > 0 /\ Len(grown) >= Cap)
    <2>1. acc' = grown /\ out' = out
      BY <1>2, <1>5
    <2>2. ChunkBounds'
      BY <2>1 DEF IInv, ChunkBounds
    <2>3. Len(acc') = Len(acc) + 1 /\ n + 1 - Len(acc') = Before
      <3>1. Len(acc') = Len(acc) + 1
        BY <1>3, <2>1
      <3>2. n \in Nat /\ Len(acc) \in Nat /\ Before = n - Len(acc)
        BY <1>0
      <3> HIDE DEF Before
      <3> QED BY <3>1, <3>2
    <2>4. (Cap > 0 => Len(acc') < Cap) /\ Len(acc') <= n + 1
      BY <1>0, <1>3, <1>5, <2>1
    <2>5. Placed(out', n + 1 - Len(acc'), n + 1, heard \union {n + 1}, dropped')
      BY <1>2, <1>4, <2>1, <2>3
    <2>6. \A k \in 1..Len(acc') : acc'[k].n = n + 1 - Len(acc') + k
      BY <1>3, <2>1, <2>3
    <2>7. Before <= n + 1 - Len(acc')
      BY <1>0, <2>3
    <2> QED BY <1>0, <1>2, <1>3, <2>1, <2>2, <2>4, <2>5, <2>6, <2>7
  <1>6. CASE Cap > 0 /\ Len(grown) >= Cap
    <2> DEFINE head == SubSeq(grown, 1, cut)
               u == [frames |-> Numbers(head), how |-> "split"]
    <2>1. out' = Append(out, u) /\ acc' = SubSeq(grown, cut + 1, Len(grown))
      BY <1>2, <1>6
    <2>2. Len(grown) = Cap /\ cut \in 1..Cap /\ 2 * cut >= Cap
      <3>1. Cap > 0 => Len(acc) < Cap
        BY DEF IInv, LoopTypeOK
      <3>2. Len(grown) = Cap
        BY <1>0, <1>3, <1>6, <3>1
      <3>3. cut \in 1..Len(grown) /\ 2 * cut >= Len(grown)
        BY <1>0, <1>3, SplitInSecondHalf
      <3> QED BY <3>2, <3>3
    <2> HIDE DEF cut
    <2>3. /\ head \in Seq(Frames) /\ Len(head) = cut
          /\ \A k \in 1..cut : head[k] = grown[k]
      <3>1. 1 \in 1..(Len(grown) + 1) /\ cut \in 0..Len(grown)
        BY <1>0, <2>2
      <3> QED BY <1>3, <2>2, <3>1, SubSeqProperties
    <2>4. /\ acc' \in Seq(Frames) /\ Len(acc') = Cap - cut
          /\ \A k \in 1..(Cap - cut) : acc'[k] = grown[cut + k]
      BY <1>0, <1>3, <2>1, <2>2, SubSeqProperties
    <2> HIDE DEF head
    <2>5. /\ u \in Utts /\ u.how = "split" /\ Len(u.frames) = cut
          /\ \A k \in 1..cut : u.frames[k] = Before + k
      <3>1. /\ Numbers(head) \in Seq(Numbered) /\ Len(Numbers(head)) = cut
            /\ \A k \in 1..cut : Numbers(head)[k] = head[k].n
        BY <2>3, NumbersOf
      <3>2. \A k \in 1..cut : head[k].n = Before + k
        BY <1>3, <2>2, <2>3
      <3> QED BY <3>1, <3>2 DEF Utts, Hows
    <2> HIDE DEF u
    <2>6. Placed(Append(out, u), Before + cut, n + 1, heard \union {n + 1}, dropped)
      <3>1. Before \in Nat /\ n + 1 \in Nat /\ cut \in Nat /\ Before + cut <= n + 1
        <4>1. Cap = Len(acc) + 1 /\ cut \in 1..Cap
          BY <1>3, <2>2
        <4>2. n \in Nat /\ Len(acc) \in Nat /\ Before \in Nat /\ Before = n - Len(acc)
          BY <1>0
        <4> QED BY <4>1, <4>2
      <3>2. out \in Seq(Utts)
        BY <1>0
      <3> QED BY <1>4, <2>5, <3>1, <3>2, HandsOnNext
    <2>7. Len(acc') = Cap - cut /\ n + 1 - Len(acc') = Before + cut
      <3>1. Len(acc') = Cap - cut /\ Cap = Len(acc) + 1 /\ cut \in 1..Cap
        BY <1>3, <2>2, <2>4
      <3>2. n \in Nat /\ Len(acc) \in Nat /\ Before = n - Len(acc)
        BY <1>0
      <3> QED BY <3>1, <3>2
    <2>8. \A k \in 1..Len(acc') : acc'[k].n = n + 1 - Len(acc') + k
      <3>1. \A k \in 1..(Cap - cut) : cut + k \in 1..Len(grown)
        BY <1>0, <2>2
      <3>2. \A k \in 1..(Cap - cut) : acc'[k].n = Before + (cut + k)
        BY <1>3, <2>4, <3>1
      <3>3. Cap \in Nat /\ cut \in 1..Cap /\ Before \in Nat
        BY <1>0, <2>2
      <3>4. \A k \in 1..(Cap - cut) : acc'[k].n = (Before + cut) + k
        BY <3>2, <3>3
      <3> QED BY <2>7, <3>4
    <2>9. /\ out' \in Seq(Utts) /\ Len(out') = Len(out) + 1 /\ out'[Len(out) + 1] = u
          /\ \A i \in 1..Len(out) : out'[i] = out[i]
      BY <1>0, <2>1, <2>5, AppendProperties DEF u
    <2>10. ChunkBounds'
      <3>1. \A i \in 1..Len(out) : Cap > 0 =>
                Len(out[i].frames) <= Cap /\ (out[i].how = "split" => 2 * Len(out[i].frames) >= Cap)
        BY <1>0 DEF IInv, ChunkBounds
      <3>2. Len(u.frames) <= Cap /\ 2 * Len(u.frames) >= Cap
        BY <1>0, <2>2, <2>5
      <3>3. DOMAIN out' = 1..Len(out') /\ \A i \in 1..Len(out') : i \in 1..Len(out) \/ i = Len(out) + 1
        BY <1>0, <2>9
      <3> QED BY <2>9, <3>1, <3>2, <3>3 DEF ChunkBounds
    <2>11. Placed(out', n + 1 - Len(acc'), n + 1, heard \union {n + 1}, dropped')
      BY <1>2, <2>1, <2>6, <2>7 DEF u
    <2>12. Before <= n + 1 - Len(acc') /\ Len(acc') <= n + 1 /\ Len(acc') < Cap
      BY <1>0, <2>2, <2>4, <2>7
    <2> QED BY <1>2, <2>4, <2>8, <2>9, <2>10, <2>11, <2>12
  <1> QED BY <1>5, <1>6

-----------------------------------------------------------------------------
(* The invariant is inductive.                                             *)

\* What leaves the frames alone.
LEMMA SameSpeech ==
    ASSUME IInv, LoopTypeOK', FlushInv', UNCHANGED <<n, heard, uttVars>>, loop' = loop,
           monitor' = "idle" => loop = "off"
    PROVE  IInv'
  <1>1. n' = n /\ heard' = heard /\ acc' = acc /\ out' = out /\ dropped' = dropped /\ utterance' = utterance
    BY DEF uttVars
  <1>2. Before' = Before
    BY <1>1 DEF Before
  <1>3. AccInv'
    BY <1>1, <1>2 DEF IInv, AccInv
  <1>4. Placed(out, Before, n, heard, dropped)' /\ ChunkBounds'
    BY <1>1, <1>2 DEF IInv, ChunkBounds
  <1> QED BY <1>3, <1>4 DEF IInv

\* What leaves the accumulator empty.
LEMMA Emptied ==
    ASSUME LoopTypeOK', acc' = <<>>, Placed(out', n', n', heard', dropped'), ChunkBounds',
           monitor' = "idle" => loop' = "off",
           \A f \in Flushers : asked'[f] <= n'
    PROVE  IInv'
  <1>1. Len(acc') = 0 /\ n' \in Nat
    BY AudioAssumption DEF LoopTypeOK
  <1>2. Before' = n'
    <2>1. Before' = n' - Len(acc')
      BY DEF Before
    <2>2. \A m \in Nat : m - 0 = m
      OBVIOUS
    <2> QED BY <1>1, <2>1, <2>2, Zenon
  <1>3. AccInv'
    BY <1>1 DEF AccInv
  <1>4. FlushInv'
    BY <1>2 DEF FlushInv
  <1> QED BY <1>2, <1>3, <1>4 DEF IInv

LEMMA InitIInv == Init => IInv
  <1> SUFFICES ASSUME Init
               PROVE  IInv
    OBVIOUS
  <1>1. Len(acc) = 0 /\ acc \in Seq(Frames) /\ Len(out) = 0 /\ out \in Seq(Utts) /\ n = 0
    BY DEF Init
  <1>2. Before = 0
    <2>1. Before = n - Len(acc)
      BY DEF Before
    <2> QED BY <1>1, <2>1
  <1> USE DEF Init
  <1>3. LoopTypeOK
    BY <1>1, AudioAssumption DEF LoopTypeOK
  <1>4. AccInv
    BY <1>1, <1>2 DEF AccInv
  <1>5. Placed(out, Before, n, heard, dropped) /\ ChunkBounds
    BY <1>1, <1>2 DEF Placed, HandedOn, ChunkBounds
  <1>6. FlushInv
    BY <1>1 DEF FlushInv
  <1> QED BY <1>3, <1>4, <1>5, <1>6 DEF IInv

LEMMA StartIInv == IInv /\ Start => IInv'
  <1> SUFFICES ASSUME IInv, Start
               PROVE  IInv'
    OBVIOUS
  <1>1. acc = <<>>
    BY DEF IInv, AccInv, Start
  <1>2. /\ n' = n /\ heard' = heard /\ out' = out /\ dropped' = dropped /\ acc' = <<>>
        /\ utterance' = "no" /\ queue' = 0 /\ asked' = asked /\ flusher' = flusher /\ monitor' = "started"
    BY DEF Start, vadVars, flushVars
  <1>3. Before = n /\ n \in Nat
    BY <1>1, Facts DEF Before
  <1>4. Placed(out', n', n', heard', dropped') /\ ChunkBounds'
    BY <1>2, <1>3 DEF IInv, ChunkBounds
  <1>5. LoopTypeOK'
    <2>1. acc' \in Seq(Frames) /\ Len(acc') = 0
      BY <1>2
    <2> QED BY <1>2, <2>1, AudioAssumption DEF IInv, LoopTypeOK
  <1>6. \A f \in Flushers : asked'[f] <= n'
    BY <1>2 DEF IInv, FlushInv
  <1> QED BY <1>2, <1>4, <1>5, <1>6, Emptied

LEMMA HearFrameIInv == IInv /\ HearFrame => IInv'
  <1> SUFFICES ASSUME IInv, HearFrame
               PROVE  IInv'
    OBVIOUS
  <1>1. /\ n' = n + 1 /\ queue' = queue - 1 /\ queue > 0 /\ loop = "on" /\ loop' = "on"
        /\ monitor' = monitor /\ asked' = asked /\ flusher' = flusher
    BY DEF HearFrame, runVars, flushVars
  <1>2. /\ n \in Nat /\ queue \in Nat /\ n + queue <= MaxFrames /\ MaxFrames \in Nat
        /\ asked \in [Flushers -> Nat] /\ flusher \in [Flushers -> {"idle", "sending", "waiting", "done"}]
        /\ out \in Seq(Utts)
    BY AudioAssumption DEF IInv, LoopTypeOK
  <1>3. n < MaxFrames /\ n' \in 0..MaxFrames /\ queue' \in Nat /\ n' + queue' <= MaxFrames
    BY <1>1, <1>2
  <1>4. monitor' = "idle" => loop' = "off"
    BY <1>1 DEF IInv, AccInv
  <1>5. \A f \in Flushers : asked'[f] <= n'
    <2>1. \A f \in Flushers : asked[f] <= n /\ asked[f] \in Nat
      BY <1>2 DEF IInv, FlushInv
    <2> QED BY <1>1, <1>2, <2>1
  <1>6. PICK kind \in Kinds :
            \/ /\ heard' = heard \union {n + 1}
               /\ SpeechFrame([n |-> n + 1, kind |-> kind])
            \/ heard' = heard /\ Emit("pause")
            \/ heard' = heard /\ utterance = "no" /\ UNCHANGED uttVars
    BY DEF HearFrame
  <1>7. CASE heard' = heard \union {n + 1} /\ SpeechFrame([n |-> n + 1, kind |-> kind])
    <2>1. /\ acc' \in Seq(Frames) /\ (Cap > 0 => Len(acc') < Cap) /\ Len(acc') <= n + 1
          /\ \A k \in 1..Len(acc') : acc'[k].n = n + 1 - Len(acc') + k
          /\ Before <= n + 1 - Len(acc')
          /\ utterance' = "yes" /\ out' \in Seq(Utts) /\ ChunkBounds'
          /\ Placed(out', n + 1 - Len(acc'), n + 1, heard \union {n + 1}, dropped')
      BY <1>3, <1>7, Speaks
    <2>2. Before' = n + 1 - Len(acc')
      <3>1. Before' = n' - Len(acc') /\ Len(acc') \in Nat
        BY <2>1, LenProperties DEF Before
      <3> QED BY <1>1, <1>2, <3>1
    <2>3. LoopTypeOK'
      BY <1>1, <1>2, <1>3, <2>1 DEF LoopTypeOK
    <2>4. AccInv'
      BY <1>1, <1>4, <2>1, <2>2 DEF AccInv
    <2>5. FlushInv'
      <3>1. Before <= Before' /\ Before \in Nat /\ Before' \in Int
        <4>1. Len(acc') \in Nat
          BY <2>1
        <4> QED BY <1>2, <2>1, <2>2, <4>1, Facts
      <3>2. \A f \in Flushers : asked[f] \in Nat /\ (flusher[f] = "done" => asked[f] <= Before)
        BY <1>2 DEF IInv, FlushInv
      <3>3. \A f \in Flushers : flusher'[f] = "done" => asked'[f] <= Before'
        <4> HIDE DEF Before
        <4> QED BY <1>1, <3>1, <3>2
      <3> QED BY <1>5, <3>3 DEF FlushInv
    <2>6. Placed(out, Before, n, heard, dropped)'
      BY <1>1, <1>7, <2>1, <2>2
    <2> QED BY <2>1, <2>3, <2>4, <2>5, <2>6 DEF IInv
  <1>8. CASE heard' = heard /\ Emit("pause")
    <2>1. /\ acc' = <<>> /\ utterance' = "no" /\ out' \in Seq(Utts) /\ ChunkBounds'
          /\ Placed(out', n, n, heard, dropped')
      BY <1>8, Emits
    <2>2. Placed(out', n', n', heard', dropped')
      BY <1>1, <1>2, <1>8, <2>1, Skips
    <2>3. LoopTypeOK'
      <3>1. acc' \in Seq(Frames) /\ Len(acc') = 0
        BY <2>1
      <3> QED BY <1>1, <1>2, <1>3, <2>1, <3>1 DEF LoopTypeOK
    <2> QED BY <1>4, <1>5, <2>1, <2>2, <2>3, Emptied
  <1>9. CASE heard' = heard /\ utterance = "no" /\ UNCHANGED uttVars
    <2>1. acc = <<>> /\ acc' = <<>> /\ utterance' = "no" /\ out' = out /\ dropped' = dropped
      BY <1>9 DEF IInv, AccInv, uttVars
    <2>2. Before = n
      BY <1>2, <2>1 DEF Before
    <2>3. Placed(out', n', n', heard', dropped')
      <3>1. Placed(out, n, n, heard, dropped)
        BY <2>2 DEF IInv
      <3> QED BY <1>1, <1>2, <1>9, <2>1, <3>1, Skips
    <2>4. LoopTypeOK'
      <3>1. acc' \in Seq(Frames) /\ Len(acc') = 0
        BY <2>1
      <3> QED BY <1>1, <1>2, <1>3, <2>1, <3>1 DEF LoopTypeOK
    <2>5. ChunkBounds'
      BY <2>1 DEF IInv, ChunkBounds
    <2> QED BY <1>4, <1>5, <2>1, <2>3, <2>4, <2>5, Emptied
  <1> QED BY <1>6, <1>7, <1>8, <1>9

LEMMA HearFlushIInv == IInv /\ HearFlush => IInv'
  <1> SUFFICES ASSUME IInv, HearFlush
               PROVE  IInv'
    OBVIOUS
  <1>1. /\ n' = n /\ heard' = heard /\ queue' = queue /\ asked' = asked /\ loop' = loop /\ monitor' = monitor
        /\ flusher' = [f \in Flushers |-> IF f = Head(flushReq) THEN "done" ELSE flusher[f]]
        /\ Emit("flush")
    BY DEF HearFlush, vadVars, runVars
  <1>2. /\ acc' = <<>> /\ utterance' = "no" /\ out' \in Seq(Utts) /\ ChunkBounds'
        /\ Placed(out', n, n, heard, dropped')
    BY <1>1, Emits
  <1>3. LoopTypeOK'
    <2>1. acc' \in Seq(Frames) /\ Len(acc') = 0
      BY <1>2
    <2>2. flusher' \in [Flushers -> {"idle", "sending", "waiting", "done"}]
      BY <1>1 DEF IInv, LoopTypeOK
    <2> QED BY <1>1, <1>2, <2>1, <2>2, AudioAssumption DEF IInv, LoopTypeOK
  <1>4. \A f \in Flushers : asked'[f] <= n'
    BY <1>1 DEF IInv, FlushInv
  <1>5. monitor' = "idle" => loop' = "off"
    BY <1>1 DEF IInv, AccInv
  <1> QED BY <1>1, <1>2, <1>3, <1>4, <1>5, Emptied

LEMMA LoopEndsIInv == IInv /\ LoopEnds => IInv'
  <1> SUFFICES ASSUME IInv, LoopEnds
               PROVE  IInv'
    OBVIOUS
  <1>1. /\ n' = n /\ heard' = heard /\ queue' = queue /\ asked' = asked /\ flusher' = flusher
        /\ loop' = "off" /\ acc' = <<>> /\ utterance' = utterance /\ out' = out
        /\ dropped' = dropped \union ToSet(Numbers(acc))
    BY DEF LoopEnds, vadVars, flushVars
  <1>2. Placed(out', n', n', heard', dropped') /\ ChunkBounds'
    BY <1>1, DropsAcc DEF IInv, ChunkBounds
  <1>3. LoopTypeOK'
    <2>1. acc' \in Seq(Frames) /\ Len(acc') = 0
      BY <1>1
    <2> QED BY <1>1, <2>1 DEF IInv, LoopTypeOK
  <1>4. \A f \in Flushers : asked'[f] <= n'
    BY <1>1 DEF IInv, FlushInv
  <1> QED BY <1>1, <1>2, <1>3, <1>4, Emptied

\* A step of a Flush call moves its caller and leaves the frames alone.
LEMMA FlushStepIInv ==
    ASSUME IInv, NEW f \in Flushers, NEW from,
           NEW to \in {"idle", "sending", "waiting"}, FlushStep(f, from, to),
           asked' = asked \/ asked' = [asked EXCEPT ![f] = 0] \/ asked' = [asked EXCEPT ![f] = n]
    PROVE  IInv'
  <1>1. /\ UNCHANGED <<n, heard, uttVars>> /\ n' = n /\ acc' = acc /\ queue' = queue /\ utterance' = utterance
        /\ out' = out /\ loop' = loop /\ monitor' = monitor
        /\ flusher' = [flusher EXCEPT ![f] = to]
    BY DEF FlushStep, vadVars, runVars, uttVars
  <1>2. n \in Nat /\ asked \in [Flushers -> Nat]
        /\ flusher \in [Flushers -> {"idle", "sending", "waiting", "done"}]
    BY AudioAssumption DEF IInv, LoopTypeOK
  <1>3. /\ asked' \in [Flushers -> Nat] /\ flusher' \in [Flushers -> {"idle", "sending", "waiting", "done"}]
        /\ flusher'[f] # "done" /\ asked'[f] \in {asked[f], 0, n}
        /\ \A g \in Flushers : g # f => asked'[g] = asked[g] /\ flusher'[g] = flusher[g]
    BY <1>1, <1>2
  <1>4. LoopTypeOK'
    BY <1>1, <1>3 DEF IInv, LoopTypeOK
  <1>5. FlushInv'
    <2>1. Before' = Before
      BY <1>1 DEF Before
    <2>2. \A g \in Flushers : asked[g] <= n /\ (flusher[g] = "done" => asked[g] <= Before)
      BY DEF IInv, FlushInv
    <2>3. asked'[f] <= n
      BY <1>2, <1>3, <2>2
    <2> QED BY <1>1, <1>3, <2>1, <2>2, <2>3 DEF FlushInv
  <1>6. monitor' = "idle" => loop = "off"
    BY <1>1 DEF IInv, AccInv
  <1> QED BY <1>1, <1>4, <1>5, <1>6, SameSpeech

\* Steps of capture, of the timer and of a session leave the frames alone.
LEMMA OtherIInv ==
    ASSUME IInv, Stop \/ StopReturns \/ Pump \/ PumpEnds \/ StallFires \/ VADReset \/ UNCHANGED vars
    PROVE  IInv'
  <1>1. /\ UNCHANGED <<n, heard, uttVars>> /\ loop' = loop /\ asked' = asked /\ flusher' = flusher
        /\ n' = n /\ acc' = acc /\ utterance' = utterance /\ out' = out
    BY DEF Stop, StopReturns, Pump, PumpEnds, StallFires, VADReset, vars,
           runVars, vadVars, uttVars, flushVars
  <1>2. monitor' = "idle" => loop = "off"
    <2>1. CASE StopReturns
      BY <2>1 DEF StopReturns
    <2>2. CASE Stop
      BY <2>2 DEF Stop
    <2>3. CASE Pump \/ PumpEnds \/ StallFires \/ VADReset \/ UNCHANGED vars
      <3>1. monitor' = monitor
        BY <2>3 DEF Pump, PumpEnds, StallFires, VADReset, vars, runVars
      <3> QED BY <3>1 DEF IInv, AccInv
    <2> QED BY <2>1, <2>2, <2>3
  <1>3. queue' \in Nat /\ n + queue' <= MaxFrames
    <2>1. n \in Nat /\ queue \in Nat /\ n + queue <= MaxFrames
      BY AudioAssumption DEF IInv, LoopTypeOK
    <2>2. CASE Pump
      BY <2>1, <2>2, AudioAssumption DEF Pump
    <2>3. CASE Stop \/ StopReturns \/ PumpEnds \/ StallFires \/ VADReset \/ UNCHANGED vars
      <3>1. queue' = queue
        BY <2>3 DEF Stop, StopReturns, PumpEnds, StallFires, VADReset, vars
      <3> QED BY <2>1, <3>1
    <2> QED BY <2>2, <2>3
  <1>4. LoopTypeOK'
    BY <1>1, <1>3 DEF IInv, LoopTypeOK
  <1>5. FlushInv'
    <2>1. Before' = Before
      BY <1>1 DEF Before
    <2> QED BY <1>1, <2>1 DEF IInv, FlushInv
  <1> QED BY <1>1, <1>2, <1>4, <1>5, SameSpeech

LEMMA NextIInv == IInv /\ [Next]_vars => IInv'
  <1> SUFFICES ASSUME IInv, [Next]_vars
               PROVE  IInv'
    OBVIOUS
  <1>1. CASE Start
    BY <1>1, StartIInv
  <1>2. CASE HearFrame
    BY <1>2, HearFrameIInv
  <1>3. CASE HearFlush
    BY <1>3, HearFlushIInv
  <1>4. CASE LoopEnds
    BY <1>4, LoopEndsIInv
  <1>5. CASE Stop \/ StopReturns \/ Pump \/ PumpEnds \/ StallFires \/ VADReset \/ UNCHANGED vars
    BY <1>5, OtherIInv
  <1>6. ASSUME NEW f \in Flushers, Flush(f)
        PROVE  IInv'
    BY <1>6, FlushStepIInv DEF Flush
  <1>7. ASSUME NEW f \in Flushers, FlushSend(f)
        PROVE  IInv'
    BY <1>7, FlushStepIInv DEF FlushSend
  <1>8. ASSUME NEW f \in Flushers, FlushNotAccepted(f)
        PROVE  IInv'
    BY <1>8, FlushStepIInv DEF FlushNotAccepted
  <1>9. ASSUME NEW f \in Flushers, FlushNotAnswered(f)
        PROVE  IInv'
    BY <1>9, FlushStepIInv DEF FlushNotAnswered
  <1>10. ASSUME NEW f \in Flushers, FlushReturns(f)
         PROVE  IInv'
    BY <1>10, FlushStepIInv DEF FlushReturns
  <1> QED BY <1>1, <1>2, <1>3, <1>4, <1>5, <1>6, <1>7, <1>8, <1>9, <1>10 DEF Next, Loop

LEMMA AlwaysIInv == Spec => []IInv
  BY InitIInv, NextIInv, PTL DEF Spec

-----------------------------------------------------------------------------
(* The theorems.                                                           *)

\* A chunk never passes the cap, and a forced split never makes one shorter
\* than half of it (splitAccumulator and quietestSplit).
THEOREM ChunksAlwaysBounded == Spec => []ChunkBounds
  <1>1. IInv => ChunkBounds
    BY DEF IInv
  <1> QED BY <1>1, AlwaysIInv, PTL

\* No utterance is glued over a pause, a flush or a restart of capture
\* (audioLoop's inUtterance and its resets).
THEOREM UtterancesAlwaysWhole == Spec => []UtterancesWhole
  <1>1. IInv => UtterancesWhole
    <2> SUFFICES ASSUME IInv, NEW i \in DOMAIN out, NEW k \in 1..(Len(out[i].frames) - 1)
                 PROVE  out[i].frames[k + 1] = out[i].frames[k] + 1
      BY DEF UtterancesWhole
    <2> DEFINE u == out[i].frames
    <2>1. out \in Seq(Utts) /\ i \in 1..Len(out) /\ Consecutive(u)
      BY Facts DEF Placed
    <2>2. Len(u) \in Nat /\ \A l \in 1..Len(u) : u[l] \in Nat
      BY <2>1, FramesNumbered
    <2> HIDE DEF u
    <2>3. k \in 1..Len(u) /\ k + 1 \in 1..Len(u) /\ 1 \in 1..Len(u) /\ k \in Nat
      BY <2>2 DEF u
    <2>4. u[k] = u[1] + k - 1 /\ u[k + 1] = u[1] + (k + 1) - 1 /\ u[1] \in Nat
      BY <2>1, <2>2, <2>3 DEF Consecutive
    <2>5. u[k + 1] = u[k] + 1
      BY <2>3, <2>4
    <2> QED BY <2>5 DEF u
  <1> QED BY <1>1, AlwaysIInv, PTL

\* A Flush that was answered has emptied the accumulator of all that had been
\* heard when it was called (Flush and the loop's answer to it).
THEOREM FlushAlwaysFlushes == Spec => []FlushFlushes
  <1>1. IInv => FlushFlushes
    <2> SUFFICES ASSUME IInv, NEW f \in Flushers, flusher[f] = "done", NEW i \in DOMAIN acc
                 PROVE  acc[i].n > asked[f]
      BY DEF FlushFlushes
    <2>1. Before \in Nat /\ acc \in Seq(Frames)
      BY Facts
    <2>2. i \in 1..Len(acc) /\ i \in Nat /\ i > 0
      BY <2>1
    <2>3. acc[i].n = Before + i
      BY <2>2 DEF IInv, AccInv
    <2>4. asked[f] <= Before /\ asked[f] \in Nat
      BY DEF IInv, FlushInv, LoopTypeOK
    <2> HIDE DEF Before
    <2> QED BY <2>1, <2>2, <2>3, <2>4
  <1> QED BY <1>1, AlwaysIInv, PTL

\* No speech is lost, doubled or reordered between the VAD and the handler of
\* utterances but what the gate or the end of the loop drops.
THEOREM AudioAlwaysConserved == Spec => []AudioConserved
  <1>1. IInv => AudioConserved
    <2> SUFFICES ASSUME IInv
                 PROVE  AudioConserved
      OBVIOUS
    <2>1. /\ n \in Nat /\ Len(acc) \in Nat /\ Before \in Nat /\ Before <= n /\ Before = n - Len(acc)
          /\ out \in Seq(Utts) /\ acc \in Seq(Frames) /\ Placed(out, Before, n, heard, dropped)
          /\ Len(out) \in Nat
      BY Facts
    <2> DEFINE a == Numbers(acc)
    <2>2. DOMAIN a = 1..Len(acc) /\ \A k \in 1..Len(acc) : a[k] = Before + k
      <3>1. a \in Seq(Numbered) /\ Len(a) = Len(acc) /\ \A k \in 1..Len(acc) : a[k] = acc[k].n
        BY <2>1, NumbersOf
      <3> HIDE DEF a
      <3> QED BY <3>1 DEF IInv, AccInv
    <2>3. \A i \in 1..Len(out) :
              /\ DOMAIN out[i].frames = 1..Len(out[i].frames) /\ Consecutive(out[i].frames)
              /\ \A k \in 1..Len(out[i].frames) :
                    out[i].frames[k] \in Nat \ {0} /\ out[i].frames[k] <= Before
      <3>1. \A i \in 1..Len(out) : out[i] \in Utts /\ \A k \in 1..Len(out[i].frames) : out[i].frames[k] \in Nat \ {0}
        BY <2>1, FramesNumbered
      <3>2. \A i \in 1..Len(out) : DOMAIN out[i].frames = 1..Len(out[i].frames)
        BY <3>1 DEF Utts
      <3> QED BY <2>1, <3>1, <3>2 DEF Placed
    <2>4. /\ Stretches = 1..(Len(out) + 1)
          /\ \A i \in 1..Len(out) : Stretch(i) = out[i].frames
          /\ Stretch(Len(out) + 1) = a
      BY <2>1 DEF Stretches, Stretch
    <2> HIDE DEF a, Before
    <2>5. \A i \in Stretches : i \in 1..Len(out) \/ i = Len(out) + 1
      BY <2>1, <2>4
    <2>6. ASSUME NEW i \in Stretches, NEW j \in Stretches,
                 NEW k \in DOMAIN Stretch(i), NEW l \in DOMAIN Stretch(j), i < j \/ (i = j /\ k < l)
          PROVE  Stretch(i)[k] < Stretch(j)[l]
      <3>1. CASE i \in 1..Len(out) /\ j \in 1..Len(out) /\ i < j
        <4>1. Stretch(i) = out[i].frames /\ Stretch(j) = out[j].frames
          BY <2>4, <3>1
        <4> QED BY <2>1, <2>3, <3>1, <4>1 DEF Placed
      <3>2. CASE i \in 1..Len(out) /\ i = j /\ k < l
        <4> DEFINE u == out[i].frames
        <4>1. Stretch(i) = u /\ Stretch(j) = u /\ k \in 1..Len(u) /\ l \in 1..Len(u)
          BY <2>3, <2>4, <3>2
        <4>2. Consecutive(u) /\ \A x \in 1..Len(u) : u[x] \in Nat
          BY <2>3, <3>2
        <4> HIDE DEF u
        <4>3. 1 \in 1..Len(u) /\ u[1] \in Nat /\ k \in Nat /\ l \in Nat
          BY <3>2, <4>1, <4>2
        <4>4. u[k] = u[1] + k - 1 /\ u[l] = u[1] + l - 1
          BY <4>1, <4>2 DEF Consecutive
        <4>5. u[k] < u[l]
          BY <3>2, <4>3, <4>4
        <4> QED BY <4>1, <4>5
      <3>3. CASE i \in 1..Len(out) /\ j = Len(out) + 1
        <4>1. Stretch(i)[k] \in Nat /\ Stretch(i)[k] <= Before
          BY <2>3, <2>4, <3>3
        <4>2. Stretch(j)[l] = Before + l /\ l \in Nat \ {0}
          BY <2>1, <2>2, <2>4, <3>3
        <4> QED BY <2>1, <4>1, <4>2
      <3>4. CASE i = Len(out) + 1 /\ j = Len(out) + 1 /\ k < l
        <4>1. Stretch(i)[k] = Before + k /\ Stretch(j)[l] = Before + l /\ k \in Nat /\ l \in Nat
          BY <2>1, <2>2, <2>4, <3>4
        <4> QED BY <2>1, <3>4, <4>1
      <3>5. i = Len(out) + 1 /\ j \in 1..Len(out) => ~(i < j) /\ i # j
        BY <2>1
      <3> QED BY <2>1, <2>5, <2>6, <3>1, <3>2, <3>3, <3>4, <3>5
    <2> DEFINE kept == UNION {ToSet(Stretch(i)) : i \in Stretches}
    <2>7. \A x : x \in kept <=> HandedOn(out, x) \/ x \in (Before + 1)..n
      <3>1. \A i \in 1..Len(out) : ToSet(Stretch(i)) = {out[i].frames[k] : k \in 1..Len(out[i].frames)}
        BY <2>3, <2>4 DEF ToSet
      <3>2. ToSet(Stretch(Len(out) + 1)) = (Before + 1)..n
        <4>1. ToSet(a) = {a[k] : k \in 1..Len(acc)}
          BY <2>2 DEF ToSet
        <4>2. ASSUME NEW x \in (Before + 1)..n
              PROVE  \E k \in 1..Len(acc) : a[k] = x
          <5>1. x - Before \in 1..Len(acc) /\ Before + (x - Before) = x
            BY <2>1
          <5> QED BY <2>2, <5>1
        <4>3. \A k \in 1..Len(acc) : a[k] \in (Before + 1)..n
          BY <2>1, <2>2
        <4> QED BY <2>4, <4>1, <4>2, <4>3
      <3>3. \A x : x \in kept <=> \E i \in Stretches : x \in ToSet(Stretch(i))
        OBVIOUS
      <3>4. Len(out) + 1 \in Stretches /\ 1..Len(out) \subseteq Stretches
        BY <2>1, <2>4
      <3> HIDE DEF kept
      <3>5. \A x : x \in kept <=> \/ \E i \in 1..Len(out) : x \in ToSet(Stretch(i))
                                  \/ x \in ToSet(Stretch(Len(out) + 1))
        BY <2>5, <3>3, <3>4
      <3>6. ASSUME NEW x
            PROVE  (\E i \in 1..Len(out) : x \in ToSet(Stretch(i))) <=> HandedOn(out, x)
        <4>1. \A i \in 1..Len(out) :
                  x \in ToSet(Stretch(i)) <=> \E k \in 1..Len(out[i].frames) : out[i].frames[k] = x
          BY <3>1
        <4> QED BY <4>1 DEF HandedOn
      <3> QED BY <3>2, <3>5, <3>6
    <2> HIDE DEF kept
    <2>8. kept \intersect dropped = {}
      <3>1. dropped \subseteq 1..Before /\ \A x \in dropped : ~HandedOn(out, x)
        BY <2>1 DEF Placed
      <3>2. \A x \in 1..Before : x \notin (Before + 1)..n
        BY <2>1
      <3> QED BY <2>7, <3>1, <3>2
    <2>9. kept \union dropped = heard
      <3>1. /\ heard \subseteq 1..n /\ dropped \subseteq 1..n
            /\ \A x \in 1..n : x \in heard <=> x \in dropped \/ HandedOn(out, x) \/ x > Before
        <4>1. dropped \subseteq 1..Before /\ 1..Before \subseteq 1..n
          BY <2>1 DEF Placed
        <4> QED BY <2>1, <4>1 DEF Placed
      <3>2. \A x : HandedOn(out, x) => x \in 1..n
        BY <2>1, <2>3 DEF HandedOn
      <3>3. \A x \in 1..n : x > Before <=> x \in (Before + 1)..n
        BY <2>1
      <3>4. (Before + 1)..n \subseteq 1..n
        BY <2>1
      <3> QED BY <2>7, <3>1, <3>2, <3>3, <3>4
    <2> QED BY <2>6, <2>8, <2>9 DEF AudioConserved, kept
  <1> QED BY <1>1, AlwaysIInv, PTL

-----------------------------------------------------------------------------
(* The types, and with them the bounds of the frame channel, the request   *)
(* channel, the hangover and the counter of raw speech.                    *)

\* What LoopTypeOK and the theorems above leave open.
RestTypeOK ==
    /\ capture \in {"none", "running", "eof"}
    /\ queue \in 0..ChanCap
    /\ loop \in {"on", "off"}
    /\ monitor \in {"idle", "started", "stopping"}
    /\ starts \in 0..MaxStarts
    /\ running \in {"yes", "no"} /\ stalled \in {"yes", "no"}
    /\ quiet \in 0..Hangover
    /\ n \in Nat /\ rawCount \in 0..n
    /\ flushReq \in {<<>>} \union {<<f>> : f \in Flushers \union {"nobody"}}

\* Capture, its pump, the stall timer and the end of the loop.
LEMMA RestCapture ==
    ASSUME RestTypeOK,
           Start \/ Stop \/ StopReturns \/ Pump \/ PumpEnds \/ StallFires \/ LoopEnds \/ VADReset
    PROVE  RestTypeOK'
  <1> USE AudioAssumption DEF RestTypeOK, runVars, vadVars, uttVars, flushVars
  <1>1. CASE Start
    BY <1>1 DEF Start
  <1>2. CASE Stop
    BY <1>2 DEF Stop
  <1>3. CASE StopReturns
    BY <1>3 DEF StopReturns
  <1>4. CASE Pump
    BY <1>4 DEF Pump
  <1>5. CASE PumpEnds
    BY <1>5 DEF PumpEnds
  <1>6. CASE StallFires
    BY <1>6 DEF StallFires
  <1>7. CASE LoopEnds
    BY <1>7 DEF LoopEnds
  <1>8. CASE VADReset
    BY <1>8 DEF VADReset
  <1> QED BY <1>1, <1>2, <1>3, <1>4, <1>5, <1>6, <1>7, <1>8

\* A frame of speech adds at most one to the counter of raw speech.
LEMMA RestHearFrame ==
    ASSUME RestTypeOK, HearFrame
    PROVE  RestTypeOK'
  <1>1. /\ queue' \in 0..ChanCap /\ n' \in Nat /\ n' = n + 1 /\ stalled' = "no"
        /\ UNCHANGED <<capture, runVars, flushVars>>
    BY AudioAssumption DEF RestTypeOK, HearFrame
  <1>2. PICK kind \in Kinds :
            /\ quiet' = QuietAfter(kind)
            /\ \/ SpeechFrame([n |-> n + 1, kind |-> kind])
               \/ Emit("pause")
               \/ UNCHANGED uttVars
    BY DEF HearFrame
  <1>3. quiet' \in 0..Hangover
    BY <1>2, AudioAssumption DEF QuietAfter, RestTypeOK
  <1>4. rawCount' \in {rawCount, rawCount + 1, 0, 1}
    <2>1. CASE SpeechFrame([n |-> n + 1, kind |-> kind])
      <3>1. rawCount' = (IF utterance = "no" THEN 0 ELSE rawCount) + (IF kind = "quiet" THEN 0 ELSE 1)
        BY <2>1 DEF SpeechFrame
      <3> QED BY <3>1 DEF RestTypeOK
    <2>2. CASE Emit("pause")
      BY <2>2 DEF Emit
    <2>3. CASE UNCHANGED uttVars
      BY <2>3 DEF uttVars
    <2> QED BY <1>2, <2>1, <2>2, <2>3
  <1>5. rawCount' \in 0..n'
    BY <1>1, <1>4 DEF RestTypeOK
  <1> QED BY <1>1, <1>3, <1>5 DEF RestTypeOK, runVars, flushVars

\* Flush and its answer: the request channel never holds more than one request.
LEMMA RestFlush ==
    ASSUME RestTypeOK,
           \/ HearFlush
           \/ \E f \in Flushers : \/ Flush(f) \/ FlushSend(f) \/ FlushNotAccepted(f)
                                  \/ FlushNotAnswered(f) \/ FlushReturns(f)
    PROVE  RestTypeOK'
  <1>1. flushReq' \in {flushReq, <<>>} \union {<<f>> : f \in Flushers \union {"nobody"}}
    BY DEF HearFlush, Flush, FlushSend, FlushNotAccepted, FlushNotAnswered, FlushReturns
  <1>2. UNCHANGED <<capture, queue, runVars, stalled, vadVars>>
    BY DEF HearFlush, Flush, FlushSend, FlushNotAccepted, FlushNotAnswered, FlushReturns, FlushStep
  <1>3. rawCount' \in {rawCount, 0}
    BY DEF HearFlush, Emit, Flush, FlushSend, FlushNotAccepted, FlushNotAnswered, FlushReturns,
           FlushStep, uttVars
  <1> QED BY <1>1, <1>2, <1>3 DEF RestTypeOK, runVars, vadVars

\* Every variable keeps its type: the channel of frames and the one of requests
\* their capacities, the accumulator stays below the cap, and what is dropped
\* was heard (audiomonitor.go:219-356).
THEOREM TypeCorrect == Spec => []TypeOK
  <1>1. Init => RestTypeOK
    BY AudioAssumption DEF Init, RestTypeOK
  <1>2. RestTypeOK /\ [Next]_vars => RestTypeOK'
    <2>1. ASSUME RestTypeOK, UNCHANGED vars
          PROVE  RestTypeOK'
      BY <2>1 DEF RestTypeOK, vars
    <2> QED BY <2>1, RestCapture, RestHearFrame, RestFlush DEF Next, Loop
  <1>3. IInv /\ RestTypeOK => TypeOK
    <2> SUFFICES ASSUME IInv, RestTypeOK
                 PROVE  TypeOK
      OBVIOUS
    <2>1. /\ n \in 0..MaxFrames /\ acc \in Seq(Frames) /\ (Cap > 0 => Len(acc) < Cap)
          /\ utterance \in {"yes", "no"} /\ out \in Seq(Utts)
          /\ flusher \in [Flushers -> {"idle", "sending", "waiting", "done"}]
      BY DEF IInv, LoopTypeOK
    <2>2. Utts = [frames : Seq(1..MaxFrames), how : {"pause", "flush", "split"}]
      BY DEF Utts, Numbered, Hows
    <2>3. heard \subseteq 1..MaxFrames /\ dropped \subseteq heard
      <3>1. Before \in Nat /\ Before <= n
        BY Facts
      <3>2. heard \subseteq 1..n /\ dropped \subseteq 1..Before /\ \A x \in 1..n : x \in dropped => x \in heard
        BY DEF IInv, Placed
      <3>3. 1..n \subseteq 1..MaxFrames /\ 1..Before \subseteq 1..n
        BY <2>1, <3>1, AudioAssumption
      <3> QED BY <3>2, <3>3
    <2>4. asked \in [Flushers -> 0..MaxFrames]
      <3>1. asked \in [Flushers -> Nat] /\ \A f \in Flushers : asked[f] <= n
        BY DEF IInv, LoopTypeOK, FlushInv
      <3>2. \A f \in Flushers : asked[f] \in 0..MaxFrames
        BY <2>1, <3>1, AudioAssumption
      <3> QED BY <3>1, <3>2
    <2>5. rawCount \in 0..MaxFrames
      BY <2>1, AudioAssumption DEF RestTypeOK
    <2>6. flushReq \in Seq(Flushers \union {"nobody"}) /\ Len(flushReq) <= 1
      <3> DEFINE F == Flushers \union {"nobody"}
      <3>1. flushReq = <<>> \/ \E f \in F : flushReq = <<f>>
        BY DEF RestTypeOK
      <3> HIDE DEF F
      <3>2. flushReq \in Seq(F) /\ Len(flushReq) <= 1
        <4>1. CASE flushReq = <<>>
          BY <4>1
        <4>2. ASSUME NEW f \in F, flushReq = <<f>>
              PROVE  flushReq \in Seq(F) /\ Len(flushReq) <= 1
          <5>1. <<f>> \in Seq(F) /\ Len(<<f>>) <= 1
            OBVIOUS
          <5> QED BY <4>2, <5>1, Zenon
        <4> QED BY <3>1, <4>1, <4>2, Zenon
      <3> QED BY <3>2 DEF F
    <2> QED BY <2>1, <2>2, <2>3, <2>4, <2>5, <2>6 DEF TypeOK, RestTypeOK
  <1> QED BY AlwaysIInv, <1>1, <1>2, <1>3, PTL DEF Spec

=============================================================================
