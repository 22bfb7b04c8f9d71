---------------------------- MODULE AudioMonitor ----------------------------
(***************************************************************************)
(* The capture pump and the audio loop (internal/audio/capture.go, vad.go; *)
(* cmd/dictad/audiomonitor.go): frames are classified, speech is           *)
(* accumulated, and utterances are emitted at a pause, at a flush or at    *)
(* the cap; Start, Stop and Flush come from other goroutines.              *)
(*                                                                         *)
(* A frame is its number and its kind. Calibration is a run of frames that *)
(* classify as quiet. What the stall hooks do is in MuteWatch.             *)
(***************************************************************************)
EXTENDS Integers, Sequences, FiniteSets, SequencesExt

CONSTANTS Flushers,  \* goroutines that may call Flush
          Cap,       \* maxUtteranceBytes in frames, 0 for none
          Window,    \* splitSearchBytes in frames
          MinRaw,    \* minRawSpeechFrames
          Hangover,  \* frames of silence that end an utterance
          ChanCap,   \* capacity of the frame channel (8 in the code)
          MaxFrames, \* BOUND: frames captured
          MaxStarts  \* BOUND: times capture is started

ASSUME AudioAssumption ==
    /\ Cap \in Nat /\ Window \in Nat /\ MinRaw \in Nat
    /\ Hangover \in Nat \ {0} /\ ChanCap \in Nat \ {0}
    /\ MaxFrames \in Nat /\ MaxStarts \in Nat \ {0}

\* Raw speech with energy all along, raw speech in one window only, neither.
Kinds == {"loud", "soft", "quiet"}
Level == [loud |-> 2, soft |-> 1, quiet |-> 0]

VARIABLES capture,   \* the subprocess and its pump: none, running, or at EOF
          queue,     \* frames in the channel
          loop,      \* the audio loop, on or off
          monitor,   \* m.stop: idle, started, or Stop waits for the loop
          starts,    \* times capture was started
          running,   \* m.running
          stalled,   \* m.stalled
          quiet,     \* the VAD's run of silence, Hangover outside an utterance
          n,         \* frames the loop has heard
          utterance, \* inUtterance
          acc,       \* the accumulator, a sequence of frames
          rawCount,  \* rawSpeechCount
          heard,     \* numbers of the frames that counted as speech
          out,       \* utterances handed to onUtterance, in order, as the numbers of their frames
          dropped,   \* numbers of speech frames that went nowhere
          flushReq,  \* the request channel, of capacity one
          flusher,   \* where each caller of Flush is
          asked      \* n when it called, 0 outside Flush

vars == <<capture, queue, loop, monitor, starts, running, stalled, quiet, n, utterance, acc,
          rawCount, heard, out, dropped, flushReq, flusher, asked>>

runVars   == <<loop, monitor, starts, running>>
vadVars   == <<quiet, n, heard>>
uttVars   == <<utterance, acc, rawCount, out, dropped>>
flushVars == <<flushReq, flusher, asked>>

Frames == [n : 1..MaxFrames, kind : Kinds]
Numbers(s) == [i \in DOMAIN s |-> s[i].n]

TypeOK ==
    /\ capture \in {"none", "running", "eof"}
    /\ queue \in 0..ChanCap
    /\ loop \in {"on", "off"}
    /\ monitor \in {"idle", "started", "stopping"}
    /\ starts \in 0..MaxStarts
    /\ running \in {"yes", "no"} /\ stalled \in {"yes", "no"}
    /\ quiet \in 0..Hangover
    /\ n \in 0..MaxFrames
    /\ utterance \in {"yes", "no"}
    /\ acc \in Seq(Frames) /\ (Cap > 0 => Len(acc) < Cap)
    /\ rawCount \in 0..MaxFrames
    /\ heard \subseteq 1..MaxFrames /\ dropped \subseteq heard
    /\ out \in Seq([frames : Seq(1..MaxFrames), how : {"pause", "flush", "split"}])
    /\ flushReq \in Seq(Flushers \union {"nobody"}) /\ Len(flushReq) <= 1
    /\ flusher \in [Flushers -> {"idle", "sending", "waiting", "done"}]
    /\ asked \in [Flushers -> 0..MaxFrames]

Init ==
    /\ capture = "none"
    /\ queue = 0
    /\ loop = "off"
    /\ monitor = "idle"
    /\ starts = 0
    /\ running = "no" /\ stalled = "no"
    /\ quiet = Hangover
    /\ n = 0
    /\ utterance = "no" /\ acc = <<>> /\ rawCount = 0
    /\ heard = {} /\ out = <<>> /\ dropped = {}
    /\ flushReq = <<>>
    /\ flusher = [f \in Flushers |-> "idle"]
    /\ asked = [f \in Flushers |-> 0]

-----------------------------------------------------------------------------
(* Capture, started and stopped by the session's syncAudio.                *)

\* The loop starts with locals of its own; the VAD is the same one.
Start ==
    /\ monitor = "idle" /\ starts < MaxStarts
    /\ monitor' = "started"
    /\ starts' = starts + 1
    /\ capture' = "running" /\ queue' = 0
    /\ loop' = "on" /\ running' = "yes"
    /\ utterance' = "no" /\ acc' = <<>> /\ rawCount' = 0
    /\ UNCHANGED <<stalled, vadVars, out, dropped, flushVars>>

\* Stop cancels the context ...
Stop ==
    /\ monitor = "started"
    /\ monitor' = "stopping"
    /\ UNCHANGED <<capture, queue, loop, starts, running, stalled, vadVars, uttVars, flushVars>>

\* ... and returns when the loop has drained the channel and capture is reaped.
StopReturns ==
    /\ monitor = "stopping" /\ loop = "off"
    /\ monitor' = "idle"
    /\ capture' = "none"
    /\ running' = "no" /\ stalled' = "no"
    /\ UNCHANGED <<queue, loop, starts, vadVars, uttVars, flushVars>>

\* pump reads a frame; a full channel drops it.
Pump ==
    /\ capture = "running" /\ n + queue < MaxFrames
    /\ queue' = IF queue < ChanCap THEN queue + 1 ELSE queue
    /\ UNCHANGED <<capture, runVars, stalled, vadVars, uttVars, flushVars>>

\* The subprocess ends, by itself or killed by Stop; pump closes the channel.
PumpEnds ==
    /\ capture = "running"
    /\ capture' = "eof"
    /\ UNCHANGED <<queue, runVars, stalled, vadVars, uttVars, flushVars>>

-----------------------------------------------------------------------------
(* The loop.                                                               *)

\* Fault: the gate forgets to reset the accumulator of what it drops.
EmitKeepsDropped(how) ==
    IF rawCount < MinRaw
    THEN /\ utterance' = "no" /\ rawCount' = 0
         /\ dropped' = dropped \union ToSet(Numbers(acc))
         /\ UNCHANGED <<acc, out>>
    ELSE /\ utterance' = "no" /\ acc' = <<>> /\ rawCount' = 0
         /\ out' = IF acc = <<>> THEN out ELSE Append(out, [frames |-> Numbers(acc), how |-> how])
         /\ UNCHANGED dropped

\* The end of an utterance, with the minimum-speech gate.
Emit(how) ==
    /\ utterance' = "no" /\ acc' = <<>> /\ rawCount' = 0
    /\ IF rawCount < MinRaw
       THEN dropped' = dropped \union ToSet(Numbers(acc)) /\ UNCHANGED out
       ELSE /\ out' = IF acc = <<>> THEN out ELSE Append(out, [frames |-> Numbers(acc), how |-> how])
            /\ UNCHANGED dropped

\* Fault: the search window is not capped at half the buffer.
QuietestSplitUncapped(a) ==
    LET ends == (Len(a) - (IF Window < Len(a) THEN Window ELSE Len(a)) + 1)..Len(a)
        least == {e \in ends : \A d \in ends : Level[a[e].kind] <= Level[a[d].kind]}
    IN IF ends = {} THEN Len(a) ELSE CHOOSE e \in least : \A d \in least : d <= e

\* The end of the quietest frame in the trailing window, the latest on a tie.
QuietestSplit(a) ==
    LET half == Len(a) \div 2
        window == IF Window < half THEN Window ELSE half
        ends == (Len(a) - window + 1)..Len(a)
        least == {e \in ends : \A d \in ends : Level[a[e].kind] <= Level[a[d].kind]}
    IN IF ends = {} THEN Len(a) ELSE CHOOSE e \in least : \A d \in least : d <= e

\* A speech frame joins the accumulator; at the cap a chunk is forced out and
\* the rest is carried.
SpeechFrame(f) ==
    LET grown == Append(IF utterance = "no" THEN <<>> ELSE acc, f)
        raws  == (IF utterance = "no" THEN 0 ELSE rawCount) + (IF f.kind = "quiet" THEN 0 ELSE 1)
        cut   == QuietestSplit(grown)
    IN /\ utterance' = "yes" /\ rawCount' = raws
       /\ IF Cap > 0 /\ Len(grown) >= Cap
          THEN /\ out' = Append(out, [frames |-> Numbers(SubSeq(grown, 1, cut)), how |-> "split"])
               /\ acc' = SubSeq(grown, cut + 1, Len(grown))
          ELSE acc' = grown /\ UNCHANGED out
       /\ UNCHANGED dropped

\* applyHangover: the run of silence after this frame.
QuietAfter(kind) == IF kind # "quiet" THEN 0 ELSE IF quiet < Hangover THEN quiet + 1 ELSE quiet

\* Fault: a pause does not end the utterance.
HearFrameNoPause ==
    /\ loop = "on" /\ queue > 0
    /\ queue' = queue - 1
    /\ stalled' = "no"
    /\ n' = n + 1
    /\ \E kind \in Kinds :
          /\ quiet' = QuietAfter(kind)
          /\ IF quiet' < Hangover
             THEN heard' = heard \union {n + 1} /\ SpeechFrame([n |-> n + 1, kind |-> kind])
             ELSE UNCHANGED <<heard, uttVars>>
    /\ UNCHANGED <<capture, runVars, flushVars>>

HearFrame ==
    /\ loop = "on" /\ queue > 0
    /\ queue' = queue - 1
    /\ stalled' = "no"
    /\ n' = n + 1
    /\ \E kind \in Kinds :
          /\ quiet' = QuietAfter(kind)
          /\ \/ /\ quiet' < Hangover
                /\ heard' = heard \union {n + 1}
                /\ SpeechFrame([n |-> n + 1, kind |-> kind])
             \/ /\ quiet' = Hangover /\ utterance = "yes"
                /\ UNCHANGED heard
                /\ Emit("pause")
             \/ /\ quiet' = Hangover /\ utterance = "no"
                /\ UNCHANGED <<heard, uttVars>>
    /\ UNCHANGED <<capture, runVars, flushVars>>

\* Fault: a flush waits for the pause.
HearFlushLater ==
    /\ loop = "on" /\ flushReq # <<>>
    /\ flushReq' = <<>>
    /\ flusher' = [f \in Flushers |-> IF f = Head(flushReq) THEN "done" ELSE flusher[f]]
    /\ UNCHANGED <<asked, capture, queue, runVars, stalled, vadVars, uttVars>>

HearFlush ==
    /\ loop = "on" /\ flushReq # <<>>
    /\ flushReq' = <<>>
    /\ flusher' = [f \in Flushers |-> IF f = Head(flushReq) THEN "done" ELSE flusher[f]]
    /\ Emit("flush")
    /\ UNCHANGED <<asked, capture, queue, runVars, stalled, vadVars>>

\* No frame for stallTimeout.
StallFires ==
    /\ loop = "on" /\ queue = 0 /\ stalled = "no"
    /\ stalled' = "yes"
    /\ UNCHANGED <<capture, queue, runVars, vadVars, uttVars, flushVars>>

\* Fault: Stop's context does not reach the loop of a capture that died before.
LoopLingers ==
    /\ loop = "on" /\ queue = 0 /\ capture = "eof" /\ monitor = "started"
    /\ loop' = "off"
    /\ dropped' = dropped \union ToSet(Numbers(acc))
    /\ acc' = <<>>
    /\ UNCHANGED <<utterance, rawCount, out, capture, queue, monitor, starts, running, stalled,
                   vadVars, flushVars>>

\* The channel is closed and drained; the accumulator goes with the loop.
LoopEnds ==
    /\ loop = "on" /\ queue = 0 /\ capture = "eof"
    /\ loop' = "off"
    /\ dropped' = dropped \union ToSet(Numbers(acc))
    /\ acc' = <<>>
    /\ UNCHANGED <<utterance, rawCount, out, capture, queue, monitor, starts, running, stalled,
                   vadVars, flushVars>>

\* A new session recalibrates the VAD, also under a running loop.
VADReset ==
    /\ quiet' = Hangover
    /\ UNCHANGED <<n, heard, capture, queue, runVars, stalled, uttVars, flushVars>>

-----------------------------------------------------------------------------
(* Flush, by the goroutines that close sessions.                           *)

FlushStep(f, from, to) ==
    /\ flusher[f] = from
    /\ flusher' = [flusher EXCEPT ![f] = to]
    /\ UNCHANGED <<capture, queue, runVars, stalled, vadVars, uttVars>>

Flush(f) ==
    /\ running = "yes"
    /\ FlushStep(f, "idle", "sending")
    /\ asked' = [asked EXCEPT ![f] = n]
    /\ UNCHANGED flushReq

FlushSend(f) ==
    /\ flushReq = <<>>
    /\ FlushStep(f, "sending", "waiting")
    /\ flushReq' = <<f>>
    /\ UNCHANGED asked

\* The loop did not accept the request within 100 ms.
FlushNotAccepted(f) ==
    /\ FlushStep(f, "sending", "idle")
    /\ asked' = [asked EXCEPT ![f] = 0]
    /\ UNCHANGED flushReq

\* It did not answer within 500 ms; the request stays in the channel.
FlushNotAnswered(f) ==
    /\ FlushStep(f, "waiting", "idle")
    /\ flushReq' = IF flushReq = <<f>> THEN <<"nobody">> ELSE flushReq
    /\ asked' = [asked EXCEPT ![f] = 0]

FlushReturns(f) ==
    /\ FlushStep(f, "done", "idle")
    /\ asked' = [asked EXCEPT ![f] = 0]
    /\ UNCHANGED flushReq

-----------------------------------------------------------------------------

Loop == HearFrame \/ HearFlush \/ LoopEnds

Next ==
    \/ Start \/ Stop \/ StopReturns
    \/ Pump \/ PumpEnds
    \/ Loop \/ StallFires \/ VADReset
    \/ \E f \in Flushers :
          Flush(f) \/ FlushSend(f) \/ FlushNotAccepted(f) \/ FlushNotAnswered(f) \/ FlushReturns(f)

Spec == Init /\ [][Next]_vars

\* Fairness: the loop runs on, its timer expires, and its select takes a branch
\* that stays ready, as Go picks among the ready ones at random; a cancelled
\* subprocess is killed by CommandContext. Nobody has to speak, start or flush.
FairSpec ==
    /\ Spec
    /\ WF_vars(HearFrame) /\ WF_vars(HearFlush) /\ WF_vars(LoopEnds)
    /\ WF_vars(StallFires) /\ WF_vars(StopReturns)
    /\ WF_vars(monitor = "stopping" /\ PumpEnds)

-----------------------------------------------------------------------------
(* Properties.                                                             *)

\* What was handed on, utterance by utterance, and after it the accumulator.
Stretches == 1..(Len(out) + 1)
Stretch(i) == IF i <= Len(out) THEN out[i].frames ELSE Numbers(acc)

\* Speech is handed on once and in order: every frame that counted as speech is
\* in an utterance, in the accumulator, or was dropped by the gate or with the
\* loop, through pauses, flushes, forced splits and restarts
\* (audiomonitor.go:219, 319).
AudioConserved ==
    /\ \A i, j \in Stretches : \A k \in DOMAIN Stretch(i), l \in DOMAIN Stretch(j) :
          i < j \/ (i = j /\ k < l) => Stretch(i)[k] < Stretch(j)[l]
    /\ LET kept == UNION {ToSet(Stretch(i)) : i \in Stretches}
       IN kept \intersect dropped = {} /\ kept \union dropped = heard

\* An utterance is one stretch of what was heard: no pause, flush or restart is
\* ever glued over (audiomonitor.go:293).
UtterancesWhole ==
    \A i \in DOMAIN out : LET u == out[i].frames IN
        \A k \in 1..(Len(u) - 1) : u[k + 1] = u[k] + 1

\* Chunks are bounded on both sides: at most the cap, and a forced split keeps
\* at least half of it (audiomonitor.go:388).
ChunkBounds ==
    Cap > 0 => \A i \in DOMAIN out :
        /\ Len(out[i].frames) <= Cap
        /\ out[i].how = "split" => 2 * Len(out[i].frames) >= Cap

\* An answered Flush has emitted all that had been heard when it was called,
\* whatever stale request was in the channel before it (audiomonitor.go:358).
FlushFlushes ==
    \A f \in Flushers : flusher[f] = "done" => \A i \in DOMAIN acc : acc[i].n > asked[f]

\* Stop always returns, whatever the loop was doing (audiomonitor.go:176).
StopEnds == (monitor = "stopping") ~> (monitor = "idle")

-----------------------------------------------------------------------------
(* What the code's comments say, and the code does not do.                 *)

\* "Stalled is true while capture is running but no frame has arrived within the
\* daemon's stall timeout" (proto.go:66).
SilenceIsReported == (running = "yes" /\ queue = 0 /\ capture = "eof") ~> (stalled = "yes" \/ running = "no")

=============================================================================
