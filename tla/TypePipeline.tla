---------------------------- MODULE TypePipeline ----------------------------
(***************************************************************************)
(* An utterance's way from the audio loop to the keyboard: OnUtterance     *)
(* (cmd/dictad/session.go:728), the ASR monitor with its concurrency cap   *)
(* (cmd/dictad/asrmonitor.go:129), its two callbacks, and the single       *)
(* worker that types (session.go:252). The session around it is whatever   *)
(* SessionEpochs allows: it may close, reopen, switch mode or roll back    *)
(* between any two steps here.                                             *)
(*                                                                         *)
(* Utterances are numbered in the order the audio loop submits them. The   *)
(* text of a transcript matters only by being there or not.                *)
(***************************************************************************)
EXTENDS SessionEpochs, Sequences, FiniteSets

CONSTANTS MaxUtterances,  \* BOUND: utterances submitted in a behaviour
          MaxEpoch,       \* BOUND: the session's epoch
          QueueCap,       \* capacity of typeQueue (8 in the code)
          MaxConcurrent   \* capacity of the inflight semaphore (2 by default)

ASSUME PipelineAssumption ==
    /\ MaxUtterances \in Nat /\ MaxEpoch \in Nat
    /\ QueueCap \in Nat /\ MaxConcurrent \in Nat

Utterances == 1..MaxUtterances

VARIABLES loop,      \* the audio goroutine in OnUtterance: where it is, and the utterance
          spoken,    \* utterances submitted so far
          utt,       \* of each utterance: the mode and epoch it was submitted in
          asr,       \* of each utterance: how far its transcription is
          expired,   \* utterances whose TranscribeTimeout has passed
          inflight,  \* tokens in the inflight semaphore
          text,      \* utterances whose job has a text
          closes,    \* of each utterance: how often its ready channel was closed
          queue,     \* typeQueue
          worker,    \* the type worker: where it is, and its job
          inEpoch,   \* the worker's currentEpoch and whether it typed in it
          typed,     \* what reached the keyboard
          published, \* utterances whose transcript was published on the event bus
          down       \* shutdown: none, daemonCtx cancelled, typeQueue closed

vars == <<mode, epoch, loop, spoken, utt, asr, expired, inflight, text, closes, queue,
          worker, inEpoch, typed, published, down>>

sessionVars == <<mode, epoch>>
loopVars    == <<loop, spoken, utt>>
asrVars     == <<asr, expired, inflight, text, closes>>
workerVars  == <<worker, inEpoch, typed>>

Typing(u) == utt[u].mode = "type"

\* A panic takes the whole daemon with it.
Running == loop.at # "panicked"

TypeOK ==
    /\ mode \in Modes \union {"none"}
    /\ epoch \in Nat
    /\ loop \in [at : {"idle", "gated", "queued", "panicked"}, utt : 0..MaxUtterances]
    /\ spoken \in 0..MaxUtterances
    /\ utt \in [Utterances -> [mode : Modes, epoch : Nat]]
    /\ asr \in [Utterances -> {"none", "transcribing", "backoff", "accepted", "done"}]
    /\ expired \in SUBSET Utterances
    /\ inflight \in 0..MaxConcurrent
    /\ text \in SUBSET Utterances
    /\ closes \in [Utterances -> Nat]
    /\ queue \in Seq(Utterances) /\ Len(queue) <= QueueCap
    /\ worker \in [at : {"idle", "waiting", "typing", "exited"}, job : 0..MaxUtterances]
    /\ inEpoch \in [epoch : Nat, typed : BOOLEAN]
    /\ typed \in Seq([utt : Utterances, space : BOOLEAN])
    /\ published \in SUBSET Utterances
    /\ down \in {"no", "cancelled", "closed"}

Init ==
    /\ EpochInit
    /\ loop = [at |-> "idle", utt |-> 0]
    /\ spoken = 0
    /\ utt = [u \in Utterances |-> [mode |-> "type", epoch |-> 0]]
    /\ asr = [u \in Utterances |-> "none"]
    /\ expired = {}
    /\ inflight = 0
    /\ text = {}
    /\ closes = [u \in Utterances |-> 0]
    /\ queue = <<>>
    /\ worker = [at |-> "idle", job |-> 0]
    /\ inEpoch = [epoch |-> 0, typed |-> FALSE]
    /\ typed = <<>>
    /\ published = {}
    /\ down = "no"

-----------------------------------------------------------------------------
(* The session, as the pipeline sees it.                                   *)

SessionStep ==
    /\ Running
    /\ EpochNext
    /\ epoch' <= MaxEpoch
    /\ UNCHANGED <<loopVars, asrVars, queue, workerVars, published, down>>

-----------------------------------------------------------------------------
(* session.OnUtterance, on the audio goroutine.                            *)

\* The gate: an utterance of a closed session is dropped without a trace.
OnUtterance ==
    /\ Running
    /\ loop.at = "idle"
    /\ mode \in Modes
    /\ spoken < MaxUtterances
    /\ spoken' = spoken + 1
    /\ utt' = [utt EXCEPT ![spoken + 1] = [mode |-> mode, epoch |-> epoch]]
    /\ loop' = [at |-> "gated", utt |-> spoken + 1]
    /\ UNCHANGED <<sessionVars, asrVars, queue, workerVars, published, down>>

LoopIdle == loop' = [at |-> "idle", utt |-> 0]

\* The job takes its place in the queue before transcription starts; a full
\* queue drops the utterance, and a closed one makes the send panic.
Enqueue ==
    /\ Running
    /\ loop.at = "gated"
    /\ \/ /\ ~Typing(loop.utt)
          /\ loop' = [loop EXCEPT !.at = "queued"]
          /\ UNCHANGED queue
       \/ /\ Typing(loop.utt) /\ down = "closed"
          /\ loop' = [loop EXCEPT !.at = "panicked"]
          /\ UNCHANGED queue
       \/ /\ Typing(loop.utt) /\ down # "closed" /\ Len(queue) < QueueCap
          /\ loop' = [loop EXCEPT !.at = "queued"]
          /\ queue' = Append(queue, loop.utt)
       \/ /\ Typing(loop.utt) /\ down # "closed" /\ Len(queue) = QueueCap
          /\ LoopIdle
          /\ UNCHANGED queue
    /\ UNCHANGED <<sessionVars, spoken, utt, asrVars, workerVars, published, down>>

CloseReady(u) ==
    closes' = IF Typing(u) THEN [closes EXCEPT ![u] = @ + 1] ELSE closes

\* Fault: at the cap the utterance is dropped without onSkip.
AdmitSilently ==
    /\ Running /\ loop.at = "queued"
    /\ IF inflight < MaxConcurrent
       THEN /\ inflight' = inflight + 1
            /\ asr' = [asr EXCEPT ![loop.utt] = "transcribing"]
       ELSE UNCHANGED <<inflight, asr>>
    /\ LoopIdle
    /\ UNCHANGED <<closes, sessionVars, spoken, utt, text, expired, queue, workerVars, published, down>>

\* asrMonitor.OnUtterance: a token of the semaphore, or onSkip at once.
Admit ==
    /\ Running
    /\ loop.at = "queued"
    /\ IF inflight < MaxConcurrent
       THEN /\ inflight' = inflight + 1
            /\ asr' = [asr EXCEPT ![loop.utt] = "transcribing"]
            /\ UNCHANGED closes
       ELSE /\ CloseReady(loop.utt)
            /\ asr' = [asr EXCEPT ![loop.utt] = "done"]
            /\ UNCHANGED inflight
    /\ LoopIdle
    /\ UNCHANGED <<sessionVars, spoken, utt, text, expired, queue, workerVars, published, down>>

-----------------------------------------------------------------------------
(* asrMonitor.transcribe, a goroutine per utterance, and the retry wrapper *)
(* around the backend it asks. The backend may never answer: only the      *)
(* deadline of the call bounds it.                                         *)

Busy == {"transcribing", "backoff", "accepted"}

InCall(u) == asr[u] \in {"transcribing", "backoff"}

\* The deferred calls: the callback that is due has run, the token goes back.
Finish(u) ==
    /\ asr' = [asr EXCEPT ![u] = "done"]
    /\ inflight' = inflight - 1
    /\ expired' = expired \ {u}

\* Fault: an early return that misses the deferred release.
SkipKeepsToken(u) ==
    /\ CloseReady(u)
    /\ asr' = [asr EXCEPT ![u] = "done"]
    /\ expired' = expired \ {u}
    /\ UNCHANGED inflight

\* Every way out of transcribe but onTranscript: the deferred onSkip.
Skip(u) == CloseReady(u) /\ Finish(u)

\* The deadline of the call passes.
Expire(u) ==
    /\ Running
    /\ InCall(u) /\ u \notin expired
    /\ expired' = expired \union {u}
    /\ UNCHANGED <<asr, inflight, closes>>
    /\ UNCHANGED <<sessionVars, loopVars, text, queue, workerVars, published, down>>

\* Fault: the wrapper retries without looking at its deadline.
RetryRegardless(u) ==
    /\ Running
    /\ asr[u] = "transcribing"
    /\ asr' = [asr EXCEPT ![u] = "backoff"]
    /\ UNCHANGED <<expired, inflight, closes>>
    /\ UNCHANGED <<sessionVars, loopVars, text, queue, workerVars, published, down>>

\* retryBackend.Transcribe: a transport error is retried after a pause, but not
\* once the deadline has passed.
TransportError(u) ==
    /\ Running
    /\ asr[u] = "transcribing"
    /\ IF u \in expired
       THEN Skip(u)
       ELSE /\ asr' = [asr EXCEPT ![u] = "backoff"]
            /\ UNCHANGED <<expired, inflight, closes>>
    /\ UNCHANGED <<sessionVars, loopVars, text, queue, workerVars, published, down>>

\* The pause ends by its timer or by the deadline.
BackoffEnds(u) ==
    /\ Running
    /\ asr[u] = "backoff"
    /\ \/ /\ asr' = [asr EXCEPT ![u] = "transcribing"]
          /\ UNCHANGED <<expired, inflight, closes>>
       \/ u \in expired /\ Skip(u)
    /\ UNCHANGED <<sessionVars, loopVars, text, queue, workerVars, published, down>>

\* An error that is not retried, or a transcript the filters drop.
TranscriptSkipped(u) ==
    /\ Running
    /\ asr[u] = "transcribing"
    /\ Skip(u)
    /\ UNCHANGED <<sessionVars, loopVars, text, queue, workerVars, published, down>>

\* onTranscript compares session and submission under mu ...
OnTranscript(u) ==
    /\ Running
    /\ asr[u] = "transcribing"
    /\ IF epoch = utt[u].epoch /\ mode \in {utt[u].mode, "none"}
       THEN /\ asr' = [asr EXCEPT ![u] = "accepted"]
            /\ expired' = expired \ {u}
            /\ UNCHANGED <<inflight, closes>>
       ELSE Skip(u)
    /\ UNCHANGED <<sessionVars, loopVars, text, queue, workerVars, published, down>>

\* Fault: `skipped` stays true, so the deferred onSkip closes ready again.
DeliverThenSkip(u) ==
    /\ Running /\ asr[u] = "accepted" /\ Typing(u)
    /\ closes' = [closes EXCEPT ![u] = @ + 2]
    /\ text' = text \union {u}
    /\ published' = published \union {u}
    /\ Finish(u)
    /\ UNCHANGED <<sessionVars, loopVars, queue, workerVars, down>>

\* ... and acts on the answer later: type-mode publishes the text as it is and
\* hands it to the worker, ...
Deliver(u) ==
    /\ Running
    /\ asr[u] = "accepted" /\ Typing(u)
    /\ CloseReady(u)
    /\ published' = published \union {u}
    /\ text' = text \union {u}
    /\ Finish(u)
    /\ UNCHANGED <<sessionVars, loopVars, queue, workerVars, down>>

\* ... clip-mode waits for runCleanup and publishes the cleaned text or, on any
\* failure of the request, the raw one.
CleanupReturns(u) ==
    /\ Running
    /\ asr[u] = "accepted" /\ ~Typing(u)
    /\ published' = published \union {u}
    /\ Finish(u)
    /\ UNCHANGED <<sessionVars, loopVars, text, closes, queue, workerVars, down>>

-----------------------------------------------------------------------------
(* session.typeWorker.                                                     *)

WorkerIdle == worker' = [at |-> "idle", job |-> 0]

\* Fault: the worker takes the first job that is ready, whatever its place.
TakeReadyJob ==
    /\ Running /\ worker.at = "idle"
    /\ \E i \in DOMAIN queue :
          /\ closes[queue[i]] > 0
          /\ worker' = [at |-> "waiting", job |-> queue[i]]
          /\ queue' = SubSeq(queue, 1, i - 1) \o SubSeq(queue, i + 1, Len(queue))
    /\ UNCHANGED <<inEpoch, sessionVars, loopVars, asrVars, typed, published, down>>

TakeJob ==
    /\ Running
    /\ worker.at = "idle"
    /\ queue # <<>>
    /\ worker' = [at |-> "waiting", job |-> Head(queue)]
    /\ queue' = Tail(queue)
    /\ inEpoch' = IF utt[Head(queue)].epoch # inEpoch.epoch
                  THEN [epoch |-> utt[Head(queue)].epoch, typed |-> FALSE]
                  ELSE inEpoch
    /\ UNCHANGED <<sessionVars, loopVars, asrVars, typed, published, down>>

\* Fault: the worker asks whether the session is open, as well.
CheckJobOpen ==
    /\ Running /\ worker.at = "waiting"
    /\ closes[worker.job] > 0
    /\ IF worker.job \in text /\ epoch = utt[worker.job].epoch /\ mode # "none"
       THEN worker' = [worker EXCEPT !.at = "typing"]
       ELSE WorkerIdle
    /\ UNCHANGED <<sessionVars, loopVars, asrVars, queue, inEpoch, typed, published, down>>

\* Once the job is ready: no text, or a session that is not the live one, drops it.
CheckJob ==
    /\ Running
    /\ worker.at = "waiting"
    /\ closes[worker.job] > 0
    /\ IF worker.job \in text /\ epoch = utt[worker.job].epoch
       THEN worker' = [worker EXCEPT !.at = "typing"]
       ELSE WorkerIdle
    /\ UNCHANGED <<sessionVars, loopVars, asrVars, queue, inEpoch, typed, published, down>>

\* Fault: a text counts as typed before ydotool has had it.
TypeJobCredits ==
    /\ Running /\ worker.at = "typing"
    /\ \/ typed' = Append(typed, [utt |-> worker.job, space |-> inEpoch.typed])
       \/ UNCHANGED typed
    /\ inEpoch' = [inEpoch EXCEPT !.typed = TRUE]
    /\ WorkerIdle
    /\ UNCHANGED <<sessionVars, loopVars, asrVars, queue, published, down>>

\* Type returned: the text is on the screen, or ydotool failed.
TypeJob ==
    /\ Running
    /\ worker.at = "typing"
    /\ \/ /\ typed' = Append(typed, [utt |-> worker.job, space |-> inEpoch.typed])
          /\ inEpoch' = [inEpoch EXCEPT !.typed = TRUE]
       \/ UNCHANGED <<typed, inEpoch>>
    /\ WorkerIdle
    /\ UNCHANGED <<sessionVars, loopVars, asrVars, queue, published, down>>

\* Fault: the worker watches the queue, not daemonCtx.
WorkerExitsWithQueue ==
    /\ Running /\ worker.at = "idle"
    /\ down = "closed" /\ queue = <<>>
    /\ worker' = [at |-> "exited", job |-> 0]
    /\ UNCHANGED <<sessionVars, loopVars, asrVars, queue, inEpoch, typed, published, down>>

\* Both of the worker's waits end with daemonCtx, the first also with the queue.
WorkerExits ==
    /\ Running
    /\ worker.at \in {"idle", "waiting"}
    /\ down # "no"
    /\ worker' = [at |-> "exited", job |-> 0]
    /\ UNCHANGED <<sessionVars, loopVars, asrVars, queue, inEpoch, typed, published, down>>

-----------------------------------------------------------------------------
(* SIGTERM cancels daemonCtx; session.Shutdown then closes the queue.      *)

CancelDaemon ==
    /\ Running
    /\ down = "no"
    /\ down' = "cancelled"
    /\ UNCHANGED <<sessionVars, loopVars, asrVars, queue, workerVars, published>>

CloseQueue ==
    /\ Running
    /\ down = "cancelled"
    /\ down' = "closed"
    /\ UNCHANGED <<sessionVars, loopVars, asrVars, queue, workerVars, published>>

-----------------------------------------------------------------------------

\* What ends by itself: a pause, a call past its deadline, a callback.
Ends(u) ==
    \/ BackoffEnds(u)
    \/ u \in expired /\ (TransportError(u) \/ TranscriptSkipped(u) \/ OnTranscript(u))
    \/ Deliver(u) \/ CleanupReturns(u)

Transcription(u) ==
    \/ Expire(u) \/ TransportError(u) \/ BackoffEnds(u)
    \/ TranscriptSkipped(u) \/ OnTranscript(u)
    \/ Deliver(u) \/ CleanupReturns(u)

Worker == TakeJob \/ CheckJob \/ TypeJob \/ WorkerExits

Next ==
    \/ SessionStep
    \/ OnUtterance \/ Enqueue \/ Admit
    \/ \E u \in Utterances : Transcription(u)
    \/ Worker
    \/ CancelDaemon \/ CloseQueue

Spec == Init /\ [][Next]_vars

(***************************************************************************)
(* Fairness. The audio goroutine and the worker keep running, a deadline   *)
(* passes, a pause ends, a call returns once its deadline has passed, and  *)
(* so do the callbacks (cleanup has a timeout, too). The backend need not  *)
(* answer in time; nobody has to speak, open a session or stop the daemon. *)
(***************************************************************************)
FairSpec ==
    /\ Spec
    /\ WF_vars(Enqueue \/ Admit)
    /\ \A u \in Utterances : WF_vars(Expire(u)) /\ WF_vars(Ends(u))
    /\ WF_vars(Worker)

-----------------------------------------------------------------------------
(* Properties.                                                             *)

TypedUtterances == [i \in DOMAIN typed |-> typed[i].utt]

\* The line of LossyQueue: the job in the worker's hands, then the queue.
Line == IF worker.job = 0 THEN queue ELSE <<worker.job>> \o queue

Lossy == INSTANCE LossyQueue WITH line <- Line, out <- TypedUtterances, Room <- QueueCap + 1

\* Dictation reaches the keyboard in the order it was spoken, however
\* transcriptions overtake each other (session.go:119): the pipeline is a lossy
\* queue, except that shutdown abandons the job in the worker's hands.
KeepsOrder == Lossy!LineSpec

\* Each job's ready channel is closed at most once, by one of the two callbacks
\* (asrmonitor.go:118): a second close would panic.
ReadyClosedOnce == \A u \in Utterances : closes[u] <= 1

\* A text is set off by a space from the one typed before it in its session, and
\* the first of a session has none (session.go:247): whichever of them were
\* skipped or failed, and however late the worker comes to the jobs of a session
\* that another has followed.
SpacedWithinSession ==
    \A i \in DOMAIN typed :
        typed[i].space <=>
            \E j \in DOMAIN typed : j < i /\ utt[typed[j].utt].epoch = utt[typed[i].utt].epoch

\* The semaphore holds exactly one token per transcription that runs, and never
\* more than its capacity (asrmonitor.go:149): a leaked one would silence dictation for good.
TokensAccounted ==
    /\ inflight = Cardinality({u \in Utterances : asr[u] \in Busy})
    /\ inflight <= MaxConcurrent

InLine(u) == \E i \in DOMAIN Line : Line[i] = u

\* A job never blocks the ones behind it for ever: skipped, dropped or typed, it
\* leaves the line (session.go:143).
LineDrains ==
    \A u \in Utterances : InLine(u) ~> (~InLine(u) \/ down # "no" \/ ~Running)

\* A backend that never answers, or fails again and again, holds tokens only
\* until the deadlines (retry.go:52): dictation is never refused for good.
TokensComeBack ==
    (inflight = MaxConcurrent) ~> (inflight < MaxConcurrent \/ ~Running)

\* "Pressing Pause stops me from accepting more audio, but commits what I
\* already said" (session.go:294): a text handed over reaches ydotool unless the
\* session is reopened or the daemon stops first.
SaidIsTyped ==
    \A u \in Utterances :
        (u \in text /\ InLine(u)) ~>
            \/ worker.at = "typing" /\ worker.job = u
            \/ epoch # utt[u].epoch
            \/ down # "no" \/ ~Running

\* Shutdown does not wait for ever for the worker (session.go:694).
WorkerGoesDown == (down # "no") ~> (worker.at = "exited" \/ ~Running)

-----------------------------------------------------------------------------
(* What the code's comments say, and the code does not do.                 *)

\* "In-flight transcripts that arrive after the session that produced them has
\* been closed do NOT type" (session.go:49).
ClosedDoesNotType == [][typed' # typed => mode # "none"]_vars

\* "The worker can drain its queue after a close without typing into a
\* different session's context" (session.go:574).
TypesIntoOwnSession == [][typed' # typed => epoch = utt[worker.job].epoch]_vars

\* onTranscript drops a transcript "if the session has been re-opened or
\* switched" (session.go:763): no panel shows another session's words.
PanelShowsOwnSession ==
    [][\A u \in published' \ published : epoch = utt[u].epoch]_vars

=============================================================================
