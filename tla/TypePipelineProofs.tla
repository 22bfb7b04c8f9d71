------------------------- MODULE TypePipelineProofs -------------------------
(***************************************************************************)
(* The pipeline for every number of utterances, every queue and every cap: *)
(* it keeps its types, closes each ready channel at most once, accounts    *)
(* for every token, types in the order of speech, once and with its spaces *)
(* right, and has someone to settle each job in the line.                  *)
(***************************************************************************)
EXTENDS TypePipeline, FiniteSetTheorems, SequenceTheorems, TLAPS

\* The bounds are numbers.
LEMMA Bounds ==
    /\ MaxUtterances \in Nat /\ QueueCap \in Nat /\ MaxConcurrent \in Nat
    /\ MaxEpoch \in Nat
  BY PipelineAssumption

(***************************************************************************)
(* What ties the parts together: the utterance in the audio loop's hands   *)
(* is not being transcribed yet, no more than one that was never spoken,   *)
(* and the worker has a job exactly while it works on one.                 *)
(***************************************************************************)

LoopInv ==
    /\ loop.at \in {"gated", "queued"} =>
          loop.utt \in Utterances /\ loop.utt <= spoken /\ asr[loop.utt] = "none"
    /\ \A u \in Utterances : u > spoken => asr[u] = "none"

WorkerInv ==
    /\ worker.at \in {"idle", "exited"} => worker.job = 0
    /\ worker.at \in {"waiting", "typing"} => worker.job \in Utterances

\* A ready channel is open for as long as its transcription is not over.
ReadyInv == \A u \in Utterances : closes[u] <= 1 /\ (asr[u] # "done" => closes[u] = 0)

IInv == TypeOK /\ LoopInv /\ WorkerInv /\ ReadyInv /\ TokensAccounted

-----------------------------------------------------------------------------
(* Tokens.                                                                 *)

InFlight == {u \in Utterances : asr[u] \in Busy}

LEMMA FiniteInFlight == IsFiniteSet(InFlight) /\ Cardinality(InFlight) \in Nat
  <1>1. IsFiniteSet(Utterances)
    BY Bounds, FS_Interval DEF Utterances
  <1>2. InFlight \in SUBSET Utterances
    BY DEF InFlight
  <1>3. IsFiniteSet(InFlight)
    BY <1>1, <1>2, FS_Subset
  <1> QED BY <1>3, FS_CardinalityType

\* A transcription starts with a token.
LEMMA TokenTaken ==
    ASSUME TypeOK, TokensAccounted, NEW u \in Utterances, asr[u] \notin Busy,
           NEW a \in Busy, asr' = [asr EXCEPT ![u] = a],
           inflight < MaxConcurrent, inflight' = inflight + 1
    PROVE  TokensAccounted' /\ inflight' \in 0..MaxConcurrent
  <1>1. InFlight' = InFlight \union {u} /\ u \notin InFlight
    BY DEF InFlight, TypeOK
  <1>2. Cardinality(InFlight') = Cardinality(InFlight) + 1
    BY <1>1, FiniteInFlight, FS_AddElement
  <1> QED BY <1>2, Bounds DEF TokensAccounted, InFlight, TypeOK

\* It gives the token back when it ends.
LEMMA TokenReturned ==
    ASSUME TypeOK, TokensAccounted, NEW u \in Utterances, asr[u] \in Busy,
           asr' = [asr EXCEPT ![u] = "done"], inflight' = inflight - 1
    PROVE  TokensAccounted' /\ inflight' \in 0..MaxConcurrent
  <1>1. InFlight' = InFlight \ {u} /\ u \in InFlight
    BY DEF InFlight, TypeOK, Busy
  <1>2. /\ IsFiniteSet(InFlight')
        /\ Cardinality(InFlight') = Cardinality(InFlight) - 1
    BY <1>1, FiniteInFlight, FS_RemoveElement
  <1>3. Cardinality(InFlight') \in Nat
    BY <1>2, FS_CardinalityType
  <1> QED BY <1>2, <1>3, FiniteInFlight, Bounds DEF TokensAccounted, InFlight, TypeOK

\* In between it keeps it, and one that does not run holds none.
LEMMA TokenKept ==
    ASSUME TypeOK, TokensAccounted, NEW u \in Utterances, NEW a,
           asr' = [asr EXCEPT ![u] = a], asr[u] \in Busy <=> a \in Busy,
           inflight' = inflight
    PROVE  TokensAccounted' /\ inflight' \in 0..MaxConcurrent
  <1>1. InFlight' = InFlight
    BY DEF InFlight, TypeOK
  <1> QED BY <1>1 DEF TokensAccounted, InFlight, TypeOK

-----------------------------------------------------------------------------
(* The inductive invariant, one lemma for each goroutine.                  *)

LEMMA InitIInv == Init => IInv
  <1> SUFFICES ASSUME Init PROVE IInv
    OBVIOUS
  <1>1. mode \in Modes \union {"none"} /\ epoch \in Nat
    BY DEF Init, EpochInit
  <1>2. utt \in [Utterances -> [mode : Modes, epoch : Nat]]
    BY DEF Init, Modes
  <1>3. /\ asr \in [Utterances -> {"none", "transcribing", "backoff", "accepted", "done"}]
        /\ closes \in [Utterances -> Nat]
    BY DEF Init
  <1>4. queue \in Seq(Utterances) /\ Len(queue) <= QueueCap
    BY Bounds DEF Init
  <1>5. typed \in Seq([utt : Utterances, space : BOOLEAN])
    BY DEF Init
  <1>6. TypeOK
    BY <1>1, <1>2, <1>3, <1>4, <1>5, Bounds DEF Init, TypeOK
  <1>7. TokensAccounted
    <2>1. InFlight = {}
      BY DEF Init, InFlight, Busy
    <2>2. Cardinality(InFlight) = 0
      BY <2>1, FS_EmptySet
    <2> QED BY <2>2, Bounds DEF Init, TokensAccounted, InFlight
  <1>8. LoopInv /\ WorkerInv /\ ReadyInv
    BY DEF Init, LoopInv, WorkerInv, ReadyInv
  <1> QED BY <1>6, <1>7, <1>8 DEF IInv

\* The session's steps touch nothing of the pipeline (session.go:499-630).
LEMMA SessionKeeps ==
    ASSUME IInv, SessionStep
    PROVE  IInv'
  <1>1. mode' \in Modes \union {"none"} /\ epoch' \in Nat
    BY DEF SessionStep, EpochNext, OpenSession, CloseSession, RollbackSession, IInv, TypeOK
  <1>2. UNCHANGED <<loopVars, asrVars, queue, workerVars, published, down>>
    BY DEF SessionStep
  <1>3. TypeOK'
    BY <1>1, <1>2 DEF IInv, TypeOK, loopVars, asrVars, workerVars
  <1>4. (LoopInv /\ WorkerInv /\ ReadyInv /\ TokensAccounted)'
    BY <1>2 DEF IInv, LoopInv, WorkerInv, ReadyInv, TokensAccounted, loopVars, asrVars, workerVars
  <1> QED BY <1>3, <1>4 DEF IInv

\* The audio goroutine in OnUtterance (session.go:728-761, asrmonitor.go:129).
LEMMA LoopKeeps ==
    ASSUME IInv, OnUtterance \/ Enqueue \/ Admit
    PROVE  IInv'
  <1> USE DEF IInv
  <1>1. CASE OnUtterance
    <2>1. /\ spoken \in Nat /\ spoken' = spoken + 1 /\ spoken' \in Utterances
          /\ spoken' \in 0..MaxUtterances
      BY <1>1, Bounds DEF OnUtterance, TypeOK, Utterances
    <2>2. utt' \in [Utterances -> [mode : Modes, epoch : Nat]]
      BY <1>1 DEF OnUtterance, TypeOK
    <2>3. loop' \in [at : {"idle", "gated", "queued", "panicked"}, utt : 0..MaxUtterances]
      BY <1>1, <2>1 DEF OnUtterance
    <2>4. UNCHANGED <<sessionVars, asrVars, queue, workerVars, published, down>>
      BY <1>1 DEF OnUtterance
    <2>5. TypeOK'
      BY <2>1, <2>2, <2>3, <2>4 DEF TypeOK, sessionVars, asrVars, workerVars
    <2>6. LoopInv'
      BY <1>1, <2>1, <2>4 DEF OnUtterance, LoopInv, asrVars, Utterances
    <2>7. (WorkerInv /\ ReadyInv /\ TokensAccounted)'
      BY <2>4 DEF WorkerInv, ReadyInv, TokensAccounted, asrVars, workerVars
    <2> QED BY <2>5, <2>6, <2>7
  <1>2. CASE Enqueue
    <2>1. loop.at = "gated" /\ loop.utt \in Utterances
      BY <1>2 DEF Enqueue, LoopInv
    <2>2. UNCHANGED <<sessionVars, spoken, utt, asrVars, workerVars, published, down>>
      BY <1>2 DEF Enqueue
    <2>3. queue' \in Seq(Utterances) /\ Len(queue') <= QueueCap
      <3>1. CASE queue' = queue
        BY <3>1 DEF TypeOK
      <3>2. CASE queue' = Append(queue, loop.utt) /\ Len(queue) < QueueCap
        BY <2>1, <3>2, Bounds DEF TypeOK
      <3> QED BY <1>2, <3>1, <3>2 DEF Enqueue
    <2>4. /\ loop' \in [at : {"idle", "gated", "queued", "panicked"}, utt : 0..MaxUtterances]
          /\ loop'.at \in {"gated", "queued"} => loop'.utt = loop.utt
      <3>1. loop \in [at : {"idle", "gated", "queued", "panicked"}, utt : 0..MaxUtterances]
        BY DEF TypeOK
      <3>2. loop' \in {[loop EXCEPT !.at = "queued"], [loop EXCEPT !.at = "panicked"],
                       [at |-> "idle", utt |-> 0]}
        BY <1>2 DEF Enqueue, LoopIdle
      <3> QED BY <3>1, <3>2, Bounds
    <2>5. TypeOK'
      BY <2>2, <2>3, <2>4 DEF TypeOK, sessionVars, asrVars, workerVars
    <2>6. LoopInv'
      BY <2>1, <2>2, <2>4 DEF LoopInv, asrVars
    <2>7. (WorkerInv /\ ReadyInv /\ TokensAccounted)'
      BY <2>2 DEF WorkerInv, ReadyInv, TokensAccounted, asrVars, workerVars
    <2> QED BY <2>5, <2>6, <2>7
  <1>3. CASE Admit
    <2>1. PICK u \in Utterances : u = loop.utt /\ u <= spoken /\ asr[u] = "none" /\ closes[u] = 0
      BY <1>3 DEF Admit, LoopInv, ReadyInv
    <2>2. UNCHANGED <<sessionVars, spoken, utt, text, expired, queue, workerVars, published, down>>
      BY <1>3 DEF Admit
    <2>3. loop' = [at |-> "idle", utt |-> 0]
      BY <1>3 DEF Admit, LoopIdle
    <2>4. PICK a \in {"transcribing", "done"} : asr' = [asr EXCEPT ![u] = a]
      BY <1>3, <2>1 DEF Admit
    <2>5. TokensAccounted' /\ inflight' \in 0..MaxConcurrent
      <3>1. CASE inflight < MaxConcurrent
        <4>1. inflight' = inflight + 1 /\ asr' = [asr EXCEPT ![u] = "transcribing"]
          BY <1>3, <2>1, <3>1 DEF Admit
        <4> QED BY <2>1, <3>1, <4>1, TokenTaken DEF Busy
      <3>2. CASE ~(inflight < MaxConcurrent)
        <4>1. inflight' = inflight /\ asr' = [asr EXCEPT ![u] = "done"]
          BY <1>3, <2>1, <3>2 DEF Admit
        <4> QED BY <2>1, <4>1, TokenKept DEF Busy
      <3> QED BY <3>1, <3>2
    <2>6. closes' \in [Utterances -> Nat] /\ ReadyInv'
      <3>1. CASE inflight < MaxConcurrent
        BY <1>3, <2>1, <3>1 DEF Admit, ReadyInv, TypeOK
      <3>2. CASE ~(inflight < MaxConcurrent)
        <4>1. asr' = [asr EXCEPT ![u] = "done"]
          BY <1>3, <2>1, <3>2 DEF Admit
        <4>2. closes' \in {closes, [closes EXCEPT ![u] = @ + 1]}
          BY <1>3, <2>1, <3>2 DEF Admit, CloseReady
        <4> QED BY <2>1, <4>1, <4>2 DEF ReadyInv, TypeOK
      <3> QED BY <3>1, <3>2
    <2>7. TypeOK'
      <3>1. asr' \in [Utterances -> {"none", "transcribing", "backoff", "accepted", "done"}]
        BY <2>4 DEF TypeOK
      <3>2. loop' \in [at : {"idle", "gated", "queued", "panicked"}, utt : 0..MaxUtterances]
        BY <2>3, Bounds
      <3> QED BY <2>2, <2>5, <2>6, <3>1, <3>2 DEF TypeOK, sessionVars, workerVars
    <2>8. LoopInv'
      BY <2>1, <2>2, <2>3, <2>4, Bounds DEF LoopInv, TypeOK, Utterances
    <2>9. WorkerInv'
      BY <2>2 DEF WorkerInv, workerVars
    <2> QED BY <2>5, <2>6, <2>7, <2>8, <2>9
  <1> QED BY <1>1, <1>2, <1>3

\* A step of a transcription moves one utterance that runs, to another place in
\* its call or to its end, and closes its ready channel at most then.
TranscriptionStep(u) ==
    /\ asr[u] \in Busy
    /\ \/ /\ asr' \in {[asr EXCEPT ![u] = a] : a \in Busy}
          /\ UNCHANGED <<inflight, closes>>
       \/ /\ asr' = [asr EXCEPT ![u] = "done"]
          /\ inflight' = inflight - 1
          /\ closes' \in {closes, [closes EXCEPT ![u] = @ + 1]}
       \/ UNCHANGED <<asr, inflight, closes>>
    /\ expired' \in {expired, expired \union {u}, expired \ {u}}
    /\ text' \in {text, text \union {u}}
    /\ published' \in {published, published \union {u}}
    /\ UNCHANGED <<sessionVars, loopVars, queue, workerVars, down>>

\* Each action of a transcription is such a step (asrmonitor.go:148, retry.go:51,
\* session.go:762-822).
LEMMA TranscriptionSteps ==
    ASSUME NEW u \in Utterances, Transcription(u)
    PROVE  TranscriptionStep(u)
  <1>1. CASE Expire(u)
    BY <1>1 DEF Expire, InCall, TranscriptionStep, Busy
  <1>2. CASE TransportError(u)
    BY <1>2 DEF TransportError, Skip, Finish, CloseReady, TranscriptionStep, Busy
  <1>3. CASE BackoffEnds(u)
    BY <1>3 DEF BackoffEnds, Skip, Finish, CloseReady, TranscriptionStep, Busy
  <1>4. CASE TranscriptSkipped(u)
    BY <1>4 DEF TranscriptSkipped, Skip, Finish, CloseReady, TranscriptionStep, Busy
  <1>5. CASE OnTranscript(u)
    BY <1>5 DEF OnTranscript, Skip, Finish, CloseReady, TranscriptionStep, Busy
  <1>6. CASE Deliver(u)
    BY <1>6 DEF Deliver, Finish, CloseReady, TranscriptionStep, Busy
  <1>7. CASE CleanupReturns(u)
    BY <1>7 DEF CleanupReturns, Finish, TranscriptionStep, Busy
  <1> QED BY <1>1, <1>2, <1>3, <1>4, <1>5, <1>6, <1>7 DEF Transcription

LEMMA TranscriptionKeeps ==
    ASSUME IInv, NEW u \in Utterances, TranscriptionStep(u)
    PROVE  IInv'
  <1> USE DEF IInv
  <1>1. /\ asr[u] \in Busy /\ closes[u] = 0
        /\ UNCHANGED <<sessionVars, loopVars, queue, workerVars, down>>
    BY DEF TranscriptionStep, ReadyInv, Busy
  <1>2. /\ expired' \in SUBSET Utterances /\ text' \in SUBSET Utterances
        /\ published' \in SUBSET Utterances
    BY DEF TranscriptionStep, TypeOK
  <1>3. ASSUME asr' \in [Utterances -> {"none", "transcribing", "backoff", "accepted", "done"}],
               inflight' \in 0..MaxConcurrent, closes' \in [Utterances -> Nat]
        PROVE  TypeOK'
    BY <1>1, <1>2, <1>3 DEF TypeOK, sessionVars, loopVars, workerVars
  <1>4. WorkerInv'
    BY <1>1 DEF WorkerInv, workerVars
  <1>5. CASE asr' \in {[asr EXCEPT ![u] = a] : a \in Busy} /\ UNCHANGED <<inflight, closes>>
    <2>1. PICK a \in Busy : asr' = [asr EXCEPT ![u] = a]
      BY <1>5
    <2>2. TokensAccounted' /\ inflight' \in 0..MaxConcurrent
      BY <1>1, <1>5, <2>1, TokenKept
    <2>3. asr' \in [Utterances -> {"none", "transcribing", "backoff", "accepted", "done"}]
      BY <2>1 DEF TypeOK, Busy
    <2>4. TypeOK'
      BY <1>3, <1>5, <2>2, <2>3 DEF TypeOK
    <2>5. ReadyInv'
      BY <1>1, <1>5, <2>1 DEF ReadyInv, TypeOK
    <2>6. LoopInv'
      BY <1>1, <2>1 DEF LoopInv, TypeOK, loopVars, Busy
    <2> QED BY <1>4, <2>2, <2>4, <2>5, <2>6
  <1>6. CASE /\ asr' = [asr EXCEPT ![u] = "done"] /\ inflight' = inflight - 1
             /\ closes' \in {closes, [closes EXCEPT ![u] = @ + 1]}
    <2>1. TokensAccounted' /\ inflight' \in 0..MaxConcurrent
      BY <1>1, <1>6, TokenReturned
    <2>2. /\ asr' \in [Utterances -> {"none", "transcribing", "backoff", "accepted", "done"}]
          /\ closes' \in [Utterances -> Nat]
      BY <1>6 DEF TypeOK
    <2>3. TypeOK'
      BY <1>3, <2>1, <2>2
    <2>4. ReadyInv'
      BY <1>1, <1>6 DEF ReadyInv, TypeOK
    <2>5. LoopInv'
      BY <1>1, <1>6 DEF LoopInv, TypeOK, loopVars, Busy
    <2> QED BY <1>4, <2>1, <2>3, <2>4, <2>5
  <1>7. CASE UNCHANGED <<asr, inflight, closes>>
    <2>1. TypeOK'
      BY <1>3, <1>7 DEF TypeOK
    <2>2. (LoopInv /\ ReadyInv /\ TokensAccounted)'
      BY <1>1, <1>7 DEF LoopInv, ReadyInv, TokensAccounted, loopVars
    <2> QED BY <1>4, <2>1, <2>2
  <1> QED BY <1>5, <1>6, <1>7 DEF TranscriptionStep

\* The worker (session.go:252-314).
LEMMA WorkerKeeps ==
    ASSUME IInv, Worker
    PROVE  IInv'
  <1> USE DEF IInv
  <1>1. UNCHANGED <<sessionVars, loopVars, asrVars, published, down>>
    BY DEF Worker, TakeJob, CheckJob, TypeJob, WorkerExits
  <1>2. ASSUME worker' \in [at : {"idle", "waiting", "typing", "exited"}, job : 0..MaxUtterances],
               queue' \in Seq(Utterances), Len(queue') <= QueueCap,
               inEpoch' \in [epoch : Nat, typed : BOOLEAN],
               typed' \in Seq([utt : Utterances, space : BOOLEAN]), WorkerInv'
        PROVE  IInv'
    <2>1. TypeOK'
      BY <1>1, <1>2 DEF TypeOK, sessionVars, loopVars, asrVars
    <2>2. (LoopInv /\ ReadyInv /\ TokensAccounted)'
      BY <1>1 DEF LoopInv, ReadyInv, TokensAccounted, loopVars, asrVars
    <2> QED BY <1>2, <2>1, <2>2
  <1>3. Utterances \subseteq 0..MaxUtterances /\ 0 \in 0..MaxUtterances
    BY Bounds DEF Utterances
  <1>4. CASE TakeJob
    <2>1. Head(queue) \in Utterances /\ Tail(queue) \in Seq(Utterances)
          /\ Len(Tail(queue)) <= QueueCap
      BY <1>4, Bounds DEF TakeJob, TypeOK
    <2>2. worker' = [at |-> "waiting", job |-> Head(queue)] /\ queue' = Tail(queue) /\ typed' = typed
      BY <1>4 DEF TakeJob
    <2>3. inEpoch' \in [epoch : Nat, typed : BOOLEAN]
      BY <1>4, <2>1 DEF TakeJob, TypeOK
    <2> QED BY <1>2, <1>3, <2>1, <2>2, <2>3 DEF WorkerInv, TypeOK
  <1>5. CASE CheckJob
    <2>1. worker.at = "waiting" /\ worker.job \in Utterances /\ UNCHANGED <<queue, inEpoch, typed>>
      BY <1>5 DEF CheckJob, WorkerInv
    <2>2. worker' \in {[worker EXCEPT !.at = "typing"], [at |-> "idle", job |-> 0]}
      BY <1>5 DEF CheckJob, WorkerIdle
    <2>3. /\ worker' \in [at : {"idle", "waiting", "typing", "exited"}, job : 0..MaxUtterances]
          /\ WorkerInv'
      <3>1. worker \in [at : {"idle", "waiting", "typing", "exited"}, job : 0..MaxUtterances]
        BY DEF TypeOK
      <3>2. CASE worker' = [worker EXCEPT !.at = "typing"]
        BY <2>1, <3>1, <3>2 DEF WorkerInv
      <3>3. CASE worker' = [at |-> "idle", job |-> 0]
        BY <1>3, <3>3 DEF WorkerInv
      <3> QED BY <2>2, <3>2, <3>3
    <2>4. queue' \in Seq(Utterances) /\ Len(queue') <= QueueCap
      BY <2>1 DEF TypeOK
    <2>5. inEpoch' \in [epoch : Nat, typed : BOOLEAN]
      <3>1. inEpoch \in [epoch : Nat, typed : BOOLEAN]
        BY DEF TypeOK
      <3> QED BY <2>1, <3>1
    <2>6. typed' \in Seq([utt : Utterances, space : BOOLEAN])
      <3>1. typed \in Seq([utt : Utterances, space : BOOLEAN])
        BY DEF TypeOK
      <3> QED BY <2>1, <3>1
    <2> QED BY <1>2, <2>3, <2>4, <2>5, <2>6
  <1>6. CASE TypeJob
    <2>1. worker.job \in Utterances
      BY <1>6 DEF TypeJob, WorkerInv
    <2>2. worker' = [at |-> "idle", job |-> 0] /\ queue' = queue
      BY <1>6 DEF TypeJob, WorkerIdle
    <2>3. /\ inEpoch' \in [epoch : Nat, typed : BOOLEAN]
          /\ typed' \in Seq([utt : Utterances, space : BOOLEAN])
      <3> DEFINE Entries == [utt : Utterances, space : BOOLEAN]
                 entry == [utt |-> worker.job, space |-> inEpoch.typed]
      <3>1. inEpoch.typed \in BOOLEAN
        BY DEF TypeOK
      <3>2. entry \in Entries /\ typed \in Seq(Entries)
        BY <2>1, <3>1 DEF TypeOK
      <3>3. \/ typed' = Append(typed, entry) /\ inEpoch' = [inEpoch EXCEPT !.typed = TRUE]
            \/ typed' = typed /\ inEpoch' = inEpoch
        BY <1>6 DEF TypeJob
      <3>4. typed' \in Seq(Entries)
        <4> HIDE DEF Entries, entry
        <4> QED BY <3>2, <3>3
      <3>5. inEpoch' \in [epoch : Nat, typed : BOOLEAN]
        <4>1. inEpoch \in [epoch : Nat, typed : BOOLEAN]
          BY DEF TypeOK
        <4>2. [inEpoch EXCEPT !.typed = TRUE] \in [epoch : Nat, typed : BOOLEAN]
          BY <4>1
        <4> QED BY <3>3, <4>1, <4>2
      <3> QED BY <3>4, <3>5
    <2> QED BY <1>2, <1>3, <2>2, <2>3 DEF WorkerInv, TypeOK
  <1>7. CASE WorkerExits
    BY <1>2, <1>3, <1>7 DEF WorkerExits, WorkerInv, TypeOK
  <1> QED BY <1>4, <1>5, <1>6, <1>7 DEF Worker

\* The daemon's end (main.go:395, session.go:678).
LEMMA EndKeeps ==
    ASSUME IInv, CancelDaemon \/ CloseQueue \/ UNCHANGED vars
    PROVE  IInv'
  <1>1. UNCHANGED <<sessionVars, loopVars, asrVars, queue, workerVars, published>>
    BY DEF CancelDaemon, CloseQueue, vars, sessionVars, loopVars, asrVars, workerVars
  <1>2. down' \in {"no", "cancelled", "closed"}
    BY DEF CancelDaemon, CloseQueue, vars, IInv, TypeOK
  <1>3. TypeOK'
    BY <1>1, <1>2 DEF IInv, TypeOK, sessionVars, loopVars, asrVars, workerVars
  <1>4. (LoopInv /\ WorkerInv /\ ReadyInv /\ TokensAccounted)'
    BY <1>1 DEF IInv, LoopInv, WorkerInv, ReadyInv, TokensAccounted, loopVars, asrVars, workerVars
  <1> QED BY <1>3, <1>4 DEF IInv

LEMMA NextIInv == IInv /\ [Next]_vars => IInv'
  <1> SUFFICES ASSUME IInv, [Next]_vars PROVE IInv'
    OBVIOUS
  <1>1. ASSUME NEW u \in Utterances, Transcription(u)
        PROVE  IInv'
    BY <1>1, TranscriptionSteps, TranscriptionKeeps
  <1> QED BY <1>1, SessionKeeps, LoopKeeps, WorkerKeeps, EndKeeps DEF Next

LEMMA AlwaysIInv == Spec => []IInv
  BY InitIInv, NextIInv, PTL DEF Spec

\* Every variable keeps its type; typeQueue stays within its capacity, and only
\* utterances that were spoken are typed (session.go:728-822).
THEOREM TypeCorrect == Spec => []TypeOK
  <1>1. IInv => TypeOK
    BY DEF IInv
  <1> QED BY <1>1, AlwaysIInv, PTL

\* No ready channel is ever closed twice, for any number of utterances and
\* transcriptions: the daemon does not panic there (asrmonitor.go:118).
THEOREM ReadyNeverClosedTwice == Spec => []ReadyClosedOnce
  <1>1. IInv => ReadyClosedOnce
    BY DEF IInv, ReadyInv, ReadyClosedOnce
  <1> QED BY <1>1, AlwaysIInv, PTL

\* The semaphore always holds one token per transcription that runs, however the
\* backend fails or stalls (asrmonitor.go:149).
THEOREM TokensAlwaysAccounted == Spec => []TokensAccounted
  <1>1. IInv => TokensAccounted
    BY DEF IInv
  <1> QED BY <1>1, AlwaysIInv, PTL

-----------------------------------------------------------------------------
(* The order of dictation. The line of LossyQueue is the worker's job in   *)
(* front of the queue: taking a job leaves the line as it is, and every    *)
(* step that ends a job takes the head off it.                             *)

LEMMA JobInFront ==
    ASSUME NEW S, NEW j \in S, NEW q \in Seq(S)
    PROVE  /\ <<j>> \o q # <<>>
           /\ Len(<<j>> \o q) = Len(q) + 1
           /\ Head(<<j>> \o q) = j
           /\ Tail(<<j>> \o q) = q
           /\ \A u \in S : <<j>> \o Append(q, u) = Append(<<j>> \o q, u)
  <1>1. <<j>> \in Seq(S) /\ Len(<<j>>) = 1
    OBVIOUS
  <1>2. /\ <<j>> \o q \in Seq(S)
        /\ Len(<<j>> \o q) = Len(q) + 1
        /\ \A i \in 1..Len(q) + 1 :
              (<<j>> \o q)[i] = IF i <= 1 THEN <<j>>[i] ELSE q[i - 1]
    BY <1>1, ConcatProperties
  <1>3. <<j>> \o q # <<>> /\ Head(<<j>> \o q) = j
    BY <1>2
  <1>4. Tail(<<j>> \o q) = q
    <2> DEFINE s == <<j>> \o q
    <2>1. /\ s \in Seq(S) /\ s # <<>> /\ Len(s) = Len(q) + 1
          /\ \A i \in 1..Len(q) : s[i + 1] = q[i]
      BY <1>2, <1>3
    <2> HIDE DEF s
    <2>2. /\ Tail(s) \in Seq(S) /\ Len(Tail(s)) = Len(q)
          /\ \A i \in 1..Len(q) : Tail(s)[i] = q[i]
      BY <2>1, HeadTailProperties
    <2>3. Tail(s) = q
      BY <2>2, SeqEqual
    <2> QED BY <2>3 DEF s
  <1>5. ASSUME NEW u \in S
        PROVE  <<j>> \o Append(q, u) = Append(<<j>> \o q, u)
    <2>1. <<u>> \in Seq(S)
      OBVIOUS
    <2>2. (<<j>> \o q) \o <<u>> = <<j>> \o (q \o <<u>>)
      BY <1>1, <2>1, ConcatAssociative
    <2>3. q \o <<u>> = Append(q, u) /\ (<<j>> \o q) \o <<u>> = Append(<<j>> \o q, u)
      BY <1>2, AppendIsConcat
    <2> QED BY <2>2, <2>3
  <1> QED BY <1>2, <1>3, <1>4, <1>5

LEMMA QueueRejoined ==
    ASSUME NEW S, NEW q \in Seq(S), q # <<>>
    PROVE  <<Head(q)>> \o Tail(q) = q
  <1>1. /\ Head(q) \in S /\ Tail(q) \in Seq(S)
        /\ Len(Tail(q)) = Len(q) - 1
        /\ \A i \in 1..Len(Tail(q)) : Tail(q)[i] = q[i + 1]
    BY HeadTailProperties
  <1> DEFINE s == <<Head(q)>> \o Tail(q)
  <1>2. /\ <<Head(q)>> \in Seq(S) /\ Len(<<Head(q)>>) = 1
        /\ Len(q) \in Nat /\ Len(q) >= 1 /\ Head(q) = q[1]
    BY <1>1
  <1>3. /\ s \in Seq(S) /\ Len(s) = Len(q)
        /\ \A i \in 1..Len(q) : s[i] = IF i <= 1 THEN <<Head(q)>>[i] ELSE Tail(q)[i - 1]
    BY <1>1, <1>2, ConcatProperties
  <1> HIDE DEF s
  <1>4. ASSUME NEW i \in 1..Len(q)
        PROVE  s[i] = q[i]
    <2>1. CASE i = 1
      BY <1>2, <1>3, <2>1
    <2>2. CASE i # 1
      <3>1. i - 1 \in 1..Len(Tail(q)) /\ ~(i <= 1) /\ (i - 1) + 1 = i
        BY <1>1, <1>2, <2>2
      <3> QED BY <1>1, <1>3, <3>1
    <2> QED BY <2>1, <2>2
  <1>5. s = q
    BY <1>3, <1>4, SeqEqual
  <1> QED BY <1>5 DEF s

\* A step that is none of the worker's and leaves the queue alone.
LineKept == UNCHANGED <<Line, TypedUtterances>>

LEMMA NotTheLine ==
    ASSUME UNCHANGED <<queue, worker, typed>>
    PROVE  LineKept
  BY DEF LineKept, Line, TypedUtterances

\* OnUtterance's send (session.go:751).
LEMMA EnqueueAccepts ==
    ASSUME IInv, Enqueue
    PROVE  LineKept \/ \E u \in Utterances : Lossy!Accept(u)
  <1>1. /\ loop.utt \in Utterances /\ queue \in Seq(Utterances)
        /\ UNCHANGED <<worker, typed>>
        /\ worker.job # 0 => worker.job \in Utterances
    BY Bounds DEF Enqueue, IInv, LoopInv, TypeOK, workerVars, Utterances
  <1>2. TypedUtterances' = TypedUtterances
    BY <1>1 DEF TypedUtterances
  <1>3. CASE queue' = queue
    BY <1>1, <1>3, NotTheLine
  <1>4. CASE queue' = Append(queue, loop.utt) /\ Len(queue) < QueueCap
    <2>1. Len(queue) \in Nat /\ Len(queue) < QueueCap + 1 /\ Len(queue) + 1 < QueueCap + 1
      BY <1>1, <1>4, Bounds
    <2>2. CASE worker.job = 0
      <3>1. Line = queue /\ Line' = Append(queue, loop.utt)
        BY <1>1, <1>4, <2>2 DEF Line
      <3> QED BY <1>1, <1>2, <2>1, <3>1 DEF Lossy!Accept
    <2>3. CASE worker.job # 0
      <3>1. Line = <<worker.job>> \o queue /\ Line' = <<worker.job>> \o Append(queue, loop.utt)
        BY <1>1, <1>4, <2>3 DEF Line
      <3>2. /\ Len(<<worker.job>> \o queue) = Len(queue) + 1
            /\ <<worker.job>> \o Append(queue, loop.utt) = Append(<<worker.job>> \o queue, loop.utt)
        BY <1>1, <2>3, JobInFront
      <3>3. Len(Line) < QueueCap + 1 /\ Line' = Append(Line, loop.utt)
        BY <2>1, <3>1, <3>2
      <3> QED BY <1>1, <1>2, <3>3 DEF Lossy!Accept
    <2> QED BY <2>2, <2>3
  <1> QED BY <1>3, <1>4 DEF Enqueue

\* typeWorker (session.go:252).
LEMMA WorkerTakesHead ==
    ASSUME IInv, Worker
    PROVE  LineKept \/ Lossy!TypeHead \/ Lossy!DropHead
  <1>1. queue \in Seq(Utterances) /\ 0 \notin Utterances
    BY Bounds DEF IInv, TypeOK, Utterances
  <1>2. CASE TakeJob
    <2>1. /\ worker.job = 0 /\ queue # <<>> /\ worker'.job = Head(queue)
          /\ queue' = Tail(queue) /\ typed' = typed
      BY <1>2 DEF TakeJob, IInv, WorkerInv
    <2>2. Head(queue) \in Utterances
      BY <1>1, <2>1
    <2>3. Line = queue /\ Line' = <<Head(queue)>> \o Tail(queue)
      BY <1>1, <2>1, <2>2 DEF Line
    <2>4. Line' = Line
      BY <1>1, <2>1, <2>3, QueueRejoined
    <2>5. TypedUtterances' = TypedUtterances
      BY <2>1 DEF TypedUtterances
    <2> QED BY <2>4, <2>5 DEF LineKept
  <1>3. ASSUME worker.job \in Utterances, worker'.job = 0, queue' = queue
        PROVE  Line # <<>> /\ Head(Line) = worker.job /\ Line' = Tail(Line)
    <2>1. Line = <<worker.job>> \o queue /\ Line' = queue
      BY <1>1, <1>3 DEF Line
    <2> QED BY <1>1, <1>3, <2>1, JobInFront
  <1>4. ASSUME worker.job \in Utterances, worker'.job = 0, queue' = queue, typed' = typed
        PROVE  Lossy!DropHead
    BY <1>3, <1>4 DEF Lossy!DropHead, TypedUtterances
  <1>5. CASE CheckJob
    <2>1. worker.job \in Utterances /\ queue' = queue /\ typed' = typed
      BY <1>5 DEF CheckJob, IInv, WorkerInv
    <2>2. CASE worker' = [worker EXCEPT !.at = "typing"]
      <3>1. worker'.job = worker.job
        BY <2>2 DEF IInv, TypeOK
      <3> QED BY <2>1, <3>1 DEF LineKept, Line, TypedUtterances
    <2>3. CASE worker' = [at |-> "idle", job |-> 0]
      BY <1>4, <2>1, <2>3
    <2> QED BY <1>5, <2>2, <2>3 DEF CheckJob, WorkerIdle
  <1>6. CASE TypeJob
    <2>1. worker.job \in Utterances /\ queue' = queue /\ worker'.job = 0
      BY <1>6 DEF TypeJob, IInv, WorkerInv, WorkerIdle
    <2>2. CASE typed' = typed
      BY <1>4, <2>1, <2>2
    <2>3. CASE typed' = Append(typed, [utt |-> worker.job, space |-> inEpoch.typed])
      <3>1. TypedUtterances' = Append(TypedUtterances, worker.job)
        <4> DEFINE Entries == [utt : Utterances, space : BOOLEAN]
                   entry == [utt |-> worker.job, space |-> inEpoch.typed]
        <4>1. typed \in Seq(Entries) /\ entry.utt = worker.job
          BY DEF IInv, TypeOK
        <4> HIDE DEF Entries, entry
        <4>2. typed' = Append(typed, entry)
          BY <2>3 DEF entry
        <4> QED BY <4>1, <4>2 DEF TypedUtterances
      <3> QED BY <1>3, <2>1, <3>1 DEF Lossy!TypeHead
    <2> QED BY <1>6, <2>2, <2>3 DEF TypeJob
  <1>7. CASE WorkerExits
    <2>1. queue' = queue /\ typed' = typed /\ worker'.job = 0
      BY <1>7 DEF WorkerExits
    <2>2. CASE worker.at = "waiting"
      BY <1>4, <2>1, <2>2 DEF IInv, WorkerInv
    <2>3. CASE worker.at = "idle"
      BY <2>1, <2>3 DEF IInv, WorkerInv, LineKept, Line, TypedUtterances
    <2> QED BY <1>7, <2>2, <2>3 DEF WorkerExits
  <1> QED BY <1>2, <1>5, <1>6, <1>7 DEF Worker

\* Whatever transcriptions, sessions and shutdown do, the pipeline is a lossy
\* queue: what OnUtterance queued is typed in that order or dropped (session.go:119).
THEOREM TypesInOrder == Spec => KeepsOrder
  <1>1. Init => Lossy!LineInit
    BY DEF Init, Lossy!LineInit, Line, TypedUtterances
  <1>2. IInv /\ [Next]_vars => [Lossy!LineNext]_<<Line, TypedUtterances>>
    <2> SUFFICES ASSUME IInv, [Next]_vars
                 PROVE  Lossy!LineNext \/ LineKept
      BY DEF LineKept
    <2>1. CASE Enqueue
      BY <2>1, EnqueueAccepts DEF Lossy!LineNext
    <2>2. CASE Worker
      BY <2>2, WorkerTakesHead DEF Lossy!LineNext
    <2>3. ASSUME UNCHANGED <<queue, worker, typed>>
          PROVE  LineKept
      BY <2>3, NotTheLine
    <2>4. CASE SessionStep \/ OnUtterance \/ Admit \/ CancelDaemon \/ CloseQueue \/ UNCHANGED vars
      BY <2>3, <2>4 DEF SessionStep, OnUtterance, Admit, CancelDaemon, CloseQueue, vars, workerVars
    <2>5. ASSUME NEW u \in Utterances, Transcription(u)
          PROVE  LineKept
      BY <2>3, <2>5, TranscriptionSteps DEF TranscriptionStep, workerVars
    <2> QED BY <2>1, <2>2, <2>4, <2>5 DEF Next
  <1>3. Spec => Lossy!LineSpec
    BY <1>1, <1>2, AlwaysIInv, PTL DEF Spec, Lossy!LineSpec
  <1> QED BY <1>3 DEF KeepsOrder

-----------------------------------------------------------------------------
(* What the refinement leaves open: LossyQueue would accept an utterance   *)
(* twice. Three parties hold utterances, and each holds later ones than    *)
(* the party in front of it: what was typed, the worker, the queue, and at *)
(* last the audio loop.                                                    *)

Out     == {typed[i].utt : i \in DOMAIN typed}
Held    == {worker.job} \ {0}
Waiting == {queue[i] : i \in DOMAIN queue}

\* What is typed was spoken, in the order of speech and once.
TypedInSpeechOrder ==
    \A i, j \in DOMAIN typed : i < j => typed[i].utt < typed[j].utt

\* A job in the line is ready, or will be: its transcription runs, or the audio
\* loop is about to start it.
NoJobForgotten ==
    \A u \in Held \union Waiting :
        closes[u] = 1 \/ asr[u] \in Busy \/ loop = [at |-> "queued", utt |-> u]

QueueInOrder == \A i, j \in DOMAIN queue : i < j => queue[i] < queue[j]

OrderInv ==
    /\ TypedInSpeechOrder
    /\ QueueInOrder
    /\ \A u \in Out, v \in Held \union Waiting : u < v
    /\ \A u \in Held, v \in Waiting : u < v
    /\ \A u \in Out \union Held \union Waiting :
          u <= spoken /\ (loop.at = "gated" => u < loop.utt)

\* Epochs only grow, so later utterances are of the same or later sessions.
EpochsInv ==
    /\ \A u, v \in 1..spoken : u <= v => utt[u].epoch <= utt[v].epoch
    /\ \A u \in 1..spoken : utt[u].epoch <= epoch

\* The worker's epoch is that of its job, or of its last one, and its flag says
\* what it has typed in it.
SpaceInv ==
    /\ SpacedWithinSession
    /\ inEpoch.typed <=> \E u \in Out : utt[u].epoch = inEpoch.epoch
    /\ \A u \in Out : utt[u].epoch <= inEpoch.epoch
    /\ inEpoch.epoch <= epoch
    /\ \A u \in Held : utt[u].epoch = inEpoch.epoch
    /\ \A u \in Waiting : inEpoch.epoch <= utt[u].epoch
    /\ loop.at = "gated" => inEpoch.epoch <= utt[loop.utt].epoch

HistoryInv == OrderInv /\ EpochsInv /\ SpaceInv

\* Facts about who holds what.
LEMMA Holders ==
    ASSUME IInv
    PROVE  /\ Utterances \subseteq Nat /\ 0 \notin Utterances
           /\ Out \subseteq Utterances /\ Held \subseteq Utterances /\ Waiting \subseteq Utterances
           /\ \A u \in Utterances : utt[u].epoch \in Nat
           /\ 1..spoken \subseteq Utterances
           /\ epoch \in Nat /\ inEpoch.epoch \in Nat /\ inEpoch.typed \in BOOLEAN
           /\ spoken \in Nat
  <1>1. Utterances \subseteq Nat /\ 0 \notin Utterances
    BY Bounds DEF Utterances
  <1>2. Out \subseteq Utterances
    <2> DEFINE Entries == [utt : Utterances, space : BOOLEAN]
    <2>1. typed \in Seq(Entries)
      BY DEF IInv, TypeOK
    <2>2. \A i \in DOMAIN typed : typed[i] \in Entries
      <3> HIDE DEF Entries
      <3> QED BY <2>1
    <2>3. \A i \in DOMAIN typed : typed[i].utt \in Utterances
      BY <2>2
    <2> QED BY <2>3 DEF Out
  <1>3. Held \subseteq Utterances
    BY DEF Held, IInv, WorkerInv, TypeOK
  <1>4. Waiting \subseteq Utterances
    BY DEF Waiting, IInv, TypeOK
  <1>5. /\ \A u \in Utterances : utt[u].epoch \in Nat
        /\ epoch \in Nat /\ inEpoch.epoch \in Nat /\ inEpoch.typed \in BOOLEAN
    BY DEF IInv, TypeOK
  <1>6. spoken \in Nat /\ 1..spoken \subseteq Utterances
    BY Bounds DEF IInv, TypeOK, Utterances
  <1> QED BY <1>1, <1>2, <1>3, <1>4, <1>5, <1>6

LEMMA InitHistory == Init => HistoryInv
  <1> SUFFICES ASSUME Init PROVE HistoryInv
    OBVIOUS
  <1>1. Out = {} /\ Held = {} /\ Waiting = {}
    BY DEF Init, Out, Held, Waiting
  <1>2. OrderInv
    BY <1>1 DEF Init, OrderInv, TypedInSpeechOrder, QueueInOrder
  <1>3. EpochsInv
    BY DEF Init, EpochsInv
  <1>4. SpaceInv
    BY <1>1 DEF Init, EpochInit, SpaceInv, SpacedWithinSession
  <1> QED BY <1>2, <1>3, <1>4 DEF HistoryInv

\* A step that hands nothing on: the worker may let its job go, the audio loop
\* its utterance, and the session may move on.
LEMMA HistoryKept ==
    ASSUME IInv, HistoryInv, UNCHANGED <<queue, typed, inEpoch, spoken, utt>>,
           worker'.job \in {worker.job, 0}, loop'.at = "gated" => loop' = loop,
           epoch' \in Nat, epoch <= epoch'
    PROVE  HistoryInv'
  <1> USE DEF HistoryInv
  <1>1. Out' = Out /\ Held' \subseteq Held /\ Waiting' = Waiting
    BY DEF Out, Held, Waiting
  <1>2. OrderInv'
    BY <1>1 DEF OrderInv, TypedInSpeechOrder, QueueInOrder
  <1>3. EpochsInv'
    BY Holders DEF EpochsInv
  <1>4. SpaceInv'
    <2>1. SpacedWithinSession'
      BY DEF SpaceInv, SpacedWithinSession
    <2>2. inEpoch.epoch <= epoch'
      BY Holders DEF SpaceInv
    <2> QED BY <1>1, <2>1, <2>2 DEF SpaceInv
  <1> QED BY <1>2, <1>3, <1>4

\* The audio loop gets an utterance later than all (session.go:728).
LEMMA OnUtteranceHistory ==
    ASSUME IInv, HistoryInv, OnUtterance
    PROVE  HistoryInv'
  <1> USE DEF HistoryInv
  <1>1. /\ spoken' = spoken + 1 /\ spoken' \in Utterances
        /\ loop' = [at |-> "gated", utt |-> spoken']
        /\ UNCHANGED <<epoch, queue, typed, inEpoch, worker>>
    BY Bounds DEF OnUtterance, IInv, TypeOK, Utterances, sessionVars, workerVars
  <1>2. /\ utt' = [utt EXCEPT ![spoken'] = [mode |-> mode, epoch |-> epoch]]
        /\ utt'[spoken'].epoch = epoch
        /\ \A u \in Utterances : u <= spoken => utt'[u] = utt[u]
    BY <1>1, Holders DEF OnUtterance, IInv, TypeOK
  <1>3. Out' = Out /\ Held' = Held /\ Waiting' = Waiting
    BY <1>1 DEF Out, Held, Waiting
  <1>4. \A u \in Out \union Held \union Waiting :
           u \in Utterances /\ u <= spoken /\ u < spoken' /\ utt'[u] = utt[u]
    <2> SUFFICES ASSUME NEW u \in Out \union Held \union Waiting
                 PROVE  u \in Utterances /\ u <= spoken /\ u < spoken' /\ utt'[u] = utt[u]
      OBVIOUS
    <2>1. u \in Utterances /\ u <= spoken
      BY Holders DEF OrderInv
    <2>2. u \in Nat /\ spoken \in Nat
      BY <2>1, Holders
    <2>3. u < spoken'
      BY <1>1, <2>1, <2>2
    <2> QED BY <1>2, <2>1, <2>3
  <1>5. OrderInv'
    <2>1. \A u \in Out \union Held \union Waiting : u <= spoken' /\ u < spoken'
      <3>1. \A u \in Utterances : u < spoken' => u <= spoken'
        BY <1>1, Holders
      <3> QED BY <1>4, <3>1
    <2> QED BY <1>1, <1>3, <2>1 DEF OrderInv, TypedInSpeechOrder, QueueInOrder
  <1>6. EpochsInv'
    <2>1. \A u \in 1..spoken' : u = spoken' \/ (u \in 1..spoken /\ utt'[u] = utt[u])
      BY <1>1, <1>2, Holders
    <2>2. \A u \in 1..spoken' : utt'[u].epoch <= epoch
      BY <1>2, <2>1, Holders DEF EpochsInv
    <2>3. ASSUME NEW u \in 1..spoken', NEW v \in 1..spoken', u <= v
          PROVE  utt'[u].epoch <= utt'[v].epoch
      <3>1. CASE v = spoken'
        BY <1>2, <2>2, <3>1
      <3>2. CASE v # spoken'
        <4>1. u \in 1..spoken /\ v \in 1..spoken
          BY <1>1, <2>3, <3>2, Holders
        <4> QED BY <1>2, <2>3, <4>1, Holders DEF EpochsInv
      <3> QED BY <3>1, <3>2
    <2> QED BY <1>1, <2>2, <2>3 DEF EpochsInv
  <1>7. SpaceInv'
    <2>1. SpacedWithinSession'
      <3>1. \A i \in DOMAIN typed : utt'[typed[i].utt] = utt[typed[i].utt]
        BY <1>4 DEF Out
      <3> QED BY <1>1, <3>1 DEF SpaceInv, SpacedWithinSession
    <2>2. inEpoch'.typed <=> \E u \in Out' : utt'[u].epoch = inEpoch'.epoch
      BY <1>1, <1>3, <1>4 DEF SpaceInv
    <2> QED BY <1>1, <1>2, <1>3, <1>4, <2>1, <2>2 DEF SpaceInv
  <1> QED BY <1>5, <1>6, <1>7

\* OnUtterance's send puts it behind all others (session.go:751).
LEMMA EnqueueHistory ==
    ASSUME IInv, HistoryInv, Enqueue
    PROVE  HistoryInv'
  <1> USE DEF HistoryInv
  <1>1. /\ loop.at = "gated" /\ loop.utt \in Utterances /\ loop.utt <= spoken
        /\ loop'.at # "gated"
        /\ queue \in Seq(Utterances)
        /\ UNCHANGED <<typed, inEpoch, spoken, utt, worker, epoch>>
    BY DEF Enqueue, IInv, LoopInv, TypeOK, LoopIdle, sessionVars, workerVars
  <1>2. CASE queue' = queue
    BY <1>1, <1>2, Holders, HistoryKept
  <1>3. CASE queue' = Append(queue, loop.utt)
    <2>1. /\ Len(queue') = Len(queue) + 1 /\ Len(queue) \in Nat
          /\ DOMAIN queue = 1..Len(queue) /\ DOMAIN queue' = 1..Len(queue')
          /\ \A i \in DOMAIN queue : queue'[i] = queue[i]
          /\ queue'[Len(queue')] = loop.utt
      BY <1>1, <1>3
    <2>2. \A i \in DOMAIN queue' : i \in DOMAIN queue \/ i = Len(queue')
      BY <2>1
    <2>3. Waiting' = Waiting \union {loop.utt}
      BY <2>1, <2>2 DEF Waiting
    <2>4. Out' = Out /\ Held' = Held
      BY <1>1 DEF Out, Held
    <2>5. QueueInOrder'
      <3> SUFFICES ASSUME NEW i \in DOMAIN queue', NEW j \in DOMAIN queue', i < j
                   PROVE  queue'[i] < queue'[j]
        BY DEF QueueInOrder
      <3>1. i \in DOMAIN queue /\ queue'[i] \in Waiting
        BY <2>1 DEF Waiting
      <3>2. CASE j \in DOMAIN queue
        BY <2>1, <3>1, <3>2 DEF OrderInv, QueueInOrder
      <3>3. CASE j = Len(queue')
        BY <1>1, <2>1, <3>1, <3>3 DEF OrderInv
      <3> QED BY <2>2, <3>2, <3>3
    <2>6. OrderInv'
      BY <1>1, <2>3, <2>4, <2>5 DEF OrderInv, TypedInSpeechOrder
    <2>7. EpochsInv'
      BY <1>1 DEF EpochsInv
    <2>8. SpaceInv'
      <3>1. SpacedWithinSession'
        BY <1>1 DEF SpaceInv, SpacedWithinSession
      <3>2. \A u \in Waiting' : inEpoch.epoch <= utt[u].epoch
        BY <1>1, <2>3 DEF SpaceInv
      <3> QED BY <1>1, <2>4, <3>1, <3>2 DEF SpaceInv
    <2> QED BY <2>6, <2>7, <2>8
  <1> QED BY <1>2, <1>3 DEF Enqueue

\* The worker takes the earliest of those that wait, and its epoch with it
\* (session.go:267).
LEMMA TakeJobHistory ==
    ASSUME IInv, HistoryInv, TakeJob
    PROVE  HistoryInv'
  <1> USE DEF HistoryInv
  <1> DEFINE job == Head(queue)
  <1>1. /\ queue \in Seq(Utterances) /\ queue # <<>>
        /\ worker'.job = job /\ queue' = Tail(queue)
        /\ inEpoch' = IF utt[job].epoch # inEpoch.epoch
                      THEN [epoch |-> utt[job].epoch, typed |-> FALSE]
                      ELSE inEpoch
        /\ UNCHANGED <<typed, spoken, utt, epoch, loop>>
    BY DEF TakeJob, IInv, TypeOK, sessionVars, loopVars
  <1>2. /\ Len(queue) \in Nat \ {0} /\ Len(queue') = Len(queue) - 1
        /\ DOMAIN queue = 1..Len(queue) /\ DOMAIN queue' = 1..Len(queue')
        /\ job = queue[1]
        /\ \A i \in DOMAIN queue' : i + 1 \in DOMAIN queue /\ queue'[i] = queue[i + 1]
    BY <1>1
  <1>3. job \in Waiting /\ Waiting' \subseteq Waiting /\ Held' = {job} /\ Out' = Out
    <2>1. job \in Waiting /\ Waiting' \subseteq Waiting
      BY <1>2 DEF Waiting
    <2>2. Out' = Out
      BY <1>1 DEF Out
    <2> QED BY <1>1, <2>1, <2>2, Holders DEF Held
  <1>4. \A v \in Waiting' : job < v
    BY <1>2 DEF Waiting, OrderInv, QueueInOrder
  <1>5. QueueInOrder'
    <2> SUFFICES ASSUME NEW i \in DOMAIN queue', NEW j \in DOMAIN queue', i < j
                 PROVE  queue'[i] < queue'[j]
      BY DEF QueueInOrder
    <2>1. i + 1 < j + 1
      BY <1>2
    <2> QED BY <1>2, <2>1 DEF OrderInv, QueueInOrder
  <1>6. OrderInv'
    BY <1>1, <1>3, <1>4, <1>5 DEF OrderInv, TypedInSpeechOrder
  <1>7. EpochsInv'
    BY <1>1 DEF EpochsInv
  <1>8. /\ inEpoch'.epoch = utt[job].epoch /\ inEpoch.epoch <= utt[job].epoch
        /\ inEpoch.epoch \in Nat /\ utt[job].epoch \in Nat
    BY <1>1, <1>3, Holders DEF SpaceInv
  <1>9. inEpoch'.typed <=> \E u \in Out' : utt'[u].epoch = inEpoch'.epoch
    <2>1. CASE utt[job].epoch = inEpoch.epoch
      BY <1>1, <1>3, <2>1 DEF SpaceInv
    <2>2. CASE utt[job].epoch # inEpoch.epoch
      <3>1. ~inEpoch'.typed
        BY <1>1, <2>2
      <3>2. \A u \in Out : utt[u].epoch # utt[job].epoch
        BY <1>8, <2>2, Holders DEF SpaceInv
      <3> QED BY <1>1, <1>3, <1>8, <3>1, <3>2
    <2> QED BY <2>1, <2>2
  <1>10. job \in 1..spoken /\ \A v \in Waiting' : v \in 1..spoken
    BY <1>3, Bounds, Holders DEF OrderInv, Utterances
  <1>11. utt[job].epoch <= epoch /\ \A v \in Waiting' : utt[job].epoch <= utt[v].epoch
    <2>1. \A v \in Waiting' : job <= v
      BY <1>4, <1>10
    <2> QED BY <1>10, <2>1 DEF EpochsInv
  <1>12. loop.at = "gated" => utt[job].epoch <= utt[loop.utt].epoch
    <2> SUFFICES ASSUME loop.at = "gated"
                 PROVE  utt[job].epoch <= utt[loop.utt].epoch
      OBVIOUS
    <2>1. loop.utt \in 1..spoken /\ job <= loop.utt
      <3>1. loop.utt \in Utterances /\ loop.utt <= spoken /\ job < loop.utt
        BY <1>3 DEF IInv, LoopInv, OrderInv
      <3> QED BY <1>10, <3>1, Bounds, Holders DEF Utterances
    <2> QED BY <1>10, <2>1 DEF EpochsInv
  <1>13. \A u \in Out' : utt'[u].epoch <= inEpoch'.epoch
    <2>1. inEpoch'.epoch = utt[job].epoch
      BY <1>1
    <2>2. \A u \in Out : utt[u].epoch <= inEpoch.epoch /\ inEpoch.epoch <= utt[job].epoch
      BY <1>3 DEF SpaceInv
    <2>3. /\ \A u \in Out : utt[u].epoch \in Nat
          /\ utt[job].epoch \in Nat /\ inEpoch.epoch \in Nat
      BY <1>1, <1>3, Holders
    <2> QED BY <1>1, <1>3, <2>1, <2>2, <2>3
  <1>14. SpacedWithinSession'
    BY <1>1 DEF SpaceInv, SpacedWithinSession
  <1>15. SpaceInv'
    BY <1>1, <1>3, <1>8, <1>9, <1>11, <1>12, <1>13, <1>14 DEF SpaceInv
  <1> QED BY <1>6, <1>7, <1>15

\* What it types is later than all it typed before (session.go:303).
LEMMA TypeJobHistory ==
    ASSUME IInv, HistoryInv, TypeJob
    PROVE  HistoryInv'
  <1> USE DEF HistoryInv
  <1> DEFINE job == worker.job
             n == Len(typed) + 1
  <1>1. /\ job \in Utterances /\ worker'.job = 0
        /\ UNCHANGED <<queue, spoken, utt, epoch, loop>>
    BY DEF TypeJob, IInv, WorkerInv, WorkerIdle, sessionVars, loopVars
  <1>2. CASE UNCHANGED <<typed, inEpoch>>
    BY <1>1, <1>2, Holders, HistoryKept
  <1>3. CASE /\ typed' = Append(typed, [utt |-> job, space |-> inEpoch.typed])
             /\ inEpoch' = [inEpoch EXCEPT !.typed = TRUE]
    <2>1. /\ Len(typed) \in Nat /\ DOMAIN typed = 1..Len(typed) /\ DOMAIN typed' = 1..n
          /\ \A i \in DOMAIN typed : typed'[i] = typed[i]
          /\ typed'[n] = [utt |-> job, space |-> inEpoch.typed]
      <3> DEFINE Entries == [utt : Utterances, space : BOOLEAN]
                 entry == [utt |-> job, space |-> inEpoch.typed]
      <3>1. typed \in Seq(Entries)
        BY DEF IInv, TypeOK
      <3> HIDE DEF Entries, entry
      <3>2. typed' = Append(typed, entry)
        BY <1>3 DEF entry
      <3>3. /\ Len(typed) \in Nat /\ DOMAIN typed = 1..Len(typed) /\ DOMAIN typed' = 1..n
            /\ \A i \in DOMAIN typed : typed'[i] = typed[i]
            /\ typed'[n] = entry
        BY <3>1, <3>2
      <3> QED BY <3>3 DEF entry
    <2>2. \A i \in DOMAIN typed' : i \in DOMAIN typed \/ i = n
      BY <2>1
    <2>3. /\ Out' = Out \union {job} /\ Waiting' = Waiting
          /\ Held' = {} /\ Held = {job}
      BY <1>1, <2>1, <2>2, Holders DEF Out, Waiting, Held
    <2>4. inEpoch'.typed /\ inEpoch'.epoch = inEpoch.epoch /\ utt[job].epoch = inEpoch.epoch
      BY <1>3, <2>3 DEF SpaceInv, IInv, TypeOK
    <2>5. TypedInSpeechOrder'
      <3> SUFFICES ASSUME NEW i \in DOMAIN typed', NEW j \in DOMAIN typed', i < j
                   PROVE  typed'[i].utt < typed'[j].utt
        BY DEF TypedInSpeechOrder
      <3>1. i \in DOMAIN typed /\ typed[i].utt \in Out
        BY <2>1 DEF Out
      <3>2. CASE j \in DOMAIN typed
        BY <2>1, <3>1, <3>2 DEF OrderInv, TypedInSpeechOrder
      <3>3. CASE j = n
        BY <2>1, <2>3, <3>1, <3>3 DEF OrderInv
      <3> QED BY <2>2, <3>2, <3>3
    <2>6. OrderInv'
      BY <1>1, <2>3, <2>5 DEF OrderInv, QueueInOrder
    <2>7. EpochsInv'
      BY <1>1 DEF EpochsInv
    <2>8. SpacedWithinSession'
      <3> SUFFICES ASSUME NEW i \in DOMAIN typed'
                   PROVE  typed'[i].space <=>
                             \E j \in DOMAIN typed' :
                                j < i /\ utt[typed'[j].utt].epoch = utt[typed'[i].utt].epoch
        BY <1>1 DEF SpacedWithinSession
      <3>1. CASE i \in DOMAIN typed
        <4>1. \A j \in DOMAIN typed' : j < i => j \in DOMAIN typed
          BY <2>1, <3>1
        <4> QED BY <2>1, <2>2, <3>1, <4>1 DEF SpaceInv, SpacedWithinSession
      <3>2. CASE i = n
        <4>1. \A j \in DOMAIN typed' : j < i <=> j \in DOMAIN typed
          BY <2>1, <3>2
        <4>2. typed'[i].space = inEpoch.typed /\ typed'[i].utt = job
          BY <2>1, <3>2
        <4>3. inEpoch.typed <=> \E j \in DOMAIN typed : utt[typed[j].utt].epoch = inEpoch.epoch
          BY DEF SpaceInv, Out
        <4> QED BY <2>1, <2>2, <2>4, <4>1, <4>2, <4>3
      <3> QED BY <2>2, <3>1, <3>2
    <2>9. \A u \in Out' : utt'[u].epoch <= inEpoch'.epoch
      BY <1>1, <2>3, <2>4, Holders DEF SpaceInv
    <2>10. SpaceInv'
      BY <1>1, <2>3, <2>4, <2>8, <2>9 DEF SpaceInv
    <2> QED BY <2>6, <2>7, <2>10
  <1> QED BY <1>2, <1>3 DEF TypeJob

LEMMA NextHistory == IInv /\ HistoryInv /\ [Next]_vars => HistoryInv'
  <1> SUFFICES ASSUME IInv, HistoryInv, [Next]_vars PROVE HistoryInv'
    OBVIOUS
  <1> DEFINE Nothing ==
        /\ UNCHANGED <<queue, typed, inEpoch, spoken, utt>>
        /\ worker'.job \in {worker.job, 0}
        /\ loop'.at = "gated" => loop' = loop
  <1>1. CASE SessionStep
    <2>1. Nothing /\ epoch' \in {epoch, epoch + 1}
      BY <1>1 DEF SessionStep, EpochNext, OpenSession, CloseSession, RollbackSession,
                  loopVars, workerVars
    <2> QED BY <2>1, Holders, HistoryKept
  <1>2. ASSUME Nothing, epoch' = epoch
        PROVE  HistoryInv'
    BY <1>2, Holders, HistoryKept
  <1>3. CASE Admit \/ CancelDaemon \/ CloseQueue \/ UNCHANGED vars
    BY <1>2, <1>3 DEF Admit, LoopIdle, CancelDaemon, CloseQueue, vars,
                      sessionVars, loopVars, workerVars
  <1>4. ASSUME NEW u \in Utterances, Transcription(u)
        PROVE  HistoryInv'
    BY <1>2, <1>4, TranscriptionSteps DEF TranscriptionStep, sessionVars, loopVars, workerVars
  <1>5. CASE CheckJob
    <2>1. worker'.job \in {worker.job, 0}
      BY <1>5 DEF CheckJob, WorkerIdle, IInv, TypeOK
    <2> QED BY <1>2, <1>5, <2>1 DEF CheckJob, sessionVars, loopVars
  <1>6. CASE WorkerExits
    BY <1>2, <1>6 DEF WorkerExits, sessionVars, loopVars
  <1> QED BY <1>1, <1>3, <1>4, <1>5, <1>6, OnUtteranceHistory, EnqueueHistory,
             TakeJobHistory, TypeJobHistory DEF Next, Worker

LEMMA AlwaysHistory == Spec => []HistoryInv
  BY InitHistory, NextHistory, AlwaysIInv, PTL DEF Spec

\* What reaches the keyboard is what was spoken, in the order of speech, with gaps
\* but no utterance twice: typeQueue is filled before transcription starts and
\* served by one worker (session.go:119).
THEOREM SpeechOrderKept == Spec => []TypedInSpeechOrder
  <1>1. HistoryInv => TypedInSpeechOrder
    BY DEF HistoryInv, OrderInv
  <1> QED BY <1>1, AlwaysHistory, PTL

\* The worker's private epoch and flag decide the leading space (session.go:247):
\* each text but the first of its session has one, however many utterances of it
\* were skipped, failed, or said before an earlier session's were typed.
THEOREM SpacesSeparate == Spec => []SpacedWithinSession
  <1>1. HistoryInv => SpacedWithinSession
    BY DEF HistoryInv, SpaceInv
  <1> QED BY <1>1, AlwaysHistory, PTL

-----------------------------------------------------------------------------
(* What every wait of the worker rests on: the job whose channel it waits  *)
(* for has someone to close it.                                            *)

JobInv ==
    /\ \A u \in Held \union Waiting :
          /\ Typing(u)
          /\ asr[u] = "none" => loop.at = "queued" /\ loop.utt = u
    /\ \A u \in Utterances : asr[u] = "done" /\ Typing(u) => closes[u] = 1

\* A step that adds no job, renames none and starts none leaves each where it is.
LEMMA JobsKept ==
    ASSUME JobInv, Held' \subseteq Held \union Waiting, Waiting' \subseteq Waiting,
           UNCHANGED <<utt, asr, closes>>, loop' = loop
    PROVE  JobInv'
  BY DEF JobInv, Typing

LEMMA NextJobs == IInv /\ HistoryInv /\ JobInv /\ [Next]_vars => JobInv'
  <1> SUFFICES ASSUME IInv, HistoryInv, JobInv, [Next]_vars PROVE JobInv'
    OBVIOUS
  <1> USE DEF HistoryInv
  <1>1. ASSUME UNCHANGED <<queue, worker>>
        PROVE  Held' = Held /\ Waiting' = Waiting
    BY <1>1 DEF Held, Waiting
  <1>2. CASE SessionStep \/ CancelDaemon \/ CloseQueue \/ UNCHANGED vars
    BY <1>1, <1>2, JobsKept DEF SessionStep, CancelDaemon, CloseQueue, vars,
                                loopVars, asrVars, workerVars
  <1>3. CASE OnUtterance
    <2>1. /\ loop.at = "idle" /\ UNCHANGED <<asr, closes>> /\ Held' = Held /\ Waiting' = Waiting
          /\ \E r : utt' = [utt EXCEPT ![spoken + 1] = r]
      BY <1>1, <1>3 DEF OnUtterance, asrVars, workerVars
    <2>2. \A u \in Utterances : u <= spoken => Typing(u)' = Typing(u)
      BY <2>1, Holders DEF Typing, IInv, TypeOK
    <2>3. \A u \in Held \union Waiting : u \in Utterances /\ u <= spoken /\ asr[u] # "none"
      BY <2>1, Holders DEF OrderInv, JobInv
    <2>4. \A u \in Utterances : asr[u] = "done" => u <= spoken
      BY Holders DEF IInv, LoopInv
    <2> QED BY <2>1, <2>2, <2>3, <2>4 DEF JobInv
  <1>4. CASE Enqueue
    <2>1. /\ loop.at = "gated" /\ loop.utt \in Utterances /\ UNCHANGED <<utt, asr, closes>>
          /\ Held' = Held
      BY <1>4 DEF Enqueue, IInv, LoopInv, asrVars, workerVars, Held
    <2>2. \A u \in Held \union Waiting : asr[u] # "none"
      BY <2>1 DEF JobInv
    <2>3. CASE queue' = queue
      BY <2>1, <2>2, <2>3 DEF JobInv, Typing, Waiting
    <2>4. CASE /\ queue' = Append(queue, loop.utt) /\ Typing(loop.utt)
               /\ loop' = [loop EXCEPT !.at = "queued"]
      <3>1. \A u \in Waiting' : u \in Waiting \/ u = loop.utt
        <4>1. queue \in Seq(Utterances)
          BY DEF IInv, TypeOK
        <4>2. \A i \in DOMAIN queue' : queue'[i] = loop.utt \/ (i \in DOMAIN queue /\ queue'[i] = queue[i])
          BY <2>1, <2>4, <4>1
        <4> QED BY <4>2 DEF Waiting
      <3>2. loop'.at = "queued" /\ loop'.utt = loop.utt
        BY <2>4 DEF IInv, TypeOK
      <3> QED BY <2>1, <2>2, <2>4, <3>1, <3>2 DEF JobInv, Typing
    <2> QED BY <1>4, <2>3, <2>4 DEF Enqueue
  <1>5. CASE Admit
    <2>1. PICK u \in Utterances : u = loop.utt /\ asr[u] = "none" /\ closes[u] = 0
      BY <1>5 DEF Admit, IInv, LoopInv, ReadyInv
    <2>2. utt' = utt /\ Held' = Held /\ Waiting' = Waiting
      BY <1>1, <1>5 DEF Admit, workerVars
    <2>3. CASE asr' = [asr EXCEPT ![u] = "transcribing"] /\ closes' = closes
      BY <2>1, <2>2, <2>3, Holders DEF JobInv, Typing, IInv, TypeOK
    <2>4. CASE asr' = [asr EXCEPT ![u] = "done"] /\ CloseReady(u)
      <3>1. \A v \in Utterances : v # u => asr'[v] = asr[v] /\ closes'[v] = closes[v]
        BY <2>4 DEF CloseReady, IInv, TypeOK
      <3>2. asr'[u] = "done" /\ (Typing(u) => closes'[u] = 1)
        BY <2>1, <2>4 DEF CloseReady, IInv, TypeOK
      <3> QED BY <2>1, <2>2, <3>1, <3>2, Holders DEF JobInv, Typing
    <2> QED BY <1>5, <2>1, <2>3, <2>4 DEF Admit
  <1>6. ASSUME NEW u \in Utterances, Transcription(u)
        PROVE  JobInv'
    <2>1. /\ asr[u] \in Busy /\ closes[u] = 0 /\ utt' = utt /\ loop' = loop
          /\ Held' = Held /\ Waiting' = Waiting
      BY <1>1, <1>6, TranscriptionSteps DEF TranscriptionStep, IInv, ReadyInv, Busy,
                                            loopVars, workerVars
    <2>2. \/ asr'[u] \in Busy /\ closes' = closes
          \/ asr'[u] = "done" /\ (Typing(u) => closes'[u] = 1)
      <3>1. /\ \A a : [asr EXCEPT ![u] = a][u] = a
            /\ [closes EXCEPT ![u] = @ + 1][u] = 1
        BY <2>1 DEF IInv, TypeOK
      <3>2. CASE Expire(u)
        BY <2>1, <3>2 DEF Expire
      <3>3. ASSUME Skip(u)
            PROVE  asr'[u] = "done" /\ (Typing(u) => closes'[u] = 1)
        BY <3>1, <3>3 DEF Skip, Finish, CloseReady
      <3>4. CASE TransportError(u)
        BY <3>1, <3>3, <3>4 DEF TransportError, Busy
      <3>5. CASE BackoffEnds(u)
        BY <3>1, <3>3, <3>5 DEF BackoffEnds, Busy
      <3>6. CASE TranscriptSkipped(u)
        BY <3>3, <3>6 DEF TranscriptSkipped
      <3>7. CASE OnTranscript(u)
        BY <3>1, <3>3, <3>7 DEF OnTranscript, Busy
      <3>8. CASE Deliver(u)
        BY <3>1, <3>8 DEF Deliver, Finish, CloseReady
      <3>9. CASE CleanupReturns(u)
        BY <3>1, <3>9 DEF CleanupReturns, Finish
      <3> QED BY <1>6, <3>2, <3>4, <3>5, <3>6, <3>7, <3>8, <3>9 DEF Transcription
    <2>3. \A v \in Utterances : v # u => asr'[v] = asr[v] /\ closes'[v] = closes[v]
      <3>1. /\ asr' = asr \/ \E a : asr' = [asr EXCEPT ![u] = a]
            /\ closes' = closes \/ \E n : closes' = [closes EXCEPT ![u] = n]
        BY <1>6, TranscriptionSteps DEF TranscriptionStep
      <3> QED BY <3>1 DEF IInv, TypeOK
    <2>4. \A v \in Held' \union Waiting' : asr'[v] = "none" => loop'.at = "queued" /\ loop'.utt = v
      BY <2>1, <2>2, <2>3, Holders DEF JobInv, Typing, Busy
    <2>5. \A v \in Utterances : asr'[v] = "done" /\ Typing(v)' => closes'[v] = 1
      BY <2>1, <2>2, <2>3 DEF JobInv, Typing, Busy
    <2>6. \A v \in Held' \union Waiting' : Typing(v)'
      BY <2>1 DEF JobInv, Typing
    <2> QED BY <2>4, <2>5, <2>6 DEF JobInv
  <1>7. CASE Worker
    <2>1. UNCHANGED <<utt, asr, closes>> /\ loop' = loop
      BY <1>7 DEF Worker, TakeJob, CheckJob, TypeJob, WorkerExits, loopVars, asrVars
    <2>2. CASE TakeJob
      <3>1. queue \in Seq(Utterances) /\ queue # <<>> /\ queue' = Tail(queue)
            /\ worker'.job = Head(queue)
        BY <2>2 DEF TakeJob, IInv, TypeOK
      <3>2. Head(queue) \in Waiting /\ Waiting' \subseteq Waiting
        <4>1. Head(queue) = queue[1] /\ 1 \in DOMAIN queue
          BY <3>1
        <4>2. \A i \in DOMAIN Tail(queue) : i + 1 \in DOMAIN queue /\ Tail(queue)[i] = queue[i + 1]
          BY <3>1
        <4> QED BY <3>1, <4>1, <4>2 DEF Waiting
      <3> QED BY <2>1, <3>1, <3>2, JobsKept DEF Held
    <2>3. CASE CheckJob \/ TypeJob \/ WorkerExits
      <3>1. worker'.job \in {worker.job, 0} /\ queue' = queue
        BY <2>3 DEF CheckJob, TypeJob, WorkerExits, WorkerIdle, IInv, TypeOK
      <3> QED BY <2>1, <3>1, JobsKept DEF Held, Waiting
    <2> QED BY <1>7, <2>2, <2>3 DEF Worker
  <1> QED BY <1>2, <1>3, <1>4, <1>5, <1>6, <1>7 DEF Next

\* The safety part of LineDrains: the job the worker waits for, and each behind
\* it, is ready, is being transcribed, or is about to be; none is left for which
\* neither callback will run (asrmonitor.go:118, session.go:143).
THEOREM NoJobIsForgotten == Spec => []NoJobForgotten
  <1>1. Init => JobInv
    BY DEF Init, JobInv, Held, Waiting
  <1>2. Spec => []JobInv
    BY <1>1, NextJobs, AlwaysIInv, AlwaysHistory, PTL DEF Spec
  <1>3. IInv /\ JobInv => NoJobForgotten
    <2> SUFFICES ASSUME IInv, JobInv, NEW u \in Held \union Waiting
                 PROVE  closes[u] = 1 \/ asr[u] \in Busy \/ loop = [at |-> "queued", utt |-> u]
      BY DEF NoJobForgotten
    <2>1. u \in Utterances
      BY Holders
    <2>2. asr[u] = "none" \/ asr[u] = "done" \/ asr[u] \in Busy
      BY <2>1 DEF IInv, TypeOK, Busy
    <2>3. CASE asr[u] = "none"
      <3>1. loop.at = "queued" /\ loop.utt = u
        BY <2>3 DEF JobInv
      <3> QED BY <3>1 DEF IInv, TypeOK
    <2> QED BY <2>1, <2>2, <2>3 DEF JobInv
  <1> QED BY <1>2, <1>3, AlwaysIInv, PTL

=============================================================================
