# dicta in TLA+

dicta is a voice-dictation daemon for Linux. `dictad` listens to the
microphone, cuts the audio into utterances, has each transcribed by an ASR
backend (often a `whisper-server` that it supervises), and either types the
text into the focused window (*type* mode) or shows it in a panel (*clip*
mode). A hotkey client, the panel and the microphone's own mute button open and
close *sessions*. Nearly everything that can go wrong is an interleaving:
control connections, timers, the mute watcher, the audio loop, transcription
goroutines and the exits of subprocesses all meet in a few mutex-protected
structures, and none of them holds a lock across a slow call.

This directory holds TLA+ modules of those structures, TLC configurations that
model-check them on small instances, and TLAPS proofs of the properties that
hold for every instance. Paths below are relative to the repository.

- [The system](#the-system)
- [Modules, and how they correspond to the code](#modules-and-how-they-correspond-to-the-code)
- [Runs](#runs)
- [Fairness](#fairness)
- [Proofs](#proofs)
- [Where code and comments disagree](#where-code-and-comments-disagree)
- [Not modelled](#not-modelled)
- [Plan](#plan)

## The system

| component | state it keeps | operations | what makes it correct |
|---|---|---|---|
| session (`cmd/dictad/session.go`) | mode, open flag, epoch, idle timer, under `mu`; capture direction under `audioMu` | Toggle, EnsureTypeOpen, CloseIfTypeOpen, Commit, Clip, Cancel, onIdle, OnCaptureLost, Shutdown | capture follows the open flag; an epoch names one session; what is meant for one session does not reach the next; every call returns |
| type pipeline (`session.go`, `asrmonitor.go`) | `typeQueue`, in-flight semaphore, job texts and ready channels, `currentEpoch` | OnUtterance, Submit, OnTranscript, onTranscriptSkipped, typeWorker | typing follows the order of speech; tokens come back and ready channels are closed once; every job leaves the queue; what was said before a close is typed |
| preview panel (`preview.go`, `cmd/dicta-preview`) | the panel's process, `exitCh`, `stopped` | Spawn, Kill, exit hook | one panel per clip session; an exit nobody asked for cancels the session; Kill returns |
| unmute-to-dictate (`mutewatch.go`, `mutebuild.go`, `internal/mute`) | lastState, debounce timer, suspended, fires, absent, the source's one-element channel | Run, fire, Suspend, Resume, DeviceLost, DeviceRestored | suspended means off; the watcher does not keep a state that its source has left; a gone device fires nothing |
| audio capture and loop (`audiomonitor.go`, `internal/audio`) | frame channel, accumulator, VAD hangover, flush channel, stalled | Start, Stop, Flush, pump, loop | each frame of speech is handed on once, in order; chunks have their size; flush takes what came before it; Stop returns |
| whisper-server supervisor (`internal/whispersup`) | state, port, endpoint, readyCh, backoff, the subprocess | Start, Stop, WaitReady, run | one server at a time, reaped before the next; a stable endpoint; ends when told |
| keyboard dispatch (`internal/dispatch/typer.go`) | consecutiveFailures, openedAt, notified | Type, chunkString, releaseAllKeys | the breaker follows the attempts; an outage is told once; pieces are whole and small |
| audit log (`internal/audit`) | the open day's file, day directories | New, Record, Close, sweep | a row is in its own day and has its audio; the promised days are kept |
| control server and event bus (`internal/control/server.go`, `events.go`, `handler.go`) | connections and their mode, subscribers | accept, command, subscribe, publish, reap | subscribers miss nothing and get nothing twice; the dead are reaped; commands are answered in order |
| auto mute source (`internal/mute/auto.go`) | the winning source under `mu`, a context per source, the merged channel | Watch, its forwarders, the closer | one source's transitions reach the watcher; the winner keeps its stream; the rest ends |
| ASR backends (`internal/asr`), cleanup (`internal/cleanup`) | none between calls | Transcribe with retries, Clean | an attempt ends by its deadline; a failed cleanup loses no text |
| cues, clipboard, notifications, configuration, CLI | — | — | see [Not modelled](#not-modelled) |

How they meet:

- The control server runs each command in its connection's goroutine; the
  command calls the session (and may publish from there on the bus, which
  writes to every other subscriber's connection).
- The audio loop calls `OnUtterance` in the session, which submits to the ASR
  monitor and puts a job on `typeQueue`; the transcription goroutines come back
  through two callbacks; one worker types through the keyboard dispatcher. A
  closing session asks the audio loop to flush.
- The session starts and stops the audio monitor; the monitor's stall watchdog
  calls back into the session and the mute watcher; the mute watcher calls the
  session as a client does.
- The panel's exit, the idle timer and a lost capture call the session from
  goroutines of their own.

The hard behaviours, then, are check-then-act over released locks (the session,
the worker, fire, idle), the order of messages and results (transcripts, nudges
and events on two channels, stale flush requests), failures half-way (a failed
spawn or capture start in `open_`, a killed `ydotool`, a write between audio
and row), timeouts with late answers (Flush, Kill's grace), and shutdown
(queues closed under senders, subprocesses that ignore SIGTERM, peers that do
not leave). `PROJECT.json` lists each of them at its line under `hazards`.

## Modules, and how they correspond to the code

`PROJECT.json` maps every definition to the lines it models. Conventions:

- One atomic step is one critical section, or one blocking call between two of
  them. A thread that runs a call has a program counter in `pc`/`at` and the
  call's locals in a record.
- A guard that names a BOUND constant (`MaxEpoch`, `MaxFrames`, ...) limits the
  environment: no handler's step is disabled by a bound half-way.
- Durations are left out: a running timer may expire at any time. Where an
  order of durations matters, a constant or an action says so.
- Each module ends with its properties. Variants with names such as
  `OpenBeginSameEpoch` or `RetryRegardless` are not part of the
  specification: each is a plausible bug, and the property that would notice it
  is checked to do so (`mutants` in `PROJECT.json`).

| module | models | state ↔ code | actions ↔ code |
|---|---|---|---|
| `Session` | `session` with capture and panel | `mode`, `epoch`, `idleTimer` = the fields under `s.mu`; `capture`, `audioMu`, `want` = `syncAudio`; `panel`, `marks`, `killers` = `previewSpawner` | one action per entry (`Toggle` ... `OnIdle`, `Shutdown`), then the sections of `close` (`CloseBegin`, `CloseFlip`, `SyncRead`, `CloseSynced`, `Kill`, `KillReturn`, `ClosePublish`), of `open_` (`OpenBegin`, `ResetVAD`, `SyncRead`, `OpenSynced`, `Spawn`, `OpenPublish`, `ArmIdle`) and of the rollback |
| `SessionEpochs` | what a session promises the rest: mode and epoch change together, and an epoch is one session | `mode`, `epoch` | open, close, rollback |
| `TypePipeline` | `OnUtterance`, `asrMonitor`, the retry wrapper, the two callbacks, `runCleanup`, `typeWorker`, the end of the daemon | `queue`, `inflight`, `closes` (of each ready channel), `worker`, `inEpoch`; `asr` = where each transcription is, `expired` = its deadline | `OnUtterance`, `Enqueue`, `Admit`, `TransportError`, `BackoffEnds`, `Expire`, `OnTranscript`, `Deliver`, `CleanupReturns`, `TranscriptSkipped`, `TakeJob`, `CheckJob`, `TypeJob`, `WorkerExits`; the environment is `SessionEpochs` |
| `LossyQueue` | what the pipeline promises: a line of bounded length, served in order, that may drop | `line`, `out` | accept, type the head, drop the head |
| `MuteWatch` | `muteWatcher` with its two sources and the stall hooks | `at`, `last`, `pending`, `firing`, `suspended`, `fires`, `absent`, `nudges`, `actMu`; `seen`, `events` of the source | `TakeEvent`, `TakeNudge`, `RunEnds`, `DebounceElapses`, `FireChecks`, `Act`, `Record`, `FlapCloses`, `Suspend`, `Resume`, `DeviceLost`, `DeviceRestored`, `Frame`, `Poll`, `PollFails` |
| `MuteEvents` | what a mute source sends | the states of the microphone, the event record | — |
| `AutoSource` | `Auto.Watch` over its sources | `live`, `cancelled`, `locked`, `out`, `closed`; `chan`, `lastSeen` of each source, `fwd` = its forwarder | `Look`, `Reseed`, `SourceEnds`, `Receive`, `Decide`, `Send`, `RangeEnds`, `CloseOut`, `Take` |
| `AudioMonitor` | `audioMonitor`, `Capture`'s pump, the VAD's hangover | `queue` = the frame channel, `acc`, `rawCount`, `utterance`, `quiet`, `flushReq`, `flusher`, `stalled` | `Start`, `Stop`, `Pump`, `HearFrame`, `HearFlush`, `StallFires`, `LoopEnds`, `Flush` and its four outcomes |
| `Supervisor` | `Supervisor.run` with Start, Stop, WaitReady | `at` = the place in the loop, the fields of `s`, `server` = each subprocess's life | one action per phase and way out of it |
| `Typer` | `YdotoolTyper.Type`, which extends `Chunking` | `at`, `next` = the piece to type, `failures`, `breaker`, `cooled`, `notified` | `AllowAttempt`, `CutPiece`, `CutRest`, `PieceTyped`, `PauseEnds`, `InvokeFails`, `InvokeKilled`, `ReleaseAllKeys`, `Record` |
| `Chunking` | `chunkString` | `i`, `ends` (where each piece ends) | `Call`, `Rest`, `Cut`, `Forget` |
| `Audit` | `Writer` | `file`, `up`, `writing` (who holds `mu`); `sweep` = the directories a running sweep has left; `dirs`, `rows`, `wavs` = the disk | `New`, `Record`, `Rotate`, `WriteWAV`, `EncodeRow`, `Close`, `Exit`; the sweep of `New` and `Close`, file by file: `Unlink`, `RemoveDir`, `RemoveFails`, `SweepEnds` |
| `Control` | `Server` and `eventBus` | `conn`, `mode`, `inbox`, `subscribers` (the bus's list, as a set: whom a Publish serves first is left open), `publish` (a running Publish and those of its copy it has still to serve); `died`, which event a subscriber's push failed on, is history | `Accept`, `Scan`, `DispatchCall`, `DispatchSubscribe`, `Answer`, `Reply`, `Publish`, `Push`, `PublishReturns`, `ServeReturns` |

**Composition.** `Session` is shown to implement `SessionEpochs` (run
`session_overlap`, theorem `SessionImplementsEpochs`). `TypePipeline` runs in
the environment `SessionEpochs` allows, so what holds of the pipeline holds
with the real session around it, without multiplying the two state spaces.
`TypePipeline` in turn implements `LossyQueue`: `Line` (the job in the worker's
hands followed by the queue) and the typed utterances are its refinement
mapping. `MuteWatch` has the session reduced to who opened it; the sections
inside the toggler's calls are in `Session`. `Typer` is composed with `Chunking`:
it cuts its text with `Chunking`'s steps, types the pieces these leave, and
implements `ChunkSpec` (theorem `TyperCuts`). `AutoSource` stands where
`MuteWatch` has a source of its own: what it guarantees, one stream of
transitions, is what `MuteWatch` assumes of a source; the two share their alphabet, `MuteEvents`.
`Control` takes a command to be a step that may publish.

**Abstractions.** An utterance is its number, a transcript is there or not, a
frame is its number and one of three kinds, a log row is the utterance and its
day. The VAD's thresholds are left out: which kind a frame is, is chosen.
`Session` has on-demand capture (the default); with capture always on,
`syncAudio` returns at once. `Room`, `ChanCap`, `QueueCap` are the code's own
capacities made small.

## Runs

Every run names its properties in its `.cfg`. Each module has a type invariant
`TypeOK` (`ChunkTypeOK`, `AutoTypeOK`); it is proved for all of them, holds in every
run when added to it, and is not repeated there. "Deadlock off" is used where the modelled part may really come to rest: all requests made, the daemon gone.

| run | instance | states | what it shows |
|---|---|---|---|
| `session_overlap` | 2 clients, 1 callback, epoch ≤ 2, a panel that may outlive Kill's grace; symmetric clients | 1.15 M | when no call is on its way through `syncAudio`, capture is on exactly if a session is open (`CaptureFollowsSession`); the session implements `SessionEpochs` |
| `session_live` | 1 client, 2 callbacks, epoch ≤ 2, fair | 76 k | every call returns, whoever kills and reaps the panel; an open type session at rest has its own idle timer (`IdleDeadlineStands`) and closes if nobody speaks |
| `session_idle_own` | 1 client, 1 callback, epoch ≤ 3 | violation | the idle timer of one session closes the next |
| `pipeline_all` | 3 utterances, epoch ≤ 2, queue of 2, 2 transcriptions, a backend that may fail, stall or drop the connection, fair | 125 k | order of speech is kept (`KeepsOrder`), tokens are accounted for and come back whatever the backend does, a ready channel is closed once, the line drains, what was said before a close is typed, a space sets off each typed text from the one before it in its session (`SpacedWithinSession`), the worker ends with the daemon |
| `sup_restart` | 3 spawns, 2 ephemeral ports, backoff 1 to 3, fair | 7 k | one server at a time, an endpoint that does not move, an end when told |
| `mute_watch` | 3 presses, 1 unplug, three configurations, nudge channel of 1, a poll that may fail at any time, fair | 349 k | a suspension leaves no session of the watcher's open; while the source lives, the watcher ends at its last observation and muting ends what unmuting opened |
| `auto_lock` | pcm-zero and pipewire, 2 changes or stalls, merged channel of 1, fair | 138 k | one source speaks, the winner is heard after the lock, the losers and at the end everything stops, and while Watch's context lives nobody but a loser is stopped (`OnlyLosersStopped`) |
| `audio_loop` | 5 frames, 2 starts, cap and window of 4 frames, gate and hangover of 2, a channel of 1, 1 flusher, fair | 696 k | no speech is lost, doubled or reordered; utterances are whole; chunks have their size; a successful flush took what was heard before it; Stop returns |
| `typer_all` | 16 texts of 9 characters with blanks around the split windows, sizes 3, 4, 8, threshold 3, a history of 5, a `ydotool` that works, fails or hangs, fair | 317 k | pieces fit, cover the text, cut words only where they must; the breaker is open exactly after three failures in a row, tells an outage once, and closes by itself |
| `audit_rows` | 2 utterances, 4 days, retention 1, sweeps that fail or are cut short at any file | 30 k | rows are in their own day's file, and as long as the day is kept they have the audio they name, through crashes and failing writes |
| `control_bus` | 2 peers, 1 publisher, 2 commands, 2 events, a socket with room for 1 line, fair | 377 k | a living subscriber gets each event it asked for once; a dead one is off the list once a later event has been served (`DeadReaped`); replies come in order; commands are answered |
| `control_drain` | the same with 1 command, 1 event | violation | Serve does not return while a peer keeps its connection |

**Why the bounds are enough.**

- *Session.* Each hazard needs a call that is between two of its sections while
  another one flips the session: two clients give open/open, open/close and
  close/close, the callback adds timer, panel exit or lost capture. Two epochs
  give a call that outlives its session and meets the next one. The theorems
  take both bounds away from what `session_overlap` checks.
- *Pipeline.* Three utterances are one more than the queue and one more than
  the tokens, so both `queue full` and `over the cap` happen, and a transcript
  can overtake two others. Two epochs give the reopened session. Attempts are not
  counted: a transcription may retry any number of times before its deadline.
- *Auto source.* Two changes give two sources that see the same press at once,
  and a second one after the lock; a capture stall gives a second Initial event.
  A merged channel of one makes forwarders wait, which eight would hide. The
  run with three changes (536 k states) passes, too.
- *Supervisor.* Three spawns give first start, restart and a restart after a
  failed restart; 1, 2, 3 is a backoff that doubles and hits its cap.
- *Mute watcher.* Three presses trip the flap guard (threshold 1) and leave one
  to be swallowed; one unplug gives a stall and a return. A nudge channel of
  one overflows where eight would.
- *Audio.* Five frames against a cap of four give a forced split with a
  remainder; a gate of two and a hangover of two give utterances under the gate
  and pauses inside speech.
- *Texts.* Blanks at the four places, in and around the last quarter of the
  sizes' windows, give cuts at the blank, at the window's end and a remainder.
- *Breaker.* Remembering two attempts more than the threshold, the history
  cannot tell a longer outage from five failures, and neither does the code.
- *Bus.* One line of room lets a write wait for its peer; two events show
  order, reaping by one Publish while another runs, and a subscription between
  them.

## Fairness

Only what the Go runtime or the operating system provides is assumed, always
weak, and never for a user, a client that has yet to send, a device, a crash or
a failure.

- A goroutine that can run does (`Step(t)`, `Worker`, `Transcription(u)`, `Run`,
  `HearFrame`, `Handle(p)`, `Publishing(g)`). A blocked one's step is disabled: a
  lock's waiter, a full channel. Go's mutexes do not starve a waiter, so strong
  fairness on `audioMu` would be justified, too; no property needs it.
- Go's `select` picks among its ready branches at random, so a branch that stays
  ready is taken: `TakeNudge`, `HearFlush` and `LoopEnds` are fair by themselves.
- A running timer expires (`IdleFires`, `DebounceElapses`, `CooldownElapses`,
  `Sleep`). The idle timer may be stopped or restarted first.
- A subprocess that was sent SIGKILL dies (`ServerKilled`), one that exited is
  reaped by whoever waits for it (`PanelReaped`), a panel that was told to leave
  leaves (`PanelLeaves`). SIGTERM promises nothing: a server may ignore it.
- A transcription's deadline passes (`Expire`), and a call whose context has ended
  returns (`Ends`): `context.WithTimeout` bounds it (`asrmonitor.go:156`). The
  backend itself owes nothing: it may stall or fail for ever. Each run of `ydotool` ends or is
  killed at its deadline (`Attempt`).
- The poller polls while it lives, and frames arrive while a device is present
  (`Poll`, `Frame` of `MuteWatch`). An unplugged one sends nothing. No poll has to
  succeed: `PollFails` may end the source at any time.
- A sweep goes on from file to file (`Unlink`, `RemoveDir`), if it is not cut short.
- A source of `AutoSource` that is not cancelled looks, one that is cancelled
  ends, and the watcher reads on while the context of Watch lives (`Take`).
- A peer of the control socket that is still there reads what it was sent
  (`ReadLine`): a peer that never reads would block every publisher for ever,
  which the code allows (`events.go:83` writes without a deadline). It is under
  no obligation to leave.

Under these, `EndsWhenTold` is stated in two parts, as the code deserves it:
after a cancellation the supervisor ends; after Stop alone it ends *if* SIGTERM
is enough (`TermIsEnough`).

## Proofs

Eight modules hold machine-checked proofs, without any bound on the constants;
their assumptions are the `ASSUME`s of the modules they extend. Each follows the same argument: the property itself
is not inductive, `IInv` is its strengthening, and one lemma per group of actions
shows that `IInv` is kept. Every safety property of the passing runs (invariant,
action property, refinement) but `IdleDeadlineStands` is a theorem here; of the liveness properties, several
have their safety part as one: that whoever waits has somebody to wait for.

**`SessionProofs`** — for every set of clients and callbacks.

- `TypeCorrect`: `Spec => []TypeOK`. The strengthening inside `TypeOK` says that
  a thread about to run `open_` knows its mode.
- `CaptureConverges`: `Spec => []CaptureFollowsSession`. "Capture agrees with the
  session when nobody is in `syncAudio`" is not inductive: it says nothing of the
  moments when they differ. `CaptureInv` does: whenever capture and the open
  flag differ, there is a thread that will still read the flag, or the holder of
  `audioMu` has read the flag as it is now; the flag never changes without such
  a thread being left behind. The lock invariant (who holds `audioMu` is at one
  of three places) is the other half.
- `SessionImplementsEpochs`: the session refines `SessionEpochs`: Init maps to
  `EpochInit`, each action to open, close, rollback or a stutter.
- `WaitsEnd`, the safety part of `EveryCallReturns`: who waits in Kill waits for a
  panel that was told to leave, has not been reaped by another thread, and is not
  one that was spawned since; `audioMu` is held only by a thread inside `syncAudio`.

**`SupervisorProofs`** — for every number of spawns, set of ports and backoff.
`AlwaysOneServer`, `NeverClosedTwice`, `BackoffAlwaysSettles`,
`EndpointNeverMoves`. The inductive invariant adds to the type invariant that
between a spawn and its reap there is a current server (`CurrentExists`), that
nothing was started and no port picked before Start (`Untouched`), and that the
endpoint is made of the port whenever `mu` is free (`EndpointOfPort`): without
it a respawn could publish an endpoint that differs from the first.
`WaitsAreAnswered` is the safety part of `EndsWhenTold`: a subprocess that is not
reaped is the one the loop holds, and where the loop waits with no other way out,
that one was sent SIGTERM.

**`TyperProofs`** — for every set of texts, every alphabet, size and threshold.
Its first part is of `Chunking` alone: `PiecesAlwaysFit`, `TextAlwaysCovered`,
`WordsAlwaysKept`. The invariant adds `TextLeft`, which ties the loop's position to
the end of the last piece and says that at the head of the loop some text is
left: that is what makes an empty piece, which would never end the loop,
impossible. `TyperCuts` shows that the typer refines `ChunkSpec`, so these hold
of what is typed (`TypedPiecesFit`, `TypedTextCovered`, `TypedWordsKept`).
`BreakerFollowsHistory` and `OutageToldOnce` rest on
`Counted`: the code's counter is the number of failures at the end of the
history, all of those and no more, over cancelled attempts and failed probes.

**`TypePipelineProofs`** — for every number of utterances, queue and cap.
`TypeCorrect`, `ReadyNeverClosedTwice`, `TokensAlwaysAccounted`. The invariant
says that the utterance in the audio loop's hands is not being transcribed yet,
that the worker has a job exactly while it works on one, and that a ready channel
is open until its transcription is over. `TypesInOrder` is the refinement of
`LossyQueue`: each step appends to `Line`, takes its head off with or without
typing it, or leaves it. Transcriptions, whatever order they end in, are stutters.
`LossyQueue` would accept an utterance twice, so the refinement alone does not say
that nothing is typed again. `SpeechOrderKept` does: of the typed texts, the worker,
the queue and the audio loop, each holds later utterances than the one before
(`OrderInv`). With it, and epochs that only grow (`EpochsInv`), `SpacesSeparate` shows
that the worker's private epoch and counter decide the leading space as the history
of the keyboard would (`SpaceInv`). `NoJobIsForgotten` is the safety part of
`LineDrains`: a job in the line is ready, is being transcribed, or is about to be
(`JobInv`), so one of the two callbacks is still to close what the worker waits for.

**`MuteProofs`**, of the watcher — for every set of configurations and any number of
presses and losses. `SuspendedAlwaysOff` (`ActInv`: a session of the watcher's can be open
under a suspension only while `actMu` is held by the one who closes it),
`SourceAlwaysTracked` (`TrackInv`: while the source lives, its last observation is
the newest of what is in the channel, under the debounce timer, in fire's hands or in
`lastState`), and, for the configurations where the code keeps them,
`AbsentAlwaysSilent` and `ReturnAlwaysReseeds` (`StallInv`).

`WatchTypeCorrect` adds the bounds of the channels and of the flap window.

Of the auto source, in the same module — for any sources and any capacity.
`OnlyOneSpeaks` rests on `LockInv`: a transition that is being sent, waits in the
merged channel or was taken from it is of the locked source. `AutoTypeCorrect`
adds the capacities of all channels. `WinnerKeepsWatching` shows `OnlyLosersStopped`
and is the safety part of `WinnerHeard`: the lock is taken once, takes the losers' contexts and
leaves the winner's, so its source watches and its forwarder runs until its own poll
fails or Watch ends (`CancelInv`: a source closes its channel only when told to, and
a forwarder ends only after its source or the context of Watch).

**`ControlProofs`** — for any peers, publishers, filters, room and number of events.

- `NothingEverMissed`: a living subscriber has each event it asked for once, from its
  registration on, while any number of Publishes run over copies of the list. The
  state of the connection says what was sent, not why nothing is missing:
  `PublishInv` says that a Publish has not sent its event to those of its copy it has
  still to serve and that no two have the same event, `CopyInv` that everybody else
  who is entitled to it has it. `JoinInv` ties the list to the two steps of a
  subscription (push is registered first, the handler's flag turns after the reply),
  so that a peer joins once.
- `DeadAlwaysReaped` and `DeadLeaveOnSameCall`: the comments give two readings of when
  a dead subscriber leaves the list, with the next Publish (`events.go:31`) or with
  the call that found it dead (`events.go:66`). The run checks the first
  (`DeadReaped`), both are proved: for each dead subscriber on the list there is a
  Publish running that knows of a dead one (`ReapInv`), whichever of several returns
  last.
- `RepliesAlwaysInOrder`: the handler has taken a first part of what the peer sent
  (`InboxInv`), and on a connection that is not broken it has answered all of that
  but the command in its hands (`AnswerInv`).

**`AuditProofs`** — for any utterances, days and retention, and sweeps that end at any
file. `TypeCorrect`, `RowAlwaysInOwnDay`, `RowsAlwaysHaveAudio`. A Record that holds `mu` keeps the
writer open and its stamp as it is (`WriterInv`), so the day it rotated to is
still the day it writes to (`PlaceInv`), and no sweep runs meanwhile. A sweep has only
days before the cutoff in its list (`SweepInv`), and a day that is past the cutoff stays
past it (`CutoffMoves`): whatever part of a day is gone, the day is not one that is kept.

**`AudioMonitorProofs`** — for every cap, window, gate and hangover, any number of
frames, starts, resets and callers of Flush. `TypeCorrect`, `AudioAlwaysConserved`,
`UtterancesAlwaysWhole`, `ChunksAlwaysBounded`, `FlushAlwaysFlushes`. The state says
where each frame went, but not why none is missing. `AccInv` does: the frames of
the accumulator are the last ones heard, whatever was emitted, dropped or split
off before, and no loop starts before the last one has ended and left it empty.
`Placed` is what is then true of the others, one lemma for each thing that can
happen to speech (`Grows`, `Skips`, `Drops`, `HandsOn`). `ChunksAlwaysBounded` rests
on `SplitInSecondHalf`: wherever the quietest frame of the window is, the cut
leaves at least half of the buffer in front of it. Its `CHOOSE` has a value because
a non-empty set of places has a latest one (`LatestExists`), which follows from the
well-foundedness of the naturals.

**Only model-checked.** `IdleDeadlineStands`, with the one client of its run: with two
it fails (see below). All liveness (`EveryCallReturns`,
`TypeSessionCloses`, `LineDrains`, `SaidIsTyped`, `WorkerGoesDown`,
`TokensComeBack`, `EndsWhenTold`, `MutingCloses`,
`WinnerHeard`, `UnwantedEnds`, `StopEnds`, `TypingComesBack`,
`CommandsAnswered`): liveness under fairness and ENABLED are beyond the prover. The safety
parts of four of them are theorems, named above. The disagreements below are TLC's
counterexamples and have no proof.

## Where code and comments disagree

Two disagreements are runs (`findings` in `PROJECT.json`), whose counterexamples
TLC prints:

- `session_idle_own`: `onIdle` compares epochs under `mu`, releases it and calls
  `close`, which flips whatever session is open after its flush
  (`session.go:370`). With a session closed and another opened in between, the
  first one's timer ends the second. The comment at `session.go:365` says it
  closes only its own.
- `control_drain`: after ctx has ended, a handler stays in `scanner.Scan` while
  its peer keeps the connection, so `Serve` stays in `wg.Wait`
  (`server.go:110`). The comment at `server.go:76` says that handlers exit on
  cancellation, too.

The following are stated in the modules, each under "What the code's comments
say, and the code does not do", and are violated when added to a configuration;
they are kept out of the runs, one for each question:

| definition | the code does |
|---|---|
| `Session!ClipUntouchedByMute` | `closeTypeIfOpen` checks the mode and then closes: a clip session opened in between is closed by a mute event (`session.go:476`) |
| `Session!ModeSwitchCloses` with two clients | two calls that both saw a closed session both run `open_`; the second one changes the first one's mode without a close (`session.go:500`) |
| `Session!VADResetIsAlone` | `open_` resets the VAD while the loop of the session just closed still runs (`session.go:513`) |
| `Session!ClipHasPanel`, `Session!ToldClosedMeansClosed` | the tail of a slow close kills, or tells "closed" to, the panel of the session opened since (`session.go:614`) |
| `Session!RollbackUndoesOwnOpen` with two clients | a failed `open_` rolls back a session that replaced its own (`session.go:556`) |
| `Session!IdleDeadlineStands` with two clients | a late `armIdle` stops a newer session's timer (`session.go:354`) |
| `TypePipeline!ClosedDoesNotType` | the worker types what was said before a close; two comments of the file want opposite things (`session.go:49` and `:294`) |
| `TypePipeline!TypesIntoOwnSession` | the worker compares epochs, releases `mu` and types (`session.go:297`) |
| `TypePipeline!PanelShowsOwnSession` | a clip transcript passes the epoch check, is cleaned up for seconds and published (`session.go:772`) |
| `Supervisor!TermIsEnough` | Stop sends SIGTERM and does not end ctx, from which WaitDelay counts: a server that ignores SIGTERM keeps Stop waiting (`supervisor.go:326`) |
| `MuteWatch!NothingFiresWhileAbsent` | the device may go between fire's check and its toggler call (`mutewatch.go:330`) |
| `MuteWatch!NudgeDropsOnlyOlder` (`NudgeCap = 2`) | nudges and events come on two channels, so a nudge may drop a press made after it (`mutewatch.go:375`) |
| `MuteWatch!AbsentMeansNoFrames` with on-demand capture | Stop drops `stalled` without telling the watcher, which stays stood down until the next stall ends (`audiomonitor.go:195`) |
| `MuteWatch!ReturnReseeds` with the pipewire source | only pcm-zero is reseeded (`mutebuild.go:39`) |
| `MuteWatch!ButtonStaysAlive` | any failed poll, a `wpctl` that fails or times out with the device still there, closes the pipewire source's channel, and with it the watcher ends for good: the next mute leaves open what unmuting opened (`pipewire/source.go:120`, `mutewatch.go:383`). The comment at `:91` says that the channel is closed when the device disappears |
| `AutoSource!LosersSilent` | an Initial event of a source that lost is still forwarded, and seeds the watcher with a state that is not the winner's; the next press may be swallowed (`auto.go:112`) |
| `AutoSource!FirstIsInitial` | a transition may displace the Initial event in the source's one-element channel, so that the first event is a transition (`source.go:66`) |
| `AudioMonitor!SilenceIsReported` (under `FairSpec`) | a subprocess that dies ends the loop, and with it the watchdog (`audiomonitor.go:269`) |
| `Typer!KillIsSwept` | the release of keys uses the context whose end killed `ydotool` (`typer.go:328`) |
| `Audit!KeepsRetentionDays`, `Audit!OldDaysGo` | a day's age is counted from its midnight, so it goes before its last hours are old enough; the sweep runs at startup and at Close only (`retention.go:16`, `audit.go:276`) |
| `Audit!DaysGoWhole` | `os.RemoveAll` may fail, or the daemon die, after some of a day's audio is gone and while its rows are there (`retention.go:48`); the next sweep tries again |
| `Control!AckFirst` | push is registered before the reply to subscribe is written (`server.go:126`) |

The two comments in `events.go` on a dead subscriber differ from each other: reaped "on
the next Publish" (`:31`), or "on this same call" (`:66`). The code does the latter
(`Control!ReapedOnSameCall`, proved), and so satisfies the former, too.

Two more were met while reading and have no definition: `rawSpeechCount`
survives a forced split, so that a tail of silence passes the gate
(`audiomonitor.go:327`), and `State()` says "crashed" while a respawned server
loads (`supervisor.go:223`).

## Not modelled

- *ASR backends* (`internal/asr`): the retry wrapper is in `TypePipeline`; requests
  and parsing are I/O, and the selector picks a backend once, at startup.
- *Transcript cleanup* (`internal/cleanup`): one HTTP request. Its duration is in
  `TypePipeline`; its success and `runCleanup`'s fallback to the raw text
  (`session.go:817`) differ in the text only, which is left out, so they are one step
  and no property tells them apart.
- *Audio cues, clipboard, notifications*: subprocesses nobody waits for and
  whose state nobody reads. The cue's duration is a step boundary in `Session`.
- *Configuration, wiring, CLI, the panel's window*: construction and output.
- Of modelled components: Toggle's debounce, which only refuses some of the
  requests that `Session` allows at any time, and its mode with capture always on;
  what the filters of the ASR monitor match (dropped or not is a choice); the VAD's thresholds and its calibration arithmetic; the ring buffer, which
  nothing reads; malformed command lines; a failing Accept; JSON and WAV
  encoding; SweepLoop, which nothing calls; the parsing of `pw-dump` and
  `wpctl`.

## Plan

Done, in this order, the most important behaviour first:

1. `SessionEpochs`, `Session`, `SessionProofs`: the state machine every other
   part calls.
2. `LossyQueue`, `TypePipeline`: from speech to keystrokes, in the environment
   `SessionEpochs` allows.
3. `Supervisor`, `SupervisorProofs`.
4. `MuteWatch`, then `AudioMonitor`: the two event loops.
5. `Chunking`, `Typer`, `Audit`, `Control`, and `TyperProofs`, `AuditProofs`.
6. `AutoSource` and its proofs; retries, deadlines and cleanup in `TypePipeline`;
   `TypePipelineProofs` with the refinement of `LossyQueue`; `AudioMonitorProofs`;
   the proofs of the mute watcher, now in `MuteProofs`.
7. `ControlProofs`, and the safety parts of the liveness properties.

What is left:

1. *Models.* `AutoSource` in front of `MuteWatch` in one state space, to follow a
   loser's Initial event into `lastState`. The order of startup and shutdown in
   `main.go` around `Session` and `TypePipeline`, whose ends are modelled apart.
2. *Abstract specifications.* One for the bus (a set of streams, each a
   subsequence of what was published) with `Control` shown to implement it, and
   one for the audio loop (speech in, utterances out, in order).
3. *Proofs.* The safety parts of `StopEnds`, `TypingComesBack`, `MutingCloses` and
   `CommandsAnswered`.
