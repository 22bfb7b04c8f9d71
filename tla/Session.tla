------------------------------ MODULE Session ------------------------------
(***************************************************************************)
(* The session state machine of dictad (cmd/dictad/session.go), with the   *)
(* panel process it owns (cmd/dictad/preview.go).                          *)
(*                                                                         *)
(* Control connections, the mute watcher, the idle timer, the capture      *)
(* stall hook and the panel's exit watcher all call into one session from  *)
(* goroutines of their own. The session's mutex is held only for short     *)
(* sections, never across a flush, a capture start or stop, a panel spawn  *)
(* or kill, or a cue. One atomic step here is one such section, or one     *)
(* blocking call between two of them, so every interleaving the scheduler  *)
(* can produce between two sections is a behaviour of this module.         *)
(*                                                                         *)
(* A thread is a goroutine that may run one call at a time. Clients run    *)
(* requests; Callbacks run what the daemon itself starts. Capture is       *)
(* on-demand (SetAudioLifecycle), the daemon's default.                    *)
(***************************************************************************)
EXTENDS Naturals

CONSTANTS Clients,      \* goroutines of control connections and the mute watcher
          Callbacks,    \* goroutines of timers, panel watchers and capture hooks
          NoThread,     \* the holder of a free lock
          GraceExpires, \* whether a signalled panel may outlive Kill's grace period
          MaxEpoch      \* BOUND: no request opens a session from this epoch on

Threads == Clients \union Callbacks

ASSUME SessionAssumption ==
    /\ NoThread \notin Threads
    /\ Clients \intersect Callbacks = {}
    /\ GraceExpires \in BOOLEAN
    /\ MaxEpoch \in Nat

VARIABLES mode,      \* s.mode; s.open is "mode # none": every section assigns both
          epoch,     \* s.epoch
          idleTimer, \* s.idleTimer: the epoch it was armed for (0: nil) and whether it is running
          capture,   \* the audio monitor's capture: on or off
          audioMu,   \* holder of s.audioMu
          want,      \* what the holder of audioMu read: capture to be on or off
          panel,     \* p.cmd and the life of the panel process
          marks,     \* "stopped": p.stopped; "leaving": the panel process was
                     \* signalled, or told that the session closed
          killers,   \* threads in Kill whose exitCh is the current panel's
          pc,        \* where each thread is
          frame      \* the locals of the call each thread runs

vars == <<mode, epoch, idleTimer, capture, audioMu, want,
          panel, marks, killers, pc, frame>>

sessionVars == <<mode, epoch, idleTimer>>
audioVars   == <<capture, audioMu, want>>
panelVars   == <<panel, marks, killers>>

Modes == {"type", "clip"}

open == mode # "none"
OnOff == {"on", "off"}

PCs == {"idle", "close", "flush", "closeSync", "closeSynced", "kill", "killWait",
        "closePublish", "open", "vad", "openSync", "openSynced", "spawn",
        "openPublish", "arm", "rollback", "rollbackSync", "rollbackSynced",
        "clip", "idleCheck", "lostCheck"}

\* target: the mode to open (after a close: what Toggle opens next);
\* prev: the mode close found; ep: the epoch of the call's session;
\* ends: which modes the caller means to close.
Frame == [target : Modes \union {"none"}, prev : Modes \union {"none"},
          ep : Nat, ends : {"any", "type"}]
NoFrame == [target |-> "none", prev |-> "none", ep |-> 0, ends |-> "any"]
TypeOnly == [NoFrame EXCEPT !.ends = "type"]

NoTimer == [ep |-> 0, state |-> "stopped"]

\* Every variable has its type, and a thread about to run open_ knows which mode it opens.
TypeOK ==
    /\ mode \in Modes \union {"none"}
    /\ epoch \in Nat
    /\ idleTimer \in [ep : Nat, state : {"running", "stopped"}]
    /\ capture \in OnOff
    /\ audioMu \in Threads \union {NoThread}
    /\ want \in OnOff
    /\ panel \in {"none", "starting", "up", "exited"}
    /\ marks \in SUBSET {"stopped", "leaving"}
    /\ killers \in SUBSET Threads
    /\ pc \in [Threads -> PCs]
    /\ frame \in [Threads -> Frame]
    /\ \A t \in Threads : pc[t] = "open" => frame[t].target # "none"

Init ==
    /\ mode = "none"
    /\ epoch = 0
    /\ idleTimer = NoTimer
    /\ capture = "off"
    /\ audioMu = NoThread
    /\ want = "off"
    /\ panel = "none"
    /\ marks = {}
    /\ killers = {}
    /\ pc = [t \in Threads |-> "idle"]
    /\ frame = [t \in Threads |-> NoFrame]

-----------------------------------------------------------------------------
(* Control flow of a thread.                                               *)

Goto(t, label) == pc' = [pc EXCEPT ![t] = label]

Begin(t, label, f) ==
    /\ pc[t] = "idle"
    /\ Goto(t, label)
    /\ frame' = [frame EXCEPT ![t] = f]

Return(t) ==
    /\ Goto(t, "idle")
    /\ frame' = [frame EXCEPT ![t] = NoFrame]

\* close returned: Toggle's mode switch goes on to open_, every other caller returns.
CloseReturn(t) ==
    IF frame[t].target = "none"
    THEN Return(t)
    ELSE Goto(t, "open") /\ UNCHANGED frame

-----------------------------------------------------------------------------
(* The calls. A call that its first check turns into a no-op leaves every  *)
(* variable alone and is not a step: a Toggle inside the debounce window,  *)
(* EnsureTypeOpen on an open session, and so on.                           *)

\* Toggle closes a session of the same mode; otherwise it closes any other
\* session and opens the requested mode.
Toggle(t, m) ==
    /\ \/ /\ open /\ mode = m
          /\ Begin(t, "close", NoFrame)
       \/ /\ open /\ mode # m /\ epoch < MaxEpoch
          /\ Begin(t, "close", [NoFrame EXCEPT !.target = m])
       \/ /\ ~open /\ epoch < MaxEpoch
          /\ Begin(t, "open", [NoFrame EXCEPT !.target = m])
    /\ UNCHANGED <<sessionVars, audioVars, panelVars>>

\* The unmute hook opens type-mode when nothing is open.
EnsureTypeOpen(t) ==
    /\ ~open
    /\ epoch < MaxEpoch
    /\ Begin(t, "open", [NoFrame EXCEPT !.target = "type"])
    /\ UNCHANGED <<sessionVars, audioVars, panelVars>>

\* The mute hook closes an open type-mode session.
CloseIfTypeOpen(t) ==
    /\ open /\ mode = "type"
    /\ Begin(t, "close", TypeOnly)
    /\ UNCHANGED <<sessionVars, audioVars, panelVars>>

\* Commit runs the clipper before it closes, Cancel closes at once.
Commit(t) ==
    /\ open /\ mode = "clip"
    /\ Begin(t, "clip", NoFrame)
    /\ UNCHANGED <<sessionVars, audioVars, panelVars>>

Clip(t) ==
    /\ pc[t] = "clip"
    /\ Goto(t, "close")
    /\ UNCHANGED <<sessionVars, audioVars, panelVars, frame>>

Cancel(t) ==
    /\ open /\ mode = "clip"
    /\ Begin(t, "close", NoFrame)
    /\ UNCHANGED <<sessionVars, audioVars, panelVars>>

\* The daemon on its way out closes what is open; the rest of the call, the end of
\* the type worker, is in TypePipeline.
Shutdown(t) ==
    /\ open
    /\ Begin(t, "close", NoFrame)
    /\ UNCHANGED <<sessionVars, audioVars, panelVars>>

\* The capture stall hook checks the session, then leaves the close to a goroutine.
OnCaptureLost(t) ==
    /\ capture = "on"
    /\ open /\ mode = "type"
    /\ Begin(t, "lostCheck", TypeOnly)
    /\ UNCHANGED <<sessionVars, audioVars, panelVars>>

CloseTypeIfOpen(t) ==
    /\ pc[t] = "lostCheck"
    /\ IF open /\ mode = "type"
       THEN Goto(t, "close") /\ UNCHANGED frame
       ELSE Return(t)
    /\ UNCHANGED <<sessionVars, audioVars, panelVars>>

\* The timer fires: from here on, stopping it no longer stops onIdle.
IdleFires(t) ==
    /\ idleTimer.state = "running"
    /\ Begin(t, "idleCheck", [NoFrame EXCEPT !.ep = idleTimer.ep])
    /\ idleTimer' = [idleTimer EXCEPT !.state = "stopped"]
    /\ UNCHANGED <<mode, epoch, audioVars, panelVars>>

\* Fault: onIdle takes its own session for a stale one.
OnIdleStaleOwn(t) ==
    /\ pc[t] = "idleCheck"
    /\ IF open /\ mode = "type" /\ epoch # frame[t].ep
       THEN Goto(t, "close") /\ UNCHANGED frame
       ELSE Return(t)
    /\ UNCHANGED <<sessionVars, audioVars, panelVars>>

OnIdle(t) ==
    /\ pc[t] = "idleCheck"
    /\ IF open /\ mode = "type" /\ epoch = frame[t].ep
       THEN Goto(t, "close") /\ UNCHANGED frame
       ELSE Return(t)
    /\ UNCHANGED <<sessionVars, audioVars, panelVars>>

\* Reset restarts a timer that already fired; on a running one it only
\* moves the deadline, which is not a step.
NoteSpeech ==
    /\ capture = "on"
    /\ open /\ mode = "type" /\ idleTimer.ep # 0
    /\ idleTimer' = [idleTimer EXCEPT !.state = "running"]
    /\ UNCHANGED <<mode, epoch, audioVars, panelVars, pc, frame>>

-----------------------------------------------------------------------------
(* syncAudio, from each of its three callers.                              *)

SyncAt(label) ==
    CASE label = "closeSync" -> "closeSynced"
      [] label = "openSync" -> "openSynced"
      [] label = "rollbackSync" -> "rollbackSynced"

\* Fault: the direction comes from the caller, not from the session.
SyncReadDirection(t) ==
    /\ pc[t] \in {"closeSync", "openSync", "rollbackSync"}
    /\ audioMu = NoThread
    /\ audioMu' = t
    /\ want' = IF pc[t] = "openSync" THEN "on" ELSE "off"
    /\ Goto(t, SyncAt(pc[t]))
    /\ UNCHANGED <<sessionVars, capture, panelVars, frame>>

\* audioMu is taken and the open flag read under mu.
SyncRead(t) ==
    /\ pc[t] \in {"closeSync", "openSync", "rollbackSync"}
    /\ audioMu = NoThread
    /\ audioMu' = t
    /\ want' = IF open THEN "on" ELSE "off"
    /\ Goto(t, SyncAt(pc[t]))
    /\ UNCHANGED <<sessionVars, capture, panelVars, frame>>

\* The start or stop took effect, or the start failed; Start on running
\* capture is a no-op, so only a stopped capture can fail to start.
SyncTo(t, result) ==
    /\ audioMu = t
    /\ \/ result = want
       \/ result = "off" /\ capture = "off"
    /\ capture' = result
    /\ audioMu' = NoThread
    /\ UNCHANGED want

-----------------------------------------------------------------------------
(* close.                                                                  *)

CloseBegin(t) ==
    /\ pc[t] = "close"
    /\ IF open
       THEN /\ Goto(t, "flush")
            /\ frame' = [frame EXCEPT ![t].prev = mode]
       ELSE CloseReturn(t)
    /\ UNCHANGED <<sessionVars, audioVars, panelVars>>

\* disarmIdle, under mu with its caller.
DisarmIdle == idleTimer' = NoTimer

\* After the flush: back to closed, without looking at the session again.
CloseFlip(t) ==
    /\ pc[t] = "flush"
    /\ mode' = "none"
    /\ DisarmIdle
    /\ Goto(t, "closeSync")
    /\ UNCHANGED <<epoch, audioVars, panelVars, frame>>

CloseSynced(t) ==
    /\ pc[t] = "closeSynced"
    /\ \E result \in OnOff : SyncTo(t, result)
    /\ Goto(t, IF frame[t].prev = "clip" THEN "kill" ELSE "closePublish")
    /\ UNCHANGED <<sessionVars, panelVars, frame>>

\* Kill marks the controller stopped and signals whatever panel is current.
Kill(t) ==
    /\ pc[t] = "kill"
    /\ IF panel = "none"
       THEN /\ Goto(t, "closePublish")
            /\ marks' = marks \union {"stopped"}
            /\ UNCHANGED killers
       ELSE /\ Goto(t, "killWait")
            /\ marks' = {"stopped", "leaving"}
            /\ killers' = killers \union {t}
    /\ UNCHANGED <<sessionVars, audioVars, panel, frame>>

\* exitCh closed, or the grace period ran out with the panel still there.
KillReturn(t) ==
    /\ pc[t] = "killWait"
    /\ t \notin killers \/ GraceExpires
    /\ killers' = killers \ {t}
    /\ Goto(t, "closePublish")
    /\ UNCHANGED <<sessionVars, audioVars, panel, marks, frame>>

\* session_state reaches the panel if it has subscribed; on open=false it leaves.
ClosePublish(t) ==
    /\ pc[t] = "closePublish"
    /\ marks' = IF panel = "up" THEN marks \union {"leaving"} ELSE marks
    /\ CloseReturn(t)
    /\ UNCHANGED <<sessionVars, audioVars, panel, killers>>

-----------------------------------------------------------------------------
(* open_.                                                                  *)

\* Fault: the epoch is not bumped, so a stale utterance passes for a live one.
OpenBeginSameEpoch(t) ==
    /\ pc[t] = "open"
    /\ IF open /\ mode = frame[t].target
       THEN Return(t) /\ UNCHANGED mode
       ELSE /\ mode' = frame[t].target
            /\ frame' = [frame EXCEPT ![t].ep = epoch]
            /\ Goto(t, "vad")
    /\ UNCHANGED <<epoch, idleTimer, audioVars, panelVars>>

OpenBegin(t) ==
    /\ pc[t] = "open"
    /\ IF open /\ mode = frame[t].target
       THEN Return(t) /\ UNCHANGED <<mode, epoch>>
       ELSE /\ epoch' = epoch + 1
            /\ mode' = frame[t].target
            /\ frame' = [frame EXCEPT ![t].ep = epoch + 1]
            /\ Goto(t, "vad")
    /\ UNCHANGED <<idleTimer, audioVars, panelVars>>

ResetVAD(t) ==
    /\ pc[t] = "vad"
    /\ Goto(t, "openSync")
    /\ UNCHANGED <<sessionVars, audioVars, panelVars, frame>>

OpenSynced(t) ==
    /\ pc[t] = "openSynced"
    /\ \E result \in OnOff :
          /\ SyncTo(t, result)
          /\ \/ result # want /\ Goto(t, "rollback")
             \/ /\ result = want
                /\ Goto(t, IF frame[t].target = "clip" THEN "spawn" ELSE "openPublish")
    /\ UNCHANGED <<sessionVars, panelVars, frame>>

\* Spawn refuses while a panel is registered; the process may fail to start.
Spawn(t) ==
    /\ pc[t] = "spawn"
    /\ \/ /\ panel # "none"
          /\ Goto(t, "rollback")
          /\ UNCHANGED panelVars
       \/ /\ panel = "none"
          /\ marks' = {}
          /\ \/ Goto(t, "rollback") /\ UNCHANGED panel
             \/ Goto(t, "openPublish") /\ panel' = "starting"
          /\ UNCHANGED killers
    /\ UNCHANGED <<sessionVars, audioVars, frame>>

\* Fault: a type-mode open returns without arming its timer.
OpenPublishUnarmed(t) ==
    /\ pc[t] = "openPublish"
    /\ Return(t)
    /\ UNCHANGED <<sessionVars, audioVars, panelVars>>

\* publishState(open), then the cue, which may take a second.
OpenPublish(t) ==
    /\ pc[t] = "openPublish"
    /\ IF frame[t].target = "type"
       THEN Goto(t, "arm") /\ UNCHANGED frame
       ELSE Return(t)
    /\ UNCHANGED <<sessionVars, audioVars, panelVars>>

ArmIdle(t) ==
    /\ pc[t] = "arm"
    /\ idleTimer' = [ep |-> frame[t].ep, state |-> "running"]
    /\ Return(t)
    /\ UNCHANGED <<mode, epoch, audioVars, panelVars>>

RollbackOpen(t) ==
    /\ pc[t] = "rollback"
    /\ epoch' = epoch + 1
    /\ mode' = "none"
    /\ DisarmIdle
    /\ Goto(t, "rollbackSync")
    /\ UNCHANGED <<audioVars, panelVars, frame>>

RollbackSynced(t) ==
    /\ pc[t] = "rollbackSynced"
    /\ \E result \in OnOff : SyncTo(t, result)
    /\ Return(t)
    /\ UNCHANGED <<sessionVars, panelVars>>

-----------------------------------------------------------------------------
(* The panel process and the goroutine that waits for it.                  *)

PanelSubscribes ==
    /\ panel = "starting"
    /\ panel' = "up"
    /\ UNCHANGED <<sessionVars, audioVars, marks, killers, pc, frame>>

\* The panel may leave at any time: Enter, Esc, the window's close button, a crash.
PanelExits ==
    /\ panel \in {"starting", "up"}
    /\ panel' = "exited"
    /\ UNCHANGED <<sessionVars, audioVars, marks, killers, pc, frame>>

PanelLeaves == "leaving" \in marks /\ PanelExits

\* Fault: the exit watcher frees the controller and forgets to close exitCh.
PanelReapedSilently(t) ==
    /\ panel = "exited"
    /\ panel' = "none"
    /\ marks' = marks \ {"leaving"}
    /\ IF "stopped" \in marks
       THEN UNCHANGED <<pc, frame>>
       ELSE Begin(t, "close", NoFrame)
    /\ UNCHANGED <<sessionVars, audioVars, killers>>

\* cmd.Wait returned: the controller is freed and exitCh closed; without a
\* Kill the exit hook closes the session, on goroutine t.
PanelReaped(t) ==
    /\ panel = "exited"
    /\ panel' = "none"
    /\ marks' = marks \ {"leaving"}
    /\ killers' = {}
    /\ IF "stopped" \in marks
       THEN UNCHANGED <<pc, frame>>
       ELSE Begin(t, "close", NoFrame)
    /\ UNCHANGED <<sessionVars, audioVars>>

-----------------------------------------------------------------------------

Request(t) ==
    \/ \E m \in Modes : Toggle(t, m)
    \/ EnsureTypeOpen(t)
    \/ CloseIfTypeOpen(t)
    \/ Commit(t)
    \/ Cancel(t)
    \/ Shutdown(t)

\* One step of the call a thread is in.
Step(t) ==
    \/ Clip(t) \/ CloseTypeIfOpen(t) \/ OnIdle(t) \/ SyncRead(t)
    \/ CloseBegin(t) \/ CloseFlip(t) \/ CloseSynced(t)
    \/ Kill(t) \/ KillReturn(t) \/ ClosePublish(t)
    \/ OpenBegin(t) \/ ResetVAD(t) \/ OpenSynced(t) \/ Spawn(t)
    \/ OpenPublish(t) \/ ArmIdle(t) \/ RollbackOpen(t) \/ RollbackSynced(t)

Next ==
    \/ \E t \in Clients : Request(t)
    \/ \E t \in Callbacks : OnCaptureLost(t) \/ IdleFires(t) \/ PanelReaped(t)
    \/ \E t \in Threads : Step(t)
    \/ NoteSpeech
    \/ PanelSubscribes
    \/ PanelExits

Spec == Init /\ [][Next]_vars

(***************************************************************************)
(* Fairness. Every goroutine keeps running; a signalled panel exits (its   *)
(* WaitDelay upgrades to SIGKILL) and one told of the close leaves; a      *)
(* running timer fires, unless it is restarted or stopped for good. No     *)
(* request, stall, voluntary exit of a panel or speech is ever promised.   *)
(***************************************************************************)
FairSpec ==
    /\ Spec
    /\ \A t \in Threads : WF_vars(Step(t))
    /\ WF_vars(PanelLeaves)
    /\ WF_vars(\E t \in Callbacks : PanelReaped(t))
    /\ WF_vars(\E t \in Callbacks : IdleFires(t))

-----------------------------------------------------------------------------
(* Properties.                                                             *)

\* Threads that hold audioMu.
Synced == {"closeSynced", "openSynced", "rollbackSynced"}

\* Threads that will still read the open flag and act on capture.
Syncing == {"closeSync", "vad", "openSync", "rollback", "rollbackSync"}

\* Capture is on exactly when a session is open, whenever no thread is on its
\* way through syncAudio: whatever order overlapping opens, closes and failed
\* opens run in, the last one to sync sees the final state (session.go:229).
CaptureFollowsSession ==
    (audioMu = NoThread /\ \A t \in Threads : pc[t] \notin Syncing) => (capture = "on" <=> open)

\* The threads that will turn a stopped capture on for an open session, or
\* roll that session back.
Starting == {"vad", "openSync", "rollback"}

\* The inductive form of CaptureFollowsSession: a difference between capture
\* and session always has a thread that will repair it, and a stale reading
\* held under audioMu always has one waiting behind it (session.go:229).
CaptureInv ==
    /\ \A t \in Threads : pc[t] \in Synced <=> audioMu = t
    /\ audioMu = NoThread =>
          /\ open /\ capture = "off" => \E t \in Threads : pc[t] \in Starting
          /\ ~open /\ capture = "on" => \E t \in Threads : pc[t] \in Syncing
    /\ audioMu # NoThread =>
          /\ open /\ want = "off" => \E t \in Threads : pc[t] \in Starting
          /\ ~open /\ want = "on" => \E t \in Threads : pc[t] \in Syncing
          /\ open /\ want = "on" /\ capture = "off" /\ pc[audioMu] # "openSynced" =>
                \E t \in Threads : pc[t] \in Starting

\* A request or callback always returns: nothing waits for ever on audioMu, on
\* a panel that was killed, or on a panel that another thread reaped first.
EveryCallReturns == \A t \in Threads : pc[t] # "idle" ~> pc[t] = "idle"

\* The deadline of an open type-mode session stands: its own timer runs, or a
\* goroutine is already on its way to close it (session.go:345, 354, 369).
IdleDeadlineStands ==
    (open /\ mode = "type" /\ \A t \in Clients : pc[t] \in {"idle", "clip"}) =>
        \/ idleTimer = [ep |-> epoch, state |-> "running"]
        \/ \E t \in Callbacks :
              \/ pc[t] = "idleCheck" /\ frame[t].ep = epoch
              \/ pc[t] \in {"close", "flush"}

\* A type-mode session that hears nothing closes by itself (D12).
TypeSessionCloses == (open /\ mode = "type") ~> (~open \/ mode # "type")

\* The session writes its mode and epoch as SessionEpochs says: whatever the
\* threads do, a session never gets a mode without an epoch of its own, and
\* closing keeps the epoch (session.go:499-616).
Epochs == INSTANCE SessionEpochs
ImplementsEpochs == Epochs!EpochSpec

-----------------------------------------------------------------------------
(* What the code and its documents say, and overlapping calls break.       *)

Flips(t) == pc[t] = "flush" /\ pc'[t] = "closeSync"

\* "It closes the session only if the session that armed the timer is still the
\* open one" (session.go:365): what onIdle's close ends is the timer's session.
IdleClosesOwnSession ==
    [][\A t \in Threads : Flips(t) /\ frame[t].ep # 0 /\ open => epoch = frame[t].ep]_vars

\* "Clip-mode is never touched" by the mute and capture-lost closes
\* (session.go:475).
ClipUntouchedByMute ==
    [][\A t \in Threads : Flips(t) /\ frame[t].ends = "type" => mode # "clip"]_vars

\* D6: activating one mode while the other is active first closes the active
\* mode, so an open session never changes its mode.
ModeSwitchCloses == [][open /\ open' => mode' = mode]_vars

\* "Reset VAD calibration before on-demand capture starts, so the reset cannot
\* race a running audio loop" (session.go:511).
VADResetIsAlone ==
    [][\A t \in Threads : pc[t] = "vad" /\ pc'[t] = "openSync" => capture = "off"]_vars

\* The exit hook closes the session "so state stays in sync" with the panel
\* (session.go:193): an open clip session at rest has a panel to end it with.
ClipHasPanel ==
    (open /\ mode = "clip" /\ \A t \in Threads : pc[t] = "idle") => panel # "none"

\* session_state with open=false means "the daemon has decided the session is
\* over" (dicta-preview/main.go:270): no panel of an open clip session hears it.
ToldClosedMeansClosed ==
    [][\A t \in Threads :
         pc[t] = "closePublish" /\ pc'[t] # "closePublish" /\ panel = "up" =>
            ~(open /\ mode = "clip")]_vars

\* rollbackOpen undoes the open_ that failed (session.go:553), not a session
\* another thread opened since.
RollbackUndoesOwnOpen ==
    [][\A t \in Threads :
         pc[t] = "rollback" /\ pc'[t] = "rollbackSync" /\ open => epoch = frame[t].ep]_vars

=============================================================================
