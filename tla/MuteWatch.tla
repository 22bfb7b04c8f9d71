----------------------------- MODULE MuteWatch -----------------------------
(***************************************************************************)
(* Unmute-to-dictate (cmd/dictad/mutewatch.go): the mute source, the       *)
(* debouncing watcher, Suspend and Resume, and the capture stall that      *)
(* stands the watcher down, with the session the watcher opens and closes. *)
(*                                                                         *)
(* Five goroutines meet here: the watcher's Run, the audio loop, a control *)
(* connection, the goroutine OnCaptureLost starts, and the poller of the   *)
(* pipewire source. Durations are left out: a timer that runs may expire   *)
(* at any moment. Session models what the toggler's calls do inside.       *)
(***************************************************************************)
EXTENDS Naturals, Sequences, MuteEvents

CONSTANTS Setups,     \* the daemon's configurations
          NudgeCap,   \* capacity of devCh (8 in the code)
          MaxPresses, \* BOUND: presses of the microphone's mute button
          MaxLosses   \* BOUND: times the device goes away

\* The source "pcm-zero" reads the audio frames, "pipewire" polls wpctl;
\* capture runs always or with a session; threshold fires within the flap
\* window do not yet suspend, 0 turns that guard off.
ASSUME MuteAssumption ==
    /\ Setups \subseteq [source : {"pcm-zero", "pipewire"},
                         capture : {"continuous", "on-demand"}, threshold : Nat]
    /\ \A c \in Setups : c.source = "pcm-zero" => c.capture = "continuous"   \* buildMuteSource
    /\ NudgeCap \in Nat \ {0}
    /\ MaxPresses \in Nat /\ MaxLosses \in Nat

VARIABLES setup,     \* the configuration, read once at startup
          button,    \* the state of the microphone
          presses,   \* times the button was pressed
          device,    \* present or gone
          losses,    \* times it went away
          seen,      \* the source's last observation, "closed" once its channel is
          events,    \* the source's channel, of capacity one
          audio,     \* the audio loop: idle in its select, or in the stall hook
          stalled,   \* the loop's stalled flag
          frames,    \* whether this loop has seen a frame since it started or stalled
          absent,    \* w.absent
          nudges,    \* w.devCh
          at,        \* where Run is
          last,      \* Run's lastState; "unseeded" before the first event
          pending,   \* the state its debounce timer runs for, and losses when it was armed
          firing,    \* the state fire was called with
          suspended, \* w.suspended with its reason
          fires,     \* w.fireTimes: how many
          actMu,     \* holder of w.actMu
          session,   \* none, clip, or type opened by "mute" or by the "user"
          closer     \* the goroutine of OnCaptureLost

vars == <<setup, button, presses, device, losses, seen, events, audio, stalled, frames, absent,
          nudges, at, last, pending, firing, suspended, fires, actMu, session, closer>>

micVars    == <<setup, button, presses, device, losses>>
sourceVars == <<seen, events>>
audioVars  == <<audio, stalled, frames>>
runVars    == <<at, last, pending, firing>>
suspendVars == <<suspended, fires, actMu>>

None == [state |-> "none", losses |-> 0]

TypeOK ==
    /\ setup \in Setups
    /\ button \in States
    /\ presses \in 0..MaxPresses
    /\ device \in {"present", "gone"}
    /\ losses \in 0..MaxLosses
    /\ seen \in States \union {"unset", "closed"}
    /\ events \in Seq(Event) /\ Len(events) <= 1
    /\ audio \in {"loop", "hook"}
    /\ stalled \in {"yes", "no"} /\ frames \in {"flowing", "none"}
    /\ absent \in {"yes", "no"}
    /\ nudges \in Seq({"lost", "restored"}) /\ Len(nudges) <= NudgeCap
    /\ at \in {"select", "fire", "act", "record", "flapped", "ended"}
    /\ last \in States \union {"unseeded"}
    /\ pending \in [state : States \union {"none"}, losses : 0..MaxLosses]
    /\ firing \in States \union {"none"}
    /\ suspended \in {"no", "manual", "flapping"}
    /\ fires \in 0..setup.threshold
    /\ actMu \in {"free", "run", "suspend"}
    /\ session \in {"none", "clip", "mute", "user"}
    /\ closer \in {"idle", "closing"}

Init ==
    /\ setup \in Setups
    /\ button \in States
    /\ presses = 0
    /\ device = "present"
    /\ losses = 0
    /\ seen = "unset"
    /\ events = <<>>
    /\ audio = "loop"
    /\ stalled = "no" /\ frames = "none"
    /\ absent = "no"
    /\ nudges = <<>>
    /\ at = "select"
    /\ last = "unseeded"
    /\ pending = None
    /\ firing = "none"
    /\ suspended = "no"
    /\ fires = 0
    /\ actMu = "free"
    /\ session = "none"
    /\ closer = "idle"

-----------------------------------------------------------------------------
(* The session, and the capture that follows it.                           *)

\* The audio loop runs: always, or while a session is open.
Capturing == setup.capture = "continuous" \/ session # "none"

\* audioMonitor.Stop ends the loop; the next one starts with flags of its own.
CaptureStops ==
    IF setup.capture = "on-demand"
    THEN audio' = "loop" /\ stalled' = "no" /\ frames' = "none"
    ELSE UNCHANGED audioVars

CloseIfTypeOpen ==
    IF session \in {"mute", "user"}
    THEN session' = "none" /\ CaptureStops
    ELSE UNCHANGED <<session, audioVars>>

\* The open may fail, and leaves a session of any mode alone.
EnsureTypeOpen ==
    /\ session' \in IF session = "none" THEN {"none", "mute"} ELSE {session}
    /\ UNCHANGED audioVars

\* Everything else that opens or closes a session: hotkeys, panel, idle timer.
UserOpens ==
    /\ session = "none"
    /\ session' \in {"user", "clip"}
    /\ UNCHANGED <<micVars, sourceVars, audioVars, absent, nudges, runVars, suspendVars, closer>>

UserCloses ==
    /\ session # "none"
    /\ audio = "loop"
    /\ session' = "none"
    /\ CaptureStops
    /\ UNCHANGED <<micVars, sourceVars, absent, nudges, runVars, suspendVars, closer>>

-----------------------------------------------------------------------------
(* The microphone and the source that watches it.                          *)

PressButton ==
    /\ presses < MaxPresses
    /\ presses' = presses + 1
    /\ button' \in States \ {button}
    /\ UNCHANGED <<setup, device, losses, sourceVars, audioVars, absent, nudges, runVars,
                   suspendVars, session, closer>>

Unplug ==
    /\ device = "present" /\ losses < MaxLosses
    /\ device' = "gone"
    /\ losses' = losses + 1
    /\ UNCHANGED <<setup, button, presses, sourceVars, audioVars, absent, nudges, runVars,
                   suspendVars, session, closer>>

\* The device comes back in the state it powers up in.
Plug ==
    /\ device = "gone"
    /\ device' = "present"
    /\ button' \in States
    /\ UNCHANGED <<setup, presses, losses, sourceVars, audioVars, absent, nudges, runVars,
                   suspendVars, session, closer>>

\* Fault: a full channel keeps the older event.
ObserveDropNewest ==
    /\ seen' = button
    /\ events' = IF button = seen \/ events # <<>> THEN events
                 ELSE <<[state |-> button, initial |-> seen = "unset"]>>

\* An observation: the first one is Initial, a repeated one is filtered, and a
\* new one displaces the event the watcher has not taken yet.
Observe ==
    /\ seen' = button
    /\ events' = IF button = seen THEN events
                 ELSE <<[state |-> button, initial |-> seen = "unset"]>>

\* A frame on running capture; pcm-zero looks at it.
Frame ==
    /\ Capturing /\ device = "present"
    /\ audio = "loop" /\ stalled = "no"
    /\ frames' = "flowing"
    /\ IF setup.source = "pcm-zero" THEN Observe ELSE UNCHANGED sourceVars
    /\ UNCHANGED <<micVars, audio, stalled, absent, nudges, runVars, suspendVars, session, closer>>

\* The pipewire source polls, whether capture runs or not; the id of a device
\* that is gone may still answer.
Poll ==
    /\ setup.source = "pipewire" /\ seen # "closed"
    /\ Observe
    /\ UNCHANGED <<micVars, audioVars, absent, nudges, runVars, suspendVars, session, closer>>

\* wpctl fails, for a device that is gone or for any other reason: the source
\* closes its channel for good. What it still holds is delivered.
PollFails ==
    /\ setup.source = "pipewire" /\ seen # "closed"
    /\ seen' = "closed"
    /\ UNCHANGED <<events, micVars, audioVars, absent, nudges, runVars, suspendVars, session, closer>>

-----------------------------------------------------------------------------
(* Loss and return of the device, on the audio goroutine.                  *)

\* signalDevice: a full devCh drops the nudge.
Nudge(n) == nudges' = IF Len(nudges) < NudgeCap THEN Append(nudges, n) ELSE nudges

\* The stall timer: reseed, then DeviceLost ...
DeviceLost ==
    /\ Capturing /\ device = "gone"
    /\ audio = "loop" /\ stalled = "no"
    /\ stalled' = "yes" /\ frames' = "none"
    /\ audio' = "hook"
    /\ seen' = IF setup.source = "pcm-zero" THEN "unset" ELSE seen
    /\ absent' = "yes"
    /\ Nudge("lost")
    /\ UNCHANGED <<micVars, events, runVars, suspendVars, session, closer>>

\* ... then the session's OnCaptureLost, which leaves the close to a goroutine.
OnCaptureLost ==
    /\ audio = "hook"
    /\ audio' = "loop"
    /\ closer' = IF session \in {"mute", "user"} THEN "closing" ELSE closer
    /\ UNCHANGED <<micVars, sourceVars, stalled, frames, absent, nudges, runVars, suspendVars, session>>

CaptureLostCloses ==
    /\ closer = "closing" /\ audio = "loop"
    /\ closer' = "idle"
    /\ CloseIfTypeOpen
    /\ UNCHANGED <<micVars, sourceVars, absent, nudges, runVars, suspendVars>>

\* The first frame after a stall, before anything looks at it.
DeviceRestored ==
    /\ Capturing /\ device = "present"
    /\ audio = "loop" /\ stalled = "yes"
    /\ stalled' = "no"
    /\ absent' = "no"
    /\ Nudge("restored")
    /\ UNCHANGED <<micVars, sourceVars, audio, frames, runVars, suspendVars, session, closer>>

-----------------------------------------------------------------------------
(* muteWatcher.Run.                                                        *)

StopTimer == pending' = None

\* A device nudge: the lost ones drop what is pending.
TakeNudge ==
    /\ at = "select" /\ nudges # <<>>
    /\ nudges' = Tail(nudges)
    /\ IF Head(nudges) = "lost" THEN StopTimer ELSE UNCHANGED pending
    /\ UNCHANGED <<micVars, sourceVars, audioVars, absent, at, last, firing, suspendVars,
                   session, closer>>

\* Fault: while suspended the watcher forgets what it is told.
TakeEventDeaf ==
    /\ at = "select" /\ events # <<>>
    /\ events' = <<>>
    /\ LET ev == Head(events) IN
       \/ /\ ev.initial \/ last = "unseeded"
          /\ last' = ev.state /\ StopTimer
       \/ /\ ~ev.initial /\ last # "unseeded"
          /\ suspended # "no" \/ absent = "yes"
          /\ StopTimer /\ UNCHANGED last
       \/ /\ ~ev.initial /\ last # "unseeded"
          /\ suspended = "no" /\ absent = "no"
          /\ pending' = IF ev.state = last THEN None
                        ELSE [state |-> ev.state, losses |-> losses]
          /\ UNCHANGED last
    /\ UNCHANGED <<seen, micVars, audioVars, absent, nudges, at, firing, suspendVars, session, closer>>

\* An event seeds, is tracked only, cancels the pending one, or arms the timer.
TakeEvent ==
    /\ at = "select" /\ events # <<>>
    /\ events' = <<>>
    /\ LET ev == Head(events) IN
       \/ /\ ev.initial
          /\ last' = ev.state /\ StopTimer
       \/ /\ ~ev.initial /\ last = "unseeded"
          /\ last' = ev.state /\ UNCHANGED pending
       \/ /\ ~ev.initial /\ last # "unseeded"
          /\ suspended # "no" \/ absent = "yes"
          /\ last' = ev.state /\ StopTimer
       \/ /\ ~ev.initial /\ last # "unseeded"
          /\ suspended = "no" /\ absent = "no"
          /\ UNCHANGED last
          /\ IF ev.state = last THEN StopTimer
             ELSE IF pending.state = ev.state THEN UNCHANGED pending
             ELSE pending' = [state |-> ev.state, losses |-> losses]
    /\ UNCHANGED <<seen, micVars, audioVars, absent, nudges, at, firing, suspendVars, session, closer>>

\* The source closed its channel: the watcher is gone for good.
RunEnds ==
    /\ at = "select" /\ events = <<>> /\ seen = "closed"
    /\ at' = "ended"
    /\ StopTimer
    /\ UNCHANGED <<micVars, sourceVars, audioVars, absent, nudges, last, firing, suspendVars,
                   session, closer>>

\* The debounce timer expires: fire is called.
DebounceElapses ==
    /\ at = "select" /\ pending.state # "none"
    /\ firing' = pending.state
    /\ StopTimer
    /\ at' = "fire"
    /\ UNCHANGED <<micVars, sourceVars, audioVars, absent, nudges, last, suspendVars, session, closer>>

BackToSelect == at' = "select" /\ firing' = "none"

\* Fault: fire checks for suspension before it takes actMu.
FireChecksUnlocked ==
    /\ at = "fire"
    /\ IF suspended # "no" \/ absent = "yes"
       THEN BackToSelect /\ UNCHANGED <<last, actMu>>
       ELSE last' = firing /\ at' = "act" /\ UNCHANGED <<firing, actMu>>
    /\ UNCHANGED <<pending, suspended, fires, micVars, sourceVars, audioVars, absent, nudges,
                   session, closer>>

\* Under actMu fire checks that the watcher is neither suspended nor stood down.
FireChecks ==
    /\ at = "fire" /\ actMu = "free"
    /\ \/ /\ suspended # "no"
          /\ last' = firing
          /\ BackToSelect /\ UNCHANGED actMu
       \/ /\ suspended = "no" /\ absent = "yes"
          /\ BackToSelect /\ UNCHANGED <<last, actMu>>
       \/ /\ suspended = "no" /\ absent = "no"
          /\ last' = firing
          /\ actMu' = "run"
          /\ at' = "act" /\ UNCHANGED firing
    /\ UNCHANGED <<pending, suspended, fires, micVars, sourceVars, audioVars, absent, nudges,
                   session, closer>>

\* The toggler call. A stop of capture waits for the audio hook to return.
Act ==
    /\ at = "act" /\ audio = "loop"
    /\ at' = "record"
    /\ IF firing = "muted" THEN CloseIfTypeOpen ELSE EnsureTypeOpen
    /\ UNCHANGED <<micVars, sourceVars, absent, nudges, last, pending, firing, suspendVars, closer>>

\* recordFireAndCheckFlap: some of the earlier fires have left the window.
Record ==
    /\ at = "record"
    /\ \E kept \in 0..fires :
          IF setup.threshold > 0 /\ kept = setup.threshold
          THEN /\ suspended' = "flapping" /\ fires' = 0
               /\ at' = "flapped" /\ UNCHANGED <<firing, actMu>>
          ELSE /\ fires' = IF setup.threshold > 0 THEN kept + 1 ELSE 0
               /\ BackToSelect
               /\ actMu' = "free" /\ UNCHANGED suspended
    /\ UNCHANGED <<last, pending, micVars, sourceVars, audioVars, absent, nudges, session, closer>>

\* closeTypeOnSuspend, from the fire path.
FlapCloses ==
    /\ at = "flapped" /\ audio = "loop"
    /\ CloseIfTypeOpen
    /\ BackToSelect
    /\ actMu' = "free"
    /\ UNCHANGED <<last, pending, suspended, fires, micVars, sourceVars, absent, nudges, closer>>

-----------------------------------------------------------------------------
(* Suspend and Resume, from control connections.                           *)

Suspend ==
    /\ actMu = "free"
    /\ suspended' = "manual"
    /\ actMu' = IF suspended = "no" THEN "suspend" ELSE "free"
    /\ UNCHANGED <<fires, micVars, sourceVars, audioVars, absent, nudges, runVars, session, closer>>

SuspendCloses ==
    /\ actMu = "suspend" /\ audio = "loop"
    /\ CloseIfTypeOpen
    /\ actMu' = "free"
    /\ UNCHANGED <<suspended, fires, micVars, sourceVars, absent, nudges, runVars, closer>>

Resume ==
    /\ suspended' = "no"
    /\ fires' = 0
    /\ UNCHANGED <<actMu, micVars, sourceVars, audioVars, absent, nudges, runVars, session, closer>>

-----------------------------------------------------------------------------

Run == TakeEvent \/ RunEnds \/ DebounceElapses \/ FireChecks \/ Act \/ Record \/ FlapCloses

Next ==
    \/ UserOpens \/ UserCloses
    \/ PressButton \/ Unplug \/ Plug
    \/ Frame \/ Poll \/ PollFails
    \/ DeviceLost \/ OnCaptureLost \/ CaptureLostCloses \/ DeviceRestored
    \/ TakeNudge \/ Run
    \/ Suspend \/ SuspendCloses \/ Resume

Spec == Init /\ [][Next]_vars

(***************************************************************************)
(* Fairness. The goroutines run on, the debounce timer expires, a present  *)
(* device delivers frames and is polled. Go's select picks among its ready *)
(* branches at random, so a branch that stays ready is taken: TakeNudge is *)
(* fair by itself. Nobody has to press, plug, suspend or resume anything.  *)
(***************************************************************************)
FairSpec ==
    /\ Spec
    /\ WF_vars(Run) /\ WF_vars(TakeNudge)
    /\ WF_vars(Frame) /\ WF_vars(Poll)
    /\ WF_vars(OnCaptureLost \/ DeviceRestored) /\ WF_vars(CaptureLostCloses)
    /\ WF_vars(SuspendCloses)

-----------------------------------------------------------------------------
(* Properties.                                                             *)

\* Suspended means off: no session that the watcher opened survives a
\* suspension, manual or by flapping, however it races a fire
\* (mutewatch.go:84, 164).
SuspendedMeansOff == suspended # "no" /\ actMu = "free" => session # "mute"

\* With nothing under way and a device that never went away, the watcher's idea
\* of the microphone is the last observation of a source that lives, whatever was
\* suspended, displaced or cancelled on the way (mutewatch.go:178): a stale one
\* would swallow the next press.
TracksSource ==
    losses = 0 /\ seen # "closed" /\ at = "select" /\ events = <<>> /\ pending = None /\ last # "unseeded" =>
        last = seen

\* absent is "cleared when frames flow again" (mutewatch.go:92): with capture
\* always on, a running microphone is never taken for a missing one.
AbsentMeansNoFrames ==
    setup.capture = "continuous" /\ absent = "yes" => frames = "none"

\* "the source is expected to re-emit an Initial event for the returned device"
\* (mutewatch.go:213): what the watcher missed meanwhile it must not compare
\* the next observation with. pcm-zero is reseeded; pipewire is not.
ReturnReseeds ==
    [][setup.source = "pcm-zero" /\ absent = "yes" /\ absent' = "no" => seen = "unset"]_vars

\* The button that opened a session closes it: muting ends what unmuting
\* started, unless the user unmutes again, the device goes away or a failed poll
\* ends the source (mutewatch.go:36).
MutingCloses ==
    (button = "muted" /\ session = "mute") ~>
        (button = "unmuted" \/ session # "mute" \/ losses > 0 \/ seen = "closed")

-----------------------------------------------------------------------------
(* What the code's comments say, and the code does not do.                 *)

\* "nothing fires until DeviceRestored" (mutewatch.go:196): no session is opened
\* on behalf of a device that is gone.
NothingFiresWhileAbsent == [][session' = "mute" /\ session # "mute" => absent = "no"]_vars

\* The channel of pipewire "is closed when ctx is cancelled or the device
\* disappears" (pipewire/source.go:88), so a microphone that stays keeps its
\* button. One wpctl that fails ends the watcher, and its session stays open.
ButtonStaysAlive ==
    (button = "muted" /\ session = "mute") ~>
        (button = "unmuted" \/ session # "mute" \/ losses > 0)

\* "Device gone: whatever was pending is not a user action any more"
\* (mutewatch.go:376): a nudge drops only what was armed before the loss.
NudgeDropsOnlyOlder ==
    [][nudges' # nudges /\ pending.state # "none" /\ pending'.state = "none" =>
         pending.losses < losses \/ absent = "yes"]_vars

=============================================================================
