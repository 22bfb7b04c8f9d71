----------------------------- MODULE MuteProofs -----------------------------
(***************************************************************************)
(* Unmute-to-dictate, from the sources to the session. The watcher for     *)
(* every set of configurations, any flap threshold and any number of       *)
(* presses and losses: suspended means off, the watcher keeps up with its  *)
(* source, and a device that returns is compared with nothing it was       *)
(* before. The auto source over any number of sources, with any capacity   *)
(* of the merged channel: one source speaks, and nobody sends on a closed  *)
(* channel.                                                                *)
(***************************************************************************)
EXTENDS MuteWatch, AutoSource, TLAPS

-----------------------------------------------------------------------------
(* The watcher.                                                            *)

(***************************************************************************)
(* Suspension: Run holds actMu from its check to the end of what it did,   *)
(* and until the flap guard has spoken it does so unsuspended. A session   *)
(* of the watcher's can be open under a suspension only while actMu is     *)
(* held, by the one who is about to close it.                              *)
(***************************************************************************)
ActInv ==
    /\ actMu \in {"free", "run", "suspend"}
    /\ actMu = "run" <=> at \in {"act", "record", "flapped"}
    /\ at \in {"act", "record"} => suspended = "no"
    /\ SuspendedMeansOff

\* With capture that never stops, the watcher's flag is the loop's, and
\* pcm-zero, which needs such capture, has no history while it is set.
StallInv ==
    /\ setup \in Setups
    /\ absent \in {"yes", "no"} /\ stalled \in {"yes", "no"}
    /\ setup.capture = "continuous" =>
          (absent = "yes" <=> stalled = "yes") /\ (stalled = "yes" => frames = "none")
    /\ setup.source = "pcm-zero" /\ stalled = "yes" => seen = "unset"

(***************************************************************************)
(* As long as the device is there and the source lives, the source's last  *)
(* observation is the newest of what is on its way to lastState: in the    *)
(* channel, under the debounce timer, in fire's hands, or there. Only      *)
(* pipewire closes its channel, and never observes again.                  *)
(***************************************************************************)
PresentInv ==
    /\ seen = "closed" => setup.source = "pipewire"
    /\ losses = 0 => device = "present" /\ absent = "no" /\ stalled = "no" /\ nudges = <<>>

TrackInv ==
    losses = 0 /\ seen # "closed" =>
        /\ seen \in States \union {"unset"} /\ at # "ended"
        /\ at # "select" \/ last = "unseeded" => pending.state = "none"
        /\ events # <<>> => Head(events).state = seen
        /\ events = <<>> =>
              /\ at = "select" /\ pending.state # "none" => pending.state = seen
              /\ at = "select" /\ pending.state = "none" /\ last # "unseeded" => last = seen
              /\ at = "fire" => firing = seen
              /\ at \in {"act", "record", "flapped"} => last = seen

IInv ==
    losses \in Nat /\ button \in States /\ ActInv /\ StallInv /\ PresentInv /\ TrackInv

LEMMA InitIInv == Init => IInv
  <1> SUFFICES ASSUME Init PROVE IInv
    OBVIOUS
  <1>1. losses \in Nat /\ button \in States /\ ActInv
    BY DEF Init, ActInv, SuspendedMeansOff
  <1>2. StallInv
    BY DEF Init, StallInv
  <1>3. PresentInv /\ TrackInv
    BY DEF Init, PresentInv, TrackInv, None, States
  <1> QED BY <1>1, <1>2, <1>3 DEF IInv

-----------------------------------------------------------------------------
(* Users, the button and the device.                                       *)

\* A session others open is not the watcher's; one they close is closed.
LEMMA UserKeeps ==
    ASSUME IInv, UserOpens \/ UserCloses \/ CaptureLostCloses
    PROVE  IInv'
  <1>1. /\ UNCHANGED <<micVars, sourceVars, absent, nudges, runVars, suspendVars>>
        /\ session' = "mute" => session = "mute"
    BY DEF UserOpens, UserCloses, CaptureLostCloses, CloseIfTypeOpen
  <1>2. UNCHANGED audioVars \/ (setup.capture = "on-demand" /\ stalled' = "no")
    BY DEF UserOpens, UserCloses, CaptureLostCloses, CloseIfTypeOpen, CaptureStops
  <1>3. (losses \in Nat /\ button \in States)' /\ ActInv'
    BY <1>1 DEF IInv, ActInv, SuspendedMeansOff, micVars, runVars, suspendVars
  <1>4. StallInv'
    BY <1>1, <1>2 DEF IInv, StallInv, micVars, sourceVars, audioVars
  <1>5. PresentInv'
    BY <1>1, <1>2 DEF IInv, PresentInv, micVars, sourceVars, audioVars
  <1>6. TrackInv'
    BY <1>1, <1>2 DEF IInv, TrackInv, micVars, sourceVars, audioVars, runVars
  <1> QED BY <1>3, <1>4, <1>5, <1>6 DEF IInv

LEMMA MicrophoneKeeps ==
    ASSUME IInv, PressButton \/ Unplug \/ Plug
    PROVE  IInv'
  <1>1. UNCHANGED <<setup, sourceVars, audioVars, absent, nudges, runVars, suspendVars, session>>
    BY DEF PressButton, Unplug, Plug
  <1>2. (losses \in Nat /\ button \in States)' /\ (losses' = 0 => losses = 0 /\ device' = "present")
    BY DEF PressButton, Unplug, Plug, IInv, PresentInv
  <1>3. ActInv'
    BY <1>1 DEF IInv, ActInv, SuspendedMeansOff, runVars, suspendVars
  <1>4. StallInv'
    BY <1>1 DEF IInv, StallInv, sourceVars, audioVars
  <1>5. PresentInv'
    BY <1>1, <1>2 DEF IInv, PresentInv, sourceVars, audioVars
  <1>6. TrackInv'
    BY <1>1, <1>2 DEF IInv, TrackInv, sourceVars, audioVars, runVars
  <1> QED BY <1>2, <1>3, <1>4, <1>5, <1>6 DEF IInv

\* An observation that is new stands in the channel (pcmzero/source.go:110).
LEMMA Observed ==
    ASSUME IInv, Observe
    PROVE  /\ events' # <<>> => Head(events').state = seen' \/ (events' = events /\ seen' = seen)
           /\ events' = <<>> => events' = events /\ seen' = seen
  <1> DEFINE event == [state |-> button, initial |-> seen = "unset"]
  <1>1. seen' = button /\ events' = IF button = seen THEN events ELSE <<event>>
    BY DEF Observe
  <1>2. event.state = button
    OBVIOUS
  <1> HIDE DEF event
  <1> QED BY <1>1, <1>2

LEMMA SourceKeeps ==
    ASSUME IInv, Frame \/ Poll \/ PollFails
    PROVE  IInv'
  <1>1. UNCHANGED <<micVars, absent, stalled, nudges, runVars, suspendVars, session>>
    BY DEF Frame, Poll, PollFails, audioVars
  <1>2. (losses \in Nat /\ button \in States)' /\ ActInv'
    BY <1>1 DEF IInv, ActInv, SuspendedMeansOff, micVars, runVars, suspendVars
  <1>3. StallInv'
    <2>1. CASE Frame
      BY <1>1, <2>1 DEF Frame, IInv, StallInv, micVars
    <2>2. CASE Poll \/ PollFails
      <3>1. setup.source = "pipewire" /\ frames' = frames
        BY <2>2 DEF Poll, PollFails, audioVars
      <3> QED BY <1>1, <3>1 DEF IInv, StallInv, micVars
    <2> QED BY <2>1, <2>2
  <1>4. PresentInv'
    <2>1. seen' = "closed" => setup.source = "pipewire"
      BY DEF Frame, Poll, PollFails, Observe, sourceVars, IInv, PresentInv, States
    <2> QED BY <1>1, <2>1 DEF IInv, PresentInv, micVars
  <1>5. TrackInv'
    <2> SUFFICES ASSUME losses' = 0, seen' # "closed" PROVE TrackInv'
      BY DEF TrackInv
    <2>1. losses = 0 /\ seen # "closed" /\ TrackInv
      <3>1. seen = "closed" => setup.source = "pipewire"
        BY DEF IInv, PresentInv
      <3>2. seen # "closed"
        BY <3>1 DEF Frame, Poll, PollFails, sourceVars
      <3> QED BY <1>1, <3>2 DEF IInv, micVars
    <2>2. Observe \/ UNCHANGED sourceVars
      BY DEF Frame, Poll, PollFails
    <2>3. /\ events' # <<>> => Head(events').state = seen'
          /\ events' = <<>> => events = <<>> /\ seen' = seen
          /\ seen' \in States \union {"unset"}
      <3>1. CASE UNCHANGED sourceVars
        BY <2>1, <3>1 DEF TrackInv, sourceVars
      <3>2. CASE Observe
        <4>1. seen' \in States \union {"unset"}
          BY <2>1, <3>2 DEF Observe, TrackInv, IInv, States
        <4> QED BY <2>1, <3>2, <4>1, Observed DEF TrackInv
      <3> QED BY <2>2, <3>1, <3>2
    <2> QED BY <1>1, <2>1, <2>3 DEF TrackInv, micVars, runVars
  <1> QED BY <1>2, <1>3, <1>4, <1>5 DEF IInv

-----------------------------------------------------------------------------
(* The audio goroutine: loss and return of the device.                     *)

LEMMA StallKeeps ==
    ASSUME IInv, DeviceLost \/ OnCaptureLost \/ DeviceRestored
    PROVE  IInv'
  <1>1. UNCHANGED <<micVars, events, runVars, suspendVars, session>>
    BY DEF DeviceLost, OnCaptureLost, DeviceRestored, sourceVars
  <1>2. (losses \in Nat /\ button \in States)' /\ ActInv'
    BY <1>1 DEF IInv, ActInv, SuspendedMeansOff, micVars, runVars, suspendVars
  <1>3. StallInv'
    BY <1>1 DEF DeviceLost, OnCaptureLost, DeviceRestored, IInv, StallInv, micVars, sourceVars
  <1>4. PresentInv'
    <2>1. seen' = "closed" => seen = "closed"
      BY DEF DeviceLost, OnCaptureLost, DeviceRestored, sourceVars
    <2>2. losses = 0 => OnCaptureLost
      BY DEF DeviceLost, DeviceRestored, IInv, PresentInv
    <2> QED BY <1>1, <2>1, <2>2 DEF OnCaptureLost, IInv, PresentInv, micVars
  <1>5. TrackInv'
    <2>1. CASE DeviceLost \/ DeviceRestored
      BY <1>1, <2>1 DEF DeviceLost, DeviceRestored, IInv, PresentInv, TrackInv, micVars
    <2>2. CASE OnCaptureLost
      BY <1>1, <2>2 DEF OnCaptureLost, IInv, TrackInv, micVars, runVars, sourceVars
    <2> QED BY <2>1, <2>2
  <1> QED BY <1>2, <1>3, <1>4, <1>5 DEF IInv

-----------------------------------------------------------------------------
(* Run.                                                                    *)

\* What Run does in its select, and in fire's check, opens no session.
LEMMA SelectKeeps ==
    ASSUME IInv, TakeNudge \/ TakeEvent \/ RunEnds \/ DebounceElapses
    PROVE  IInv'
  <1>1. UNCHANGED <<micVars, audioVars, seen, absent, suspendVars, session>> /\ at = "select"
    BY DEF TakeNudge, TakeEvent, RunEnds, DebounceElapses, sourceVars
  <1>2. (losses \in Nat /\ button \in States)' /\ StallInv'
    BY <1>1 DEF IInv, StallInv, micVars, audioVars
  <1>3. ActInv'
    <2>1. at' \in {"select", "fire", "ended"}
      BY <1>1 DEF TakeNudge, TakeEvent, RunEnds, DebounceElapses
    <2> QED BY <1>1, <2>1 DEF IInv, ActInv, SuspendedMeansOff, suspendVars
  <1>4. PresentInv'
    <2>1. nudges = <<>> => nudges' = <<>>
      BY DEF TakeNudge, TakeEvent, RunEnds, DebounceElapses
    <2> QED BY <1>1, <2>1 DEF IInv, PresentInv, micVars, audioVars
  <1>5. TrackInv'
    <2> SUFFICES ASSUME losses' = 0, seen' # "closed" PROVE TrackInv'
      BY DEF TrackInv
    <2>1. losses = 0 /\ seen # "closed" /\ nudges = <<>> /\ TrackInv
      BY <1>1 DEF IInv, PresentInv, micVars
    <2>2. CASE TakeNudge
      BY <2>1, <2>2 DEF TakeNudge, TrackInv
    <2>3. CASE RunEnds
      BY <2>1, <2>3 DEF RunEnds, TrackInv, States
    <2>4. CASE DebounceElapses
      BY <1>1, <2>1, <2>4 DEF DebounceElapses, StopTimer, None, TrackInv, micVars, audioVars, sourceVars
    <2>5. CASE TakeEvent
      <3>1. /\ events # <<>> /\ events' = <<>> /\ at' = "select" /\ UNCHANGED nudges
            /\ Head(events).state = seen
        BY <1>1, <2>1, <2>5 DEF TakeEvent, TrackInv
      <3> DEFINE armed == [state |-> Head(events).state, losses |-> losses]
      <3>2. \/ last' = seen /\ (pending' = None \/ (pending' = pending /\ last = "unseeded"))
            \/ /\ last' = last /\ last # "unseeded"
               /\ IF seen = last THEN pending' = None
                  ELSE IF pending.state = seen THEN pending' = pending
                  ELSE pending' = armed
        <4>1. CASE Head(events).initial
          BY <2>5, <3>1, <4>1 DEF TakeEvent, StopTimer
        <4>2. CASE ~Head(events).initial /\ last = "unseeded"
          BY <2>5, <3>1, <4>2 DEF TakeEvent, StopTimer
        <4>3. CASE ~Head(events).initial /\ last # "unseeded" /\ (suspended # "no" \/ absent = "yes")
          BY <2>5, <3>1, <4>3 DEF TakeEvent, StopTimer
        <4>4. CASE ~Head(events).initial /\ last # "unseeded" /\ ~(suspended # "no" \/ absent = "yes")
          BY <2>5, <3>1, <4>4 DEF TakeEvent, StopTimer
        <4> QED BY <4>1, <4>2, <4>3, <4>4
      <3>3. None.state = "none" /\ armed.state = seen /\ seen # "none"
        BY <2>1, <3>1 DEF None, TrackInv, States
      <3> HIDE DEF armed
      <3>4. /\ pending'.state # "none" => pending'.state = seen
            /\ pending'.state = "none" => last' = seen
            /\ last' = "unseeded" => pending'.state = "none"
        BY <2>1, <3>1, <3>2, <3>3 DEF TrackInv
      <3> QED BY <1>1, <2>1, <3>1, <3>4 DEF TrackInv, micVars, audioVars
    <2> QED BY <2>2, <2>3, <2>4, <2>5
  <1> QED BY <1>2, <1>3, <1>4, <1>5 DEF IInv

LEMMA FireKeeps ==
    ASSUME IInv, FireChecks \/ Act \/ Record \/ FlapCloses
    PROVE  IInv'
  <1>1. UNCHANGED <<micVars, sourceVars, absent, nudges, pending>>
    BY DEF FireChecks, Act, Record, FlapCloses
  <1>2. UNCHANGED audioVars \/ (setup.capture = "on-demand" /\ stalled' = "no")
    BY DEF FireChecks, Act, Record, FlapCloses, CloseIfTypeOpen, EnsureTypeOpen, CaptureStops
  <1>3. (losses \in Nat /\ button \in States)' /\ StallInv'
    BY <1>1, <1>2 DEF IInv, StallInv, micVars, sourceVars, audioVars
  <1>4. ActInv'
    <2>1. CASE FireChecks
      BY <2>1 DEF FireChecks, BackToSelect, IInv, ActInv, SuspendedMeansOff
    <2>2. CASE Act
      <3>1. at = "act" /\ at' = "record" /\ UNCHANGED <<suspended, actMu>>
        BY <2>2 DEF Act, suspendVars
      <3>2. actMu = "run" /\ suspended = "no" /\ actMu \in {"free", "run", "suspend"}
        BY <3>1 DEF IInv, ActInv
      <3> QED BY <3>1, <3>2 DEF ActInv, SuspendedMeansOff
    <2>3. CASE Record
      <3>1. at = "record" /\ actMu = "run" /\ suspended = "no"
        BY <2>3 DEF Record, IInv, ActInv
      <3>2. \/ at' = "flapped" /\ UNCHANGED actMu
            \/ at' = "select" /\ actMu' = "free" /\ UNCHANGED suspended
        BY <2>3 DEF Record, BackToSelect
      <3> QED BY <3>1, <3>2 DEF ActInv, SuspendedMeansOff
    <2>4. CASE FlapCloses
      BY <2>4 DEF FlapCloses, CloseIfTypeOpen, BackToSelect, IInv, ActInv, SuspendedMeansOff
    <2> QED BY <2>1, <2>2, <2>3, <2>4
  <1>5. PresentInv'
    BY <1>1, <1>2 DEF IInv, PresentInv, micVars, sourceVars, audioVars
  <1>6. TrackInv'
    <2> SUFFICES ASSUME losses' = 0, seen' # "closed" PROVE TrackInv'
      BY DEF TrackInv
    <2>1. losses = 0 /\ seen # "closed" /\ PresentInv /\ TrackInv
      BY <1>1 DEF IInv, micVars, sourceVars
    <2>2. at # "select" /\ pending.state = "none"
      BY <2>1 DEF FireChecks, Act, Record, FlapCloses, TrackInv
    <2>3. /\ at' \in {"select", "act", "record", "flapped"}
          /\ at = "fire" => last' = firing
          /\ at # "fire" => at \in {"act", "record", "flapped"} /\ last' = last
      BY <2>1 DEF FireChecks, Act, Record, FlapCloses, BackToSelect, PresentInv, TrackInv
    <2>4. events' = <<>> => last' = seen
      BY <1>1, <2>1, <2>3 DEF TrackInv, sourceVars
    <2> QED BY <1>1, <2>1, <2>2, <2>3, <2>4 DEF TrackInv, sourceVars
  <1> QED BY <1>3, <1>4, <1>5, <1>6 DEF IInv

\* Suspend and Resume (mutewatch.go:140-192).
LEMMA SuspendKeeps ==
    ASSUME IInv, Suspend \/ SuspendCloses \/ Resume
    PROVE  IInv'
  <1>1. UNCHANGED <<micVars, sourceVars, absent, nudges, runVars>>
    BY DEF Suspend, SuspendCloses, Resume
  <1>2. UNCHANGED audioVars \/ (setup.capture = "on-demand" /\ stalled' = "no")
    BY DEF Suspend, SuspendCloses, Resume, CloseIfTypeOpen, CaptureStops
  <1>3. (losses \in Nat /\ button \in States)' /\ StallInv'
    BY <1>1, <1>2 DEF IInv, StallInv, micVars, sourceVars, audioVars
  <1>4. ActInv'
    <2>1. CASE Suspend
      BY <2>1 DEF Suspend, IInv, ActInv, SuspendedMeansOff, runVars
    <2>2. CASE SuspendCloses
      BY <2>2 DEF SuspendCloses, CloseIfTypeOpen, IInv, ActInv, SuspendedMeansOff, runVars
    <2>3. CASE Resume
      BY <2>3 DEF Resume, IInv, ActInv, SuspendedMeansOff, runVars
    <2> QED BY <2>1, <2>2, <2>3
  <1>5. PresentInv'
    BY <1>1, <1>2 DEF IInv, PresentInv, micVars, sourceVars, audioVars
  <1>6. TrackInv'
    BY <1>1, <1>2 DEF IInv, TrackInv, micVars, sourceVars, audioVars, runVars
  <1> QED BY <1>3, <1>4, <1>5, <1>6 DEF IInv

LEMMA StutterKeeps ==
    ASSUME IInv, UNCHANGED vars
    PROVE  IInv'
  BY DEF vars, IInv, ActInv, SuspendedMeansOff, StallInv, PresentInv, TrackInv

LEMMA NextIInv == IInv /\ [Next]_vars => IInv'
  BY UserKeeps, MicrophoneKeeps, SourceKeeps, StallKeeps, SelectKeeps, FireKeeps, SuspendKeeps,
     StutterKeeps DEF Next, Run

LEMMA AlwaysIInv == Spec => []IInv
  BY InitIInv, NextIInv, PTL DEF Spec

\* No session of the watcher's outlives a suspension, for any threshold of the
\* flap guard and any interleaving with the fire path (mutewatch.go:84, 140-176).
THEOREM SuspendedAlwaysOff == Spec => []SuspendedMeansOff
  <1>1. IInv => SuspendedMeansOff
    BY DEF IInv, ActInv
  <1> QED BY <1>1, AlwaysIInv, PTL

\* The watcher never loses track of its source, however many presses it
\* debounces, cancels or misses (mutewatch.go:382-433).
THEOREM SourceAlwaysTracked == Spec => []TracksSource
  <1>1. IInv => TracksSource
    BY DEF IInv, TrackInv, TracksSource, None
  <1> QED BY <1>1, AlwaysIInv, PTL

\* With capture always on, absent means that no frame has arrived since the loss
\* (mutewatch.go:92), in any number of losses and returns.
THEOREM AbsentAlwaysSilent == Spec => []AbsentMeansNoFrames
  <1>1. IInv => AbsentMeansNoFrames
    BY DEF IInv, StallInv, AbsentMeansNoFrames
  <1> QED BY <1>1, AlwaysIInv, PTL

\* When the device returns, pcm-zero has forgotten what it saw before the loss
\* (mutewatch.go:213): the first frame seeds the watcher and fires nothing.
THEOREM ReturnAlwaysReseeds == Spec => ReturnReseeds
  <1>1. IInv => (setup.source = "pcm-zero" /\ absent = "yes" => seen = "unset")
    BY MuteAssumption DEF IInv, StallInv
  <1> QED BY <1>1, AlwaysIInv, PTL DEF Spec, ReturnReseeds

-----------------------------------------------------------------------------
(* The types of the watcher, with the bounds of its channels and of the    *)
(* flap window.                                                            *)

MicTypeOK ==
    /\ setup \in Setups /\ button \in States
    /\ presses \in 0..MaxPresses /\ losses \in 0..MaxLosses
    /\ device \in {"present", "gone"}
    /\ seen \in States \union {"unset", "closed"}
    /\ events = <<>> \/ \E ev \in Event : events = <<ev>>

LoopTypeOK ==
    /\ audio \in {"loop", "hook"}
    /\ stalled \in {"yes", "no"} /\ frames \in {"flowing", "none"} /\ absent \in {"yes", "no"}
    /\ nudges \in Seq({"lost", "restored"}) /\ Len(nudges) <= NudgeCap
    /\ session \in {"none", "clip", "mute", "user"}
    /\ closer \in {"idle", "closing"}

RunTypeOK ==
    /\ at \in {"select", "fire", "act", "record", "flapped", "ended"}
    /\ last \in States \union {"unseeded"}
    /\ pending \in [state : States \union {"none"}, losses : 0..MaxLosses]
    /\ firing \in States \union {"none"} /\ (at = "fire" => firing \in States)
    /\ suspended \in {"no", "manual", "flapping"}
    /\ fires \in Nat /\ fires <= setup.threshold
    /\ actMu \in {"free", "run", "suspend"}

WatchTypeOK == MicTypeOK /\ LoopTypeOK /\ RunTypeOK

\* The source's channel of capacity one never holds two events
\* (pcmzero/source.go:110).
LEMMA MicTyped ==
    ASSUME WatchTypeOK, [Next]_vars
    PROVE  MicTypeOK'
  <1> USE DEF WatchTypeOK, MicTypeOK, micVars, sourceVars
  <1>1. CASE Observe /\ UNCHANGED micVars
    <2>1. seen' = button /\ (events' = events \/ events' = <<[state |-> button, initial |-> seen = "unset"]>>)
      BY <1>1 DEF Observe
    <2>2. [state |-> button, initial |-> seen = "unset"] \in Event
      <3>1. (seen = "unset") \in BOOLEAN
        OBVIOUS
      <3> QED BY <3>1, Zenon DEF Event
    <2> QED BY <1>1, <2>1, <2>2, Zenon
  <1>2. CASE UNCHANGED <<micVars, sourceVars>>
    BY <1>2
  <1>3. CASE UNCHANGED sourceVars /\ (PressButton \/ Unplug \/ Plug)
    BY <1>3, MuteAssumption DEF PressButton, Unplug, Plug
  <1>4. CASE PollFails
    BY <1>4 DEF PollFails
  <1>5. CASE DeviceLost
    BY <1>5 DEF DeviceLost
  <1>6. CASE TakeEvent
    BY <1>6 DEF TakeEvent
  <1>7. \/ Observe /\ UNCHANGED micVars
        \/ UNCHANGED <<micVars, sourceVars>>
        \/ UNCHANGED sourceVars /\ (PressButton \/ Unplug \/ Plug)
        \/ PollFails \/ DeviceLost \/ TakeEvent
    <2>1. CASE UserOpens \/ UserCloses \/ Frame \/ Poll \/ UNCHANGED vars
      BY <2>1 DEF UserOpens, UserCloses, Frame, Poll, vars
    <2>2. CASE OnCaptureLost \/ CaptureLostCloses \/ DeviceRestored \/ TakeNudge
      BY <2>2 DEF OnCaptureLost, CaptureLostCloses, DeviceRestored, TakeNudge
    <2>3. CASE RunEnds \/ DebounceElapses \/ FireChecks \/ Act \/ Record \/ FlapCloses
      BY <2>3 DEF RunEnds, DebounceElapses, FireChecks, Act, Record, FlapCloses
    <2>4. CASE Suspend \/ SuspendCloses \/ Resume
      BY <2>4 DEF Suspend, SuspendCloses, Resume
    <2>5. CASE PressButton \/ Unplug \/ Plug
      BY <2>5 DEF PressButton, Unplug, Plug
    <2> QED BY <2>1, <2>2, <2>3, <2>4, <2>5 DEF Next, Run
  <1> QED BY <1>1, <1>2, <1>3, <1>4, <1>5, <1>6, <1>7

\* A full devCh drops the nudge (mutewatch.go:262).
LEMMA NudgeTyped ==
    ASSUME LoopTypeOK, NEW n \in {"lost", "restored"}, Nudge(n)
    PROVE  nudges' \in Seq({"lost", "restored"}) /\ Len(nudges') <= NudgeCap
  <1>1. nudges \in Seq({"lost", "restored"}) /\ Len(nudges) \in Nat /\ NudgeCap \in Nat
        /\ Len(nudges) <= NudgeCap
    BY MuteAssumption DEF LoopTypeOK
  <1>2. CASE Len(nudges) < NudgeCap
    <2>1. /\ nudges' = Append(nudges, n)
          /\ Append(nudges, n) \in Seq({"lost", "restored"}) /\ Len(Append(nudges, n)) = Len(nudges) + 1
      BY <1>1, <1>2 DEF Nudge
    <2> QED BY <1>1, <1>2, <2>1
  <1>3. CASE ~(Len(nudges) < NudgeCap)
    BY <1>1, <1>3 DEF Nudge
  <1> QED BY <1>2, <1>3

LEMMA LoopTyped ==
    ASSUME WatchTypeOK, [Next]_vars
    PROVE  LoopTypeOK'
  <1>1. CASE DeviceLost \/ DeviceRestored
    <2>1. \E n \in {"lost", "restored"} : Nudge(n)
      BY <1>1 DEF DeviceLost, DeviceRestored
    <2>2. nudges' \in Seq({"lost", "restored"}) /\ Len(nudges') <= NudgeCap
      BY <2>1, NudgeTyped DEF WatchTypeOK
    <2> QED BY <1>1, <2>2 DEF DeviceLost, DeviceRestored, WatchTypeOK, LoopTypeOK
  <1>2. CASE TakeNudge
    <2>1. /\ nudges \in Seq({"lost", "restored"}) /\ nudges # <<>> /\ nudges' = Tail(nudges)
          /\ Len(nudges) \in Nat /\ Len(nudges) <= NudgeCap /\ NudgeCap \in Nat
      BY <1>2, MuteAssumption DEF TakeNudge, WatchTypeOK, LoopTypeOK
    <2>2. Tail(nudges) \in Seq({"lost", "restored"}) /\ Len(Tail(nudges)) = Len(nudges) - 1
      BY <2>1
    <2>3. Len(nudges') <= NudgeCap
      BY <2>1, <2>2
    <2> QED BY <1>2, <2>1, <2>2, <2>3 DEF TakeNudge, WatchTypeOK, LoopTypeOK, audioVars
  <1>3. CASE ~DeviceLost /\ ~DeviceRestored /\ ~TakeNudge
    <2> USE DEF WatchTypeOK, LoopTypeOK, audioVars
    <2>1. CASE UserOpens \/ UserCloses \/ CaptureLostCloses \/ OnCaptureLost
      BY <2>1 DEF UserOpens, UserCloses, CaptureLostCloses, OnCaptureLost, CaptureStops, CloseIfTypeOpen
    <2>2. CASE PressButton \/ Unplug \/ Plug \/ Frame \/ Poll \/ PollFails \/ UNCHANGED vars
      BY <2>2 DEF PressButton, Unplug, Plug, Frame, Poll, PollFails, vars
    <2>3. CASE TakeEvent \/ RunEnds \/ DebounceElapses \/ FireChecks \/ Record
      BY <2>3 DEF TakeEvent, RunEnds, DebounceElapses, FireChecks, Record
    <2>4. CASE Act \/ FlapCloses
      BY <2>4 DEF Act, FlapCloses, CaptureStops, CloseIfTypeOpen, EnsureTypeOpen
    <2>5. CASE Suspend \/ SuspendCloses \/ Resume
      BY <2>5 DEF Suspend, SuspendCloses, Resume, CaptureStops, CloseIfTypeOpen
    <2> QED BY <1>3, <2>1, <2>2, <2>3, <2>4, <2>5 DEF Next, Run
  <1> QED BY <1>1, <1>2, <1>3

\* The flap window never counts more fires than its threshold
\* (mutewatch.go:349).
LEMMA RunTyped ==
    ASSUME WatchTypeOK, [Next]_vars
    PROVE  RunTypeOK'
  <1>1. setup \in Setups /\ setup.threshold \in Nat /\ losses \in 0..MaxLosses /\ 0 \in 0..MaxLosses
        /\ None \in [state : States \union {"none"}, losses : 0..MaxLosses]
    BY MuteAssumption DEF WatchTypeOK, MicTypeOK, None
  <1>2. setup' = setup
    <2>1. CASE \/ UserOpens \/ UserCloses \/ PressButton \/ Unplug \/ Plug \/ Frame \/ Poll \/ PollFails
               \/ DeviceLost \/ OnCaptureLost \/ CaptureLostCloses \/ DeviceRestored \/ UNCHANGED vars
      BY <2>1 DEF UserOpens, UserCloses, PressButton, Unplug, Plug, Frame, Poll, PollFails,
                  DeviceLost, OnCaptureLost, CaptureLostCloses, DeviceRestored, vars, micVars
    <2>2. CASE TakeNudge \/ Run \/ Suspend \/ SuspendCloses \/ Resume
      BY <2>2 DEF Run, TakeNudge, TakeEvent, RunEnds, DebounceElapses, FireChecks, Act, Record,
                  FlapCloses, Suspend, SuspendCloses, Resume, micVars
    <2> QED BY <2>1, <2>2 DEF Next
  <1>3. CASE \/ UserOpens \/ UserCloses \/ PressButton \/ Unplug \/ Plug \/ Frame \/ Poll \/ PollFails
             \/ DeviceLost \/ OnCaptureLost \/ CaptureLostCloses \/ DeviceRestored \/ UNCHANGED vars
    <2>1. UNCHANGED <<runVars, suspendVars>>
      BY <1>3 DEF UserOpens, UserCloses, PressButton, Unplug, Plug, Frame, Poll, PollFails,
                  DeviceLost, OnCaptureLost, CaptureLostCloses, DeviceRestored, vars, runVars, suspendVars
    <2> QED BY <1>2, <2>1 DEF WatchTypeOK, RunTypeOK, runVars, suspendVars
  <1>4. CASE TakeEvent
    <2>1. PICK ev \in Event : events = <<ev>>
      BY <1>4 DEF TakeEvent, WatchTypeOK, MicTypeOK
    <2>2. ev.state \in States /\ Head(events) = ev
      BY <2>1 DEF Event
    <2>3. /\ last' \in {last, ev.state}
          /\ pending' \in {pending, None, [state |-> ev.state, losses |-> losses]}
          /\ UNCHANGED <<at, firing, suspendVars>>
      BY <1>4, <2>2 DEF TakeEvent, StopTimer
    <2> QED BY <1>1, <1>2, <2>2, <2>3 DEF WatchTypeOK, RunTypeOK, suspendVars
  <1> USE DEF WatchTypeOK, RunTypeOK, runVars, suspendVars, StopTimer, BackToSelect
  <1>5. CASE TakeNudge \/ RunEnds \/ DebounceElapses
    BY <1>1, <1>2, <1>5 DEF TakeNudge, RunEnds, DebounceElapses
  <1>6. CASE FireChecks
    BY <1>1, <1>2, <1>6 DEF FireChecks
  <1>7. CASE Act \/ FlapCloses
    BY <1>2, <1>7 DEF Act, FlapCloses
  <1>8. CASE Record
    <2>1. PICK kept \in 0..fires :
              /\ fires' = 0 \/ (kept # setup.threshold /\ setup.threshold > 0 /\ fires' = kept + 1)
              /\ suspended' \in {suspended, "flapping"}
              /\ at' \in {"flapped", "select"} /\ firing' \in {firing, "none"}
              /\ actMu' \in {actMu, "free"}
              /\ UNCHANGED <<last, pending>>
      BY <1>8 DEF Record
    <2>2. fires' \in Nat /\ fires' <= setup'.threshold
      BY <1>1, <1>2, <2>1
    <2> QED BY <1>2, <2>1, <2>2
  <1>9. CASE Suspend \/ SuspendCloses \/ Resume
    BY <1>1, <1>2, <1>9 DEF Suspend, SuspendCloses, Resume
  <1> QED BY <1>3, <1>4, <1>5, <1>6, <1>7, <1>8, <1>9 DEF Next, Run

\* Every variable of the watcher keeps its type: the channels of events and of
\* nudges their capacities, and the flap window its threshold
\* (mutewatch.go:129-376).
THEOREM WatchTypeCorrect == Spec => []TypeOK
  <1>1. Init => WatchTypeOK
    BY MuteAssumption DEF Init, WatchTypeOK, MicTypeOK, LoopTypeOK, RunTypeOK, None
  <1>2. WatchTypeOK /\ [Next]_vars => WatchTypeOK'
    BY MicTyped, LoopTyped, RunTyped DEF WatchTypeOK
  <1>3. WatchTypeOK => TypeOK
    <2> SUFFICES ASSUME WatchTypeOK PROVE TypeOK
      OBVIOUS
    <2>1. events \in Seq(Event) /\ Len(events) <= 1
      <3>1. CASE events = <<>>
        BY <3>1
      <3>2. ASSUME NEW ev \in Event, events = <<ev>>
            PROVE  events \in Seq(Event) /\ Len(events) <= 1
        <4> HIDE DEF Event
        <4>1. <<ev>> \in Seq(Event) /\ Len(<<ev>>) <= 1
          OBVIOUS
        <4> QED BY <3>2, <4>1, Zenon
      <3> QED BY <3>1, <3>2 DEF WatchTypeOK, MicTypeOK
    <2>2. fires \in 0..setup.threshold
      <3>1. setup.threshold \in Nat
        BY MuteAssumption DEF WatchTypeOK, MicTypeOK
      <3> QED BY <3>1 DEF WatchTypeOK, RunTypeOK
    <2> QED BY <2>1, <2>2 DEF WatchTypeOK, MicTypeOK, LoopTypeOK, RunTypeOK, TypeOK
  <1> QED BY <1>1, <1>2, <1>3, PTL DEF Spec

-----------------------------------------------------------------------------
(* The auto source.                                                        *)

Entry == [sub : Subs, ev : Event]

\* What the argument needs of the types.
ChannelsOK ==
    /\ shows \in [Subs -> States]
    /\ chan \in [Subs -> Seq(Event)]
    /\ fwd \in [Subs -> [at : {"range", "decide", "send", "done"}, ev : Event]]
    /\ out \in Seq(Entry)

(***************************************************************************)
(* The lock decides who speaks: a transition that is being sent, waits in  *)
(* out or was taken from it is of the locked source. Before the lock there *)
(* is none, since no source is called NoSub.                               *)
(***************************************************************************)
LockInv ==
    /\ \A s \in Subs : fwd[s].at = "send" /\ ~fwd[s].ev.initial => s = locked
    /\ \A i \in DOMAIN out : ~out[i].ev.initial => out[i].sub = locked
    /\ \A s \in turned : s = locked

\* out is closed when nobody can send on it any more (auto.go:148-156).
NeverSendsOnClosed == closed => \A s \in live : fwd[s].at = "done"

AutoIInv == ChannelsOK /\ LockInv /\ NeverSendsOnClosed /\ live \subseteq Subs /\ turned \subseteq Subs

\* What a forwarder is that holds no event.
LEMMA NoEventTyped == NoEvent \in Event
  BY DEF NoEvent, Event, States

LEMMA RangingIsRange ==
    Ranging \in [at : {"range", "decide", "send", "done"}, ev : Event] /\ Ranging.at = "range"
  <1> HIDE DEF Event, NoEvent
  <1> QED BY NoEventTyped DEF Ranging

LEMMA GoneIsDone ==
    /\ Gone \in [at : {"decide", "done"}, ev : Event]
    /\ Gone \in [at : {"range", "decide", "send", "done"}, ev : Event] /\ Gone.at = "done"
  <1> HIDE DEF Event, NoEvent
  <1> QED BY NoEventTyped DEF Gone

LEMMA AutoInitIInv == AutoInit => AutoIInv
  <1> SUFFICES ASSUME AutoInit PROVE AutoIInv
    OBVIOUS
  <1>1. chan \in [Subs -> Seq(Event)] /\ shows \in [Subs -> States]
    BY DEF AutoInit
  <1>2. fwd \in [Subs -> [at : {"range", "decide", "send", "done"}, ev : Event]]
    <2>1. fwd = [s \in Subs |-> Ranging]
      BY DEF AutoInit
    <2> QED BY <2>1, RangingIsRange
  <1>3. out = <<>> /\ out \in Seq(Entry) /\ turned = {} /\ closed = FALSE /\ live \subseteq Subs
    BY DEF AutoInit
  <1>4. \A s \in Subs : fwd[s].at = "range"
    BY RangingIsRange DEF AutoInit
  <1> QED BY <1>1, <1>2, <1>3, <1>4 DEF AutoIInv, ChannelsOK, LockInv, NeverSendsOnClosed

\* The sources and the microphone do nothing but fill their channels.
LEMMA WrappedKeeps ==
    ASSUME AutoIInv, NEW s \in Subs, Flip(s) \/ Look(s) \/ Reseed(s) \/ SourceEnds(s)
    PROVE  AutoIInv'
  <1>1. UNCHANGED <<live, fwd, locked, out, closed, turned>>
    BY DEF Flip, Look, Reseed, SourceEnds, subVars, showVars, readVars
  <1>2. chan' \in [Subs -> Seq(Event)]
    <2>1. CASE Look(s)
      <3> DEFINE event == [state |-> shows[s], initial |-> lastSeen[s] = "unset"]
      <3>1. chan' = [chan EXCEPT ![s] = <<event>>] /\ chan \in [Subs -> Seq(Event)]
        BY <2>1 DEF Look, AutoIInv, ChannelsOK
      <3>2. event \in Event
        <4>1. shows[s] \in States /\ (lastSeen[s] = "unset") \in BOOLEAN
          BY DEF AutoIInv, ChannelsOK
        <4> QED BY <4>1, Zenon DEF Event
      <3> HIDE DEF event
      <3> QED BY <3>1, <3>2
    <2>2. CASE Flip(s) \/ Reseed(s) \/ SourceEnds(s)
      BY <2>2 DEF Flip, Reseed, SourceEnds, AutoIInv, ChannelsOK
    <2> QED BY <2>1, <2>2
  <1>3. shows' \in [Subs -> States]
    <2>1. shows \in [Subs -> States]
      BY DEF AutoIInv, ChannelsOK
    <2>2. CASE Flip(s)
      <3>1. \A old \in States : (CHOOSE st \in States : st # old) \in States
        BY DEF States
      <3> QED BY <2>1, <2>2, <3>1 DEF Flip
    <2>3. CASE Look(s) \/ Reseed(s) \/ SourceEnds(s)
      BY <2>1, <2>3 DEF Look, Reseed, SourceEnds, showVars
    <2> QED BY <2>2, <2>3
  <1> QED BY <1>1, <1>2, <1>3 DEF AutoIInv, ChannelsOK, LockInv, NeverSendsOnClosed

\* Receiving, and the end of a source, leave the forwarder with nothing to send.
LEMMA ReceiveKeeps ==
    ASSUME AutoIInv, NEW s \in Subs, Receive(s) \/ RangeEnds(s)
    PROVE  AutoIInv'
  <1>1. /\ UNCHANGED <<live, shows, locked, out, closed, turned>>
        /\ s \in live /\ fwd[s].at = "range"
    BY DEF Receive, RangeEnds, subVars, showVars, readVars
  <1>2. ~closed
    BY <1>1 DEF AutoIInv, NeverSendsOnClosed
  <1>3. chan \in [Subs -> Seq(Event)] /\ fwd \in [Subs -> [at : {"range", "decide", "send", "done"}, ev : Event]]
    BY DEF AutoIInv, ChannelsOK
  <1>4. ASSUME NEW f \in [at : {"decide", "done"}, ev : Event], fwd' = [fwd EXCEPT ![s] = f],
               chan' \in [Subs -> Seq(Event)]
        PROVE  AutoIInv'
    <2>1. /\ fwd' \in [Subs -> [at : {"range", "decide", "send", "done"}, ev : Event]]
          /\ fwd'[s].at # "send" /\ \A t \in Subs \ {s} : fwd'[t] = fwd[t]
      BY <1>3, <1>4
    <2> QED BY <1>1, <1>2, <1>4, <2>1 DEF AutoIInv, ChannelsOK, LockInv, NeverSendsOnClosed
  <1>5. CASE Receive(s)
    <2> HIDE DEF Event
    <2>1. chan[s] # <<>> /\ chan[s] \in Seq(Event) /\ chan' = [chan EXCEPT ![s] = Tail(@)]
      BY <1>3, <1>5 DEF Receive
    <2>2. Head(chan[s]) \in Event /\ Tail(chan[s]) \in Seq(Event)
      BY <2>1
    <2>3. chan' \in [Subs -> Seq(Event)]
      BY <1>3, <2>1, <2>2
    <2>4. fwd' = [fwd EXCEPT ![s] = [at |-> "decide", ev |-> Head(chan[s])]]
      BY <1>5 DEF Receive
    <2>5. [at |-> "decide", ev |-> Head(chan[s])] \in [at : {"decide", "done"}, ev : Event]
      BY <2>2
    <2> QED BY <1>4, <2>3, <2>4, <2>5
  <1>6. CASE RangeEnds(s)
    <2>1. fwd' = [fwd EXCEPT ![s] = Gone] /\ chan' = chan
      BY <1>6 DEF RangeEnds
    <2>2. Gone \in [at : {"decide", "done"}, ev : Event]
      BY GoneIsDone
    <2> QED BY <1>3, <1>4, <2>1, <2>2
  <1> QED BY <1>5, <1>6

\* The critical section: a source that is let through with a transition is the
\* locked one, and a lock that is taken stays (auto.go:111-133).
LEMMA DecideKeeps ==
    ASSUME AutoIInv, NEW s \in Subs, Decide(s)
    PROVE  AutoIInv'
  <1>1. /\ UNCHANGED <<live, shows, chan, out, closed, turned>>
        /\ s \in live /\ fwd[s].at = "decide"
    BY DEF Decide, subVars, showVars, readVars
  <1>2. ~closed
    BY <1>1 DEF AutoIInv, NeverSendsOnClosed
  <1>3. fwd \in [Subs -> [at : {"range", "decide", "send", "done"}, ev : Event]]
    BY DEF AutoIInv, ChannelsOK
  <1>4. locked' \in {locked, s} /\ (locked' # locked => locked = NoSub)
    BY DEF Decide
  <1>5. /\ \A i \in DOMAIN out : ~out[i].ev.initial => out[i].sub = locked'
        /\ \A t \in turned : t = locked'
        /\ \A t \in Subs : fwd[t].at = "send" /\ ~fwd[t].ev.initial => t = locked'
    <2>1. CASE locked' = locked
      BY <2>1 DEF AutoIInv, LockInv
    <2>2. CASE locked = NoSub
      <3>1. \A i \in DOMAIN out : out[i].sub # NoSub
        <4>1. \A i \in DOMAIN out : out[i] \in Entry
          BY DEF AutoIInv, ChannelsOK
        <4> QED BY <4>1, AutoAssumption DEF Entry
      <3> QED BY <2>2, <3>1, AutoAssumption DEF AutoIInv, LockInv
    <2> QED BY <1>4, <2>1, <2>2
  <1>6. CASE /\ fwd' = [fwd EXCEPT ![s].at = "send"]
             /\ fwd[s].ev.initial \/ locked' = s
    <2>1. /\ fwd' \in [Subs -> [at : {"range", "decide", "send", "done"}, ev : Event]]
          /\ fwd'[s].ev = fwd[s].ev /\ \A t \in Subs \ {s} : fwd'[t] = fwd[t]
      BY <1>3, <1>6
    <2>2. \A t \in Subs : fwd'[t].at = "send" /\ ~fwd'[t].ev.initial => t = locked'
      BY <1>5, <1>6, <2>1
    <2> QED BY <1>1, <1>2, <1>5, <2>1, <2>2 DEF AutoIInv, ChannelsOK, LockInv, NeverSendsOnClosed
  <1>7. CASE fwd' = [fwd EXCEPT ![s] = Ranging]
    <2>1. /\ fwd' \in [Subs -> [at : {"range", "decide", "send", "done"}, ev : Event]]
          /\ fwd'[s].at = "range" /\ \A t \in Subs \ {s} : fwd'[t] = fwd[t]
      BY <1>3, <1>7, RangingIsRange
    <2>2. \A t \in Subs : fwd'[t].at = "send" /\ ~fwd'[t].ev.initial => t = locked'
      BY <1>5, <2>1
    <2> QED BY <1>1, <1>2, <1>5, <2>1, <2>2 DEF AutoIInv, ChannelsOK, LockInv, NeverSendsOnClosed
  <1> QED BY <1>6, <1>7 DEF Decide

\* An event enters out as its forwarder held it.
LEMMA SendKeeps ==
    ASSUME AutoIInv, NEW s \in Subs, Send(s)
    PROVE  AutoIInv'
  <1>1. /\ UNCHANGED <<live, shows, chan, locked, closed, turned>>
        /\ s \in live /\ fwd[s].at = "send"
    BY DEF Send, subVars, showVars, readVars
  <1>2. ~closed
    BY <1>1 DEF AutoIInv, NeverSendsOnClosed
  <1>3. /\ fwd \in [Subs -> [at : {"range", "decide", "send", "done"}, ev : Event]]
        /\ out \in Seq(Entry)
    BY DEF AutoIInv, ChannelsOK
  <1>4. ASSUME NEW f \in {Ranging, Gone}, fwd' = [fwd EXCEPT ![s] = f]
        PROVE  /\ fwd' \in [Subs -> [at : {"range", "decide", "send", "done"}, ev : Event]]
               /\ \A t \in Subs : fwd'[t].at = "send" /\ ~fwd'[t].ev.initial => t = locked'
    <2>1. /\ f \in [at : {"range", "decide", "send", "done"}, ev : Event]
          /\ f.at # "send"
      BY <1>4, RangingIsRange, GoneIsDone
    <2>2. fwd'[s] = f /\ \A t \in Subs \ {s} : fwd'[t] = fwd[t]
      BY <1>3, <1>4
    <2> QED BY <1>1, <1>3, <1>4, <2>1, <2>2 DEF AutoIInv, LockInv
  <1>5. CASE out' = out
    BY <1>1, <1>2, <1>4, <1>5 DEF Send, AutoIInv, ChannelsOK, LockInv, NeverSendsOnClosed
  <1>6. CASE out' = Append(out, [sub |-> s, ev |-> fwd[s].ev]) /\ fwd' = [fwd EXCEPT ![s] = Ranging]
    <2> DEFINE entry == [sub |-> s, ev |-> fwd[s].ev]
    <2>1. entry \in Entry /\ entry.sub = s /\ entry.ev = fwd[s].ev
      BY <1>3 DEF Entry
    <2>2. ~entry.ev.initial => entry.sub = locked
      BY <1>1, <2>1 DEF AutoIInv, LockInv
    <2>3. out' = Append(out, entry)
      BY <1>6
    <2> HIDE DEF entry
    <2>4. /\ out' \in Seq(Entry) /\ Len(out') = Len(out) + 1 /\ out'[Len(out) + 1] = entry
          /\ \A i \in 1..Len(out) : out'[i] = out[i]
      <3> HIDE DEF Entry
      <3> QED BY <1>3, <2>1, <2>3
    <2>5. \A i \in DOMAIN out' : ~out'[i].ev.initial => out'[i].sub = locked
      <3> SUFFICES ASSUME NEW i \in 1..Len(out) + 1
                   PROVE  ~out'[i].ev.initial => out'[i].sub = locked
        BY <2>4
      <3>1. CASE i = Len(out) + 1
        BY <2>2, <2>4, <3>1
      <3>2. CASE i \in 1..Len(out)
        <4>1. out'[i] = out[i] /\ i \in DOMAIN out
          BY <1>3, <2>4, <3>2
        <4> QED BY <4>1 DEF AutoIInv, LockInv
      <3> QED BY <1>3, <3>1, <3>2
    <2>6. LockInv'
      BY <1>1, <1>4, <1>6, <2>5 DEF AutoIInv, LockInv
    <2> QED BY <1>1, <1>2, <1>4, <1>6, <2>4, <2>6 DEF AutoIInv, ChannelsOK, NeverSendsOnClosed
  <1> QED BY <1>5, <1>6 DEF Send

\* The watcher takes the oldest event; the ends of the contexts move no event.
LEMMA MergedKeeps ==
    ASSUME AutoIInv, CloseOut \/ Take \/ CancelWatch \/ UNCHANGED autoVars
    PROVE  AutoIInv'
  <1>1. UNCHANGED <<live, shows, chan, fwd, locked>>
    BY DEF CloseOut, Take, CancelWatch, autoVars, subVars, showVars
  <1>2. CASE Take
    <2>1. closed' = closed /\ out # <<>> /\ out \in Seq(Entry) /\ out' = Tail(out)
      BY <1>2 DEF Take, AutoIInv, ChannelsOK
    <2>2. /\ out' \in Seq(Entry) /\ 1 \in DOMAIN out /\ Head(out) = out[1] /\ out[1] \in Entry
          /\ \A i \in DOMAIN out' : i + 1 \in DOMAIN out /\ out'[i] = out[i + 1]
      <3> HIDE DEF Entry
      <3> QED BY <2>1
    <2>3. \A i \in DOMAIN out' : ~out'[i].ev.initial => out'[i].sub = locked
      BY <2>2 DEF AutoIInv, LockInv
    <2>4. \A s \in turned' : s \in Subs /\ s = locked
      <3>1. turned' = IF Head(out).ev.initial THEN turned ELSE turned \union {Head(out).sub}
        BY <1>2 DEF Take
      <3>2. out[1].sub \in Subs /\ (~out[1].ev.initial => out[1].sub = locked)
        BY <2>2 DEF AutoIInv, LockInv, Entry
      <3> QED BY <2>2, <3>1, <3>2 DEF AutoIInv, LockInv
    <2> QED BY <1>1, <2>1, <2>2, <2>3, <2>4 DEF AutoIInv, ChannelsOK, LockInv, NeverSendsOnClosed
  <1>3. CASE CloseOut
    <2>1. UNCHANGED <<out, turned>> /\ \A s \in live : fwd[s].at = "done"
      BY <1>3 DEF CloseOut, readVars
    <2> QED BY <1>1, <2>1 DEF AutoIInv, ChannelsOK, LockInv, NeverSendsOnClosed
  <1>4. CASE CancelWatch \/ UNCHANGED autoVars
    <2>1. UNCHANGED <<out, turned, closed>>
      BY <1>4 DEF CancelWatch, autoVars, readVars
    <2> QED BY <1>1, <2>1 DEF AutoIInv, ChannelsOK, LockInv, NeverSendsOnClosed
  <1> QED BY <1>2, <1>3, <1>4

LEMMA AutoNextIInv == AutoIInv /\ [AutoNext]_autoVars => AutoIInv'
  <1> SUFFICES ASSUME AutoIInv, [AutoNext]_autoVars PROVE AutoIInv'
    OBVIOUS
  <1>1. ASSUME NEW s \in Subs, Forwarder(s)
        PROVE  AutoIInv'
    BY <1>1, ReceiveKeeps, DecideKeeps, SendKeeps DEF Forwarder
  <1> QED BY <1>1, WrappedKeeps, MergedKeeps DEF AutoNext

LEMMA AutoAlwaysIInv == AutoSpec => []AutoIInv
  BY AutoInitIInv, AutoNextIInv, PTL DEF AutoSpec

\* However many sources race for the lock, every transition the watcher is ever
\* given is of one and the same source (auto.go:128).
THEOREM OnlyOneSpeaks == AutoSpec => []OneSourceSpeaks
  <1>1. AutoIInv => OneSourceSpeaks
    <2> SUFFICES ASSUME AutoIInv, NEW s \in Speakers
                 PROVE  s = locked
      BY DEF OneSourceSpeaks
    <2>1. CASE s \in turned
      BY <2>1 DEF AutoIInv, LockInv
    <2>2. CASE s \in {out[i].sub : i \in {j \in DOMAIN out : ~out[j].ev.initial}}
      BY <2>2 DEF AutoIInv, LockInv
    <2> QED BY <2>1, <2>2 DEF Speakers
  <1> QED BY <1>1, AutoAlwaysIInv, PTL

-----------------------------------------------------------------------------
(***************************************************************************)
(* The winner's stream. Only CancelWatch and CloseOut end the context of   *)
(* the source that won, and out is closed under a live context only after  *)
(* the winner's own channel was: by a failed poll, since nobody told that  *)
(* source to close.                                                        *)
(***************************************************************************)

\* Once a source has won, the context of every other one has ended (auto.go:139).
LosersCancelled == locked # NoSub => locked \in live /\ live \ {locked} \subseteq cancelled

\* The lock is taken once (auto.go:136).
LockedOnce == [][locked # NoSub => locked' = locked]_autoVars

CancelInv ==
    /\ cancelled \subseteq live /\ src \in [Subs -> {"watching", "closed", "failed"}]
    /\ ctx = "live" /\ ~closed => locked \notin cancelled /\ (locked = NoSub => cancelled = {})
    /\ \A s \in Subs : src[s] = "closed" => s \in cancelled
    /\ \A s \in Subs : fwd[s].at = "done" => src[s] # "watching" \/ ctx = "cancelled"

WinnerInv == AutoIInv /\ CancelInv /\ LosersCancelled /\ OnlyLosersStopped

\* What a source does is no business of the lock, and it closes only when told to.
LEMMA WinnerSource ==
    ASSUME WinnerInv, NEW s \in Subs, Flip(s) \/ Look(s) \/ Reseed(s) \/ SourceEnds(s)
    PROVE  CancelInv' /\ LosersCancelled' /\ OnlyLosersStopped'
  <1>1. UNCHANGED <<live, cancelled, fwd, locked, closed, ctx>> /\ s \in live
    BY DEF Flip, Look, Reseed, SourceEnds, showVars, subVars
  <1>2. CASE src' = src
    BY <1>1, <1>2 DEF WinnerInv, CancelInv, LosersCancelled, OnlyLosersStopped
  <1>3. CASE SourceEnds(s)
    <2>1. /\ src[s] = "watching"
          /\ \A r \in Subs : r # s => src'[r] = src[r]
          /\ src'[s] # "watching" /\ (src'[s] = "closed" => s \in cancelled)
          /\ src' \in [Subs -> {"watching", "closed", "failed"}]
      BY <1>3 DEF SourceEnds, WinnerInv, CancelInv
    <2>2. ASSUME ctx = "live", locked \in {s, NoSub}, s \in cancelled
          PROVE  FALSE
      <3>1. closed
        BY <2>2 DEF WinnerInv, CancelInv
      <3>2. fwd[s].at = "done"
        BY <1>1, <3>1 DEF WinnerInv, AutoIInv, NeverSendsOnClosed
      <3> QED BY <2>1, <2>2, <3>2 DEF WinnerInv, CancelInv
    <2>3. OnlyLosersStopped'
      BY <1>1, <2>1, <2>2 DEF WinnerInv, OnlyLosersStopped
    <2> QED BY <1>1, <2>1, <2>3 DEF WinnerInv, CancelInv, LosersCancelled
  <1>4. src' = src \/ SourceEnds(s)
    BY DEF Flip, Look, Reseed, subVars
  <1> QED BY <1>2, <1>3, <1>4

\* The first transition ends the contexts of the others, not its source's own.
LEMMA WinnerDecides ==
    ASSUME WinnerInv, NEW s \in Subs, Decide(s)
    PROVE  CancelInv' /\ LosersCancelled' /\ OnlyLosersStopped'
  <1>1. /\ UNCHANGED <<live, src, closed, ctx>> /\ s \in live /\ fwd[s].at = "decide"
        /\ \A r \in Subs : r # s => fwd'[r] = fwd[r]
        /\ fwd'[s].at # "done"
        /\ \/ locked' = locked /\ cancelled' = cancelled
           \/ locked = NoSub /\ locked' = s /\ cancelled' = cancelled \union (live \ {s})
    <2>1. fwd \in [Subs -> [at : {"range", "decide", "send", "done"}, ev : Event]]
      BY DEF WinnerInv, AutoIInv, ChannelsOK
    <2> HIDE DEF Ranging
    <2>2. fwd' = [fwd EXCEPT ![s].at = "send"] \/ fwd' = [fwd EXCEPT ![s] = Ranging]
      BY DEF Decide
    <2>3. fwd'[s].at # "done" /\ \A r \in Subs : r # s => fwd'[r] = fwd[r]
      BY <2>1, <2>2, RangingIsRange
    <2> QED BY <2>3 DEF Decide, subVars
  <1>2. ~closed
    BY <1>1 DEF WinnerInv, AutoIInv, NeverSendsOnClosed
  <1>3. CASE locked' = locked /\ cancelled' = cancelled
    BY <1>1, <1>3 DEF WinnerInv, CancelInv, LosersCancelled, OnlyLosersStopped
  <1>4. CASE locked = NoSub /\ locked' = s /\ cancelled' = cancelled \union (live \ {s})
    <2>1. ctx = "live" => cancelled = {} /\ \A r \in Subs : src[r] # "closed"
      BY <1>2, <1>4 DEF WinnerInv, CancelInv
    <2>2. s # NoSub
      BY AutoAssumption
    <2> QED BY <1>1, <1>2, <1>4, <2>1, <2>2 DEF WinnerInv, CancelInv, LosersCancelled, OnlyLosersStopped
  <1> QED BY <1>1, <1>3, <1>4

\* A forwarder ends when its source's channel has, or with Watch's context.
LEMMA WinnerForwards ==
    ASSUME WinnerInv, NEW s \in Subs, Receive(s) \/ RangeEnds(s) \/ Send(s)
    PROVE  CancelInv' /\ LosersCancelled' /\ OnlyLosersStopped'
  <1>1. UNCHANGED <<live, src, cancelled, locked, closed, ctx>>
    BY DEF Receive, RangeEnds, Send, subVars
  <1>2. fwd \in [Subs -> [at : {"range", "decide", "send", "done"}, ev : Event]]
    BY DEF WinnerInv, AutoIInv, ChannelsOK
  <1>3. \A r \in Subs : fwd'[r].at = "done" =>
           fwd[r].at = "done" \/ src[r] # "watching" \/ ctx = "cancelled"
    <2>1. CASE Receive(s)
      <3>1. fwd' = [fwd EXCEPT ![s] = [at |-> "decide", ev |-> Head(chan[s])]]
        BY <2>1 DEF Receive
      <3> QED BY <1>2, <3>1
    <2>2. CASE RangeEnds(s)
      <3>1. src[s] # "watching" /\ \A r \in Subs : r # s => fwd'[r] = fwd[r]
        BY <1>2, <2>2 DEF RangeEnds
      <3> QED BY <3>1
    <2>3. CASE Send(s)
      <3> HIDE DEF Ranging
      <3>1. fwd' = [fwd EXCEPT ![s] = Ranging]
            \/ (ctx = "cancelled" /\ \A r \in Subs : r # s => fwd'[r] = fwd[r])
        BY <1>2, <2>3 DEF Send
      <3> QED BY <1>2, <3>1, RangingIsRange
    <2> QED BY <2>1, <2>2, <2>3
  <1> QED BY <1>1, <1>3 DEF WinnerInv, CancelInv, LosersCancelled, OnlyLosersStopped

LEMMA WinnerNext == WinnerInv /\ [AutoNext]_autoVars => WinnerInv'
  <1> SUFFICES ASSUME WinnerInv, [AutoNext]_autoVars
               PROVE  CancelInv' /\ LosersCancelled' /\ OnlyLosersStopped'
    BY AutoNextIInv DEF WinnerInv
  <1>1. ASSUME NEW s \in Subs, Forwarder(s)
        PROVE  CancelInv' /\ LosersCancelled' /\ OnlyLosersStopped'
    BY <1>1, WinnerDecides, WinnerForwards DEF Forwarder
  <1>2. CASE CloseOut
    <2>1. UNCHANGED <<live, src, fwd, locked, ctx>> /\ closed' = TRUE /\ cancelled' = cancelled \union live
      BY <1>2 DEF CloseOut, subVars
    <2> QED BY <2>1 DEF WinnerInv, CancelInv, LosersCancelled, OnlyLosersStopped
  <1>3. CASE CancelWatch
    <2>1. UNCHANGED <<live, src, fwd, locked, closed>> /\ ctx' = "cancelled" /\ cancelled' = cancelled \union live
      BY <1>3 DEF CancelWatch, subVars
    <2> QED BY <2>1 DEF WinnerInv, CancelInv, LosersCancelled, OnlyLosersStopped
  <1>4. CASE Take \/ UNCHANGED autoVars
    <2>1. UNCHANGED <<live, src, cancelled, fwd, locked, closed, ctx>>
      BY <1>4 DEF Take, autoVars, subVars
    <2> QED BY <2>1 DEF WinnerInv, CancelInv, LosersCancelled, OnlyLosersStopped
  <1> QED BY <1>1, <1>2, <1>3, <1>4, WinnerSource DEF AutoNext

LEMMA AlwaysWinnerInv == AutoSpec => []WinnerInv
  <1>1. AutoInit => WinnerInv
    <2> SUFFICES ASSUME AutoInit PROVE WinnerInv
      OBVIOUS
    <2>1. /\ cancelled = {} /\ locked = NoSub /\ ctx = "live" /\ closed = FALSE
          /\ \A s \in Subs : src[s] = "watching" /\ fwd[s].at = "range"
          /\ src \in [Subs -> {"watching", "closed", "failed"}]
      BY RangingIsRange DEF AutoInit
    <2>2. NoSub \notin Subs
      BY AutoAssumption
    <2> QED BY <2>1, <2>2, AutoInitIInv DEF WinnerInv, CancelInv, LosersCancelled, OnlyLosersStopped
  <1> QED BY <1>1, WinnerNext, PTL DEF AutoSpec

\* However the sources race, the lock is taken once, it ends the contexts of the
\* losers, and it leaves the winner watching until its own poll fails or Watch
\* ends: the safety part of WinnerHeard (auto.go:57, 128-141).
THEOREM WinnerKeepsWatching ==
    AutoSpec => [](OnlyLosersStopped /\ LosersCancelled) /\ LockedOnce
  <1>1. WinnerInv => OnlyLosersStopped /\ LosersCancelled
    BY DEF WinnerInv
  <1>2. [AutoNext]_autoVars => [locked # NoSub => locked' = locked]_autoVars
    BY DEF AutoNext, Flip, Look, Reseed, SourceEnds, Forwarder, Receive, RangeEnds, Decide, Send,
           CloseOut, Take, CancelWatch
  <1> QED BY <1>1, <1>2, AlwaysWinnerInv, PTL DEF AutoSpec, LockedOnce

-----------------------------------------------------------------------------
(* The types of the auto source, with the capacities of its channels.      *)

AutoRestOK ==
    /\ changes \in 0..MaxChanges
    /\ lastSeen \in [Subs -> States \union {"unset"}]
    /\ heard \in [Subs -> States \union {"nothing"}]
    /\ locked \in Subs \union {NoSub}
    /\ closed \in BOOLEAN /\ ctx \in {"live", "cancelled"}

Capacities == Len(out) <= OutCap /\ \A s \in Subs : Len(chan[s]) <= 1

LEMMA AutoRestKeeps ==
    ASSUME AutoIInv, AutoRestOK, [AutoNext]_autoVars
    PROVE  AutoRestOK'
  <1>1. ASSUME NEW s \in Subs, Flip(s) \/ Look(s) \/ Reseed(s) \/ SourceEnds(s)
        PROVE  AutoRestOK'
    <2>1. shows[s] \in States
      BY DEF AutoIInv, ChannelsOK
    <2>2. UNCHANGED <<heard, locked, closed, ctx>>
      BY <1>1 DEF Flip, Look, Reseed, SourceEnds, readVars
    <2>3. changes' \in 0..MaxChanges
      BY <1>1, AutoAssumption DEF Flip, Look, Reseed, SourceEnds, showVars, AutoRestOK
    <2>4. lastSeen' \in [Subs -> States \union {"unset"}]
      BY <1>1, <2>1 DEF Flip, Look, Reseed, SourceEnds, subVars, AutoRestOK
    <2> QED BY <2>2, <2>3, <2>4 DEF AutoRestOK
  <1>2. ASSUME NEW s \in Subs, Forwarder(s)
        PROVE  AutoRestOK'
    BY <1>2 DEF Forwarder, Receive, RangeEnds, Decide, Send, showVars, subVars, readVars, AutoRestOK
  <1>3. CASE Take
    <2>1. out # <<>> /\ out \in Seq(Entry)
      BY <1>3 DEF Take, AutoIInv, ChannelsOK
    <2>2. Head(out) \in Entry
      BY <2>1
    <2>3. Head(out).ev.state \in States
      BY <2>2 DEF Entry, Event
    <2>4. heard' \in [Subs -> States \union {"nothing"}]
      BY <1>3, <2>3 DEF Take, AutoRestOK
    <2> QED BY <1>3, <2>4 DEF Take, showVars, subVars, AutoRestOK
  <1>4. CASE CloseOut \/ CancelWatch \/ UNCHANGED autoVars
    BY <1>4 DEF CloseOut, CancelWatch, autoVars, showVars, subVars, readVars, AutoRestOK
  <1> QED BY <1>1, <1>2, <1>3, <1>4 DEF AutoNext

\* A source displaces what nobody has taken, and a forwarder waits for a place
\* in the merged channel (pcmzero/source.go:110, auto.go:95).
LEMMA CapacitiesKept ==
    ASSUME AutoIInv, Capacities, [AutoNext]_autoVars
    PROVE  Capacities'
  <1>1. out \in Seq(Entry) /\ chan \in [Subs -> Seq(Event)] /\ Len(out) \in Nat /\ OutCap \in Nat
    BY AutoAssumption DEF AutoIInv, ChannelsOK
  <1>2. ASSUME NEW s \in Subs, Flip(s) \/ Look(s) \/ Reseed(s) \/ SourceEnds(s)
        PROVE  Capacities'
    <2>1. out' = out
      BY <1>2 DEF Flip, Look, Reseed, SourceEnds
    <2>2. chan' = chan \/ \E e : chan' = [chan EXCEPT ![s] = <<e>>]
      BY <1>2 DEF Flip, Look, Reseed, SourceEnds
    <2>3. \A r \in Subs : Len(chan'[r]) <= 1
      <3>1. \A r \in Subs : chan'[r] = chan[r] \/ \E e : chan'[r] = <<e>>
        BY <1>1, <2>2
      <3>2. ASSUME NEW e PROVE Len(<<e>>) <= 1
        OBVIOUS
      <3>3. ASSUME NEW r \in Subs, NEW e, chan'[r] = <<e>>
            PROVE  Len(chan'[r]) <= 1
        BY <3>2, <3>3, Zenon
      <3> QED BY <3>1, <3>3 DEF Capacities
    <2> QED BY <2>1, <2>3 DEF Capacities
  <1>3. ASSUME NEW s \in Subs, Receive(s)
        PROVE  Capacities'
    <2>1. out' = out /\ chan' = [chan EXCEPT ![s] = Tail(chan[s])] /\ chan[s] # <<>>
      BY <1>1, <1>3 DEF Receive
    <2>2. chan[s] \in Seq(Event)
      BY <1>1
    <2>3. Len(Tail(chan[s])) = Len(chan[s]) - 1 /\ Len(chan[s]) \in Nat
      BY <2>1, <2>2
    <2> QED BY <1>1, <2>1, <2>3 DEF Capacities
  <1>4. ASSUME NEW s \in Subs, RangeEnds(s) \/ Decide(s)
        PROVE  Capacities'
    BY <1>4 DEF RangeEnds, Decide, Capacities
  <1>5. ASSUME NEW s \in Subs, Send(s)
        PROVE  Capacities'
    <2>1. chan' = chan
      BY <1>5 DEF Send
    <2>2. out' = out \/ (Len(out) < OutCap /\ \E e : out' = Append(out, e))
      BY <1>5 DEF Send
    <2>3. \A e : Len(Append(out, e)) = Len(out) + 1
      BY <1>1
    <2>4. Len(out') <= OutCap
      BY <1>1, <2>2, <2>3 DEF Capacities
    <2> QED BY <2>1, <2>4 DEF Capacities
  <1>6. CASE Take
    <2>1. chan' = chan /\ out # <<>> /\ out' = Tail(out)
      BY <1>6 DEF Take
    <2>2. Len(Tail(out)) = Len(out) - 1
      BY <1>1, <2>1
    <2> QED BY <1>1, <2>1, <2>2 DEF Capacities
  <1>7. CASE CloseOut \/ CancelWatch \/ UNCHANGED autoVars
    BY <1>7 DEF CloseOut, CancelWatch, autoVars, Capacities
  <1> QED BY <1>2, <1>3, <1>4, <1>5, <1>6, <1>7 DEF AutoNext, Forwarder

\* Every variable of the auto source keeps its type, and its channels never hold
\* more than their capacity (auto.go:60-156).
THEOREM AutoTypeCorrect == AutoSpec => [](AutoTypeOK /\ Capacities)
  <1>1. AutoInit => AutoRestOK /\ Capacities
    <2>1. ASSUME AutoInit PROVE Capacities
      <3>1. Len(out) = 0 /\ \A s \in Subs : Len(chan[s]) = 0
        BY <2>1 DEF AutoInit
      <3> QED BY <3>1, AutoAssumption DEF Capacities
    <2>2. ASSUME AutoInit PROVE AutoRestOK
      <3>1. /\ 0 \in 0..MaxChanges
            /\ [s \in Subs |-> "unset"] \in [Subs -> States \union {"unset"}]
            /\ [s \in Subs |-> "nothing"] \in [Subs -> States \union {"nothing"}]
        BY AutoAssumption
      <3> QED BY <2>2, <3>1 DEF AutoInit, AutoRestOK
    <2> QED BY <2>1, <2>2
  <1>2. AutoIInv /\ AutoRestOK /\ Capacities /\ [AutoNext]_autoVars => (AutoRestOK /\ Capacities)'
    BY AutoRestKeeps, CapacitiesKept
  <1>3. WinnerInv /\ AutoRestOK => AutoTypeOK
    <2> HIDE DEF Event, Entry
    <2> QED BY DEF WinnerInv, CancelInv, AutoIInv, ChannelsOK, AutoRestOK, AutoTypeOK, Entry
  <1> QED BY AutoAlwaysIInv, AlwaysWinnerInv, <1>1, <1>2, <1>3, PTL DEF AutoSpec

=============================================================================
