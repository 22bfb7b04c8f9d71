--------------------------- MODULE SessionProofs ---------------------------
(***************************************************************************)
(* Theorems about Session, for any number of clients and callbacks.        *)
(***************************************************************************)
EXTENDS Session, TLAPS

USE SessionAssumption DEF Threads

\* The state newSession leaves behind is well typed (session.go:171).
LEMMA TypeInit == Init => TypeOK
BY DEF Init, TypeOK, Frame, NoFrame, NoTimer, PCs, Modes, OnOff

\* The first section of a control request or a mute hook keeps the types
\* (session.go:411-486, 637-697).
LEMMA TypeRequest ==
    ASSUME TypeOK, NEW t \in Threads, Request(t)
    PROVE  TypeOK'
<1> USE DEF TypeOK, Begin, Goto, Frame, NoFrame, PCs, Modes, OnOff, sessionVars, audioVars, panelVars
<1>1. CASE \E m \in Modes : Toggle(t, m)
  BY <1>1 DEF Toggle
<1>2. CASE EnsureTypeOpen(t)
  BY <1>2 DEF EnsureTypeOpen
<1>3. CASE CloseIfTypeOpen(t)
  BY <1>3 DEF CloseIfTypeOpen, TypeOnly
<1>4. CASE Commit(t)
  BY <1>4 DEF Commit
<1>5. CASE Cancel(t)
  BY <1>5 DEF Cancel
<1>6. CASE Shutdown(t)
  BY <1>6 DEF Shutdown
<1> QED  BY <1>1, <1>2, <1>3, <1>4, <1>5, <1>6 DEF Request

\* So does the first step of what a timer, a stall or a panel's exit starts
\* (session.go:369, 393; preview.go:138).
LEMMA TypeCallback ==
    ASSUME TypeOK, NEW t \in Threads, OnCaptureLost(t) \/ IdleFires(t) \/ PanelReaped(t)
    PROVE  TypeOK'
<1> USE DEF TypeOK, Begin, Goto, Frame, NoFrame, PCs, Modes, OnOff, sessionVars, audioVars, panelVars
<1>1. CASE OnCaptureLost(t)
  BY <1>1 DEF OnCaptureLost, TypeOnly
<1>2. CASE IdleFires(t)
  BY <1>2 DEF IdleFires
<1>3. CASE PanelReaped(t)
  BY <1>3 DEF PanelReaped
<1> QED  BY <1>1, <1>2, <1>3

\* So does every later step of a call, to open_ only with a mode to open
\* (session.go:229, 499-630).
LEMMA TypeStep ==
    ASSUME TypeOK, NEW t \in Threads, Step(t)
    PROVE  TypeOK'
<1> USE DEF TypeOK, Goto, Return, Frame, NoFrame, PCs, Modes, OnOff, sessionVars, audioVars, panelVars
<1>1. CASE Clip(t)
  BY <1>1 DEF Clip
<1>2. CASE CloseTypeIfOpen(t)
  BY <1>2 DEF CloseTypeIfOpen
<1>3. CASE OnIdle(t)
  BY <1>3 DEF OnIdle
<1>4. CASE SyncRead(t)
  BY <1>4 DEF SyncRead, SyncAt
<1>5. CASE CloseBegin(t)
  <2>1. CASE open
    BY <1>5, <2>1 DEF CloseBegin
  <2>2. CASE ~open
    BY <1>5, <2>2 DEF CloseBegin, CloseReturn
  <2> QED  BY <2>1, <2>2
<1>6. CASE CloseFlip(t)
  BY <1>6 DEF CloseFlip, DisarmIdle, NoTimer
<1>7. CASE CloseSynced(t)
  BY <1>7 DEF CloseSynced, SyncTo
<1>8. CASE Kill(t)
  <2>1. marks' \in SUBSET {"stopped", "leaving"}
    BY <1>8 DEF Kill
  <2>2. killers' \in SUBSET Threads
    BY <1>8 DEF Kill
  <2> QED  BY <1>8, <2>1, <2>2 DEF Kill
<1>9. CASE KillReturn(t)
  BY <1>9 DEF KillReturn
<1>10. CASE ClosePublish(t)
  BY <1>10 DEF ClosePublish, CloseReturn
<1>11. CASE OpenBegin(t)
  BY <1>11 DEF OpenBegin
<1>12. CASE ResetVAD(t)
  BY <1>12 DEF ResetVAD
<1>13. CASE OpenSynced(t)
  BY <1>13 DEF OpenSynced, SyncTo
<1>14. CASE Spawn(t)
  <2>1. marks' \in SUBSET {"stopped", "leaving"} /\ UNCHANGED killers
    BY <1>14 DEF Spawn
  <2>2. panel' \in {panel, "starting"}
    BY <1>14 DEF Spawn
  <2>3. /\ pc' \in {[pc EXCEPT ![t] = "rollback"], [pc EXCEPT ![t] = "openPublish"]}
        /\ UNCHANGED <<sessionVars, audioVars, frame>>
    BY <1>14 DEF Spawn
  <2> QED  BY <2>1, <2>2, <2>3
<1>15. CASE OpenPublish(t)
  BY <1>15 DEF OpenPublish
<1>16. CASE ArmIdle(t)
  BY <1>16 DEF ArmIdle
<1>17. CASE RollbackOpen(t)
  BY <1>17 DEF RollbackOpen, DisarmIdle, NoTimer
<1>18. CASE RollbackSynced(t)
  BY <1>18 DEF RollbackSynced, SyncTo
<1> QED
  BY <1>1, <1>2, <1>3, <1>4, <1>5, <1>6, <1>7, <1>8, <1>9, <1>10, <1>11, <1>12,
     <1>13, <1>14, <1>15, <1>16, <1>17, <1>18 DEF Step

\* So does every step of the daemon, the panel's and the audio loop's included.
LEMMA TypeNext ==
    ASSUME TypeOK, [Next]_vars
    PROVE  TypeOK'
<1>1. CASE \E t \in Clients : Request(t)
  BY <1>1, TypeRequest
<1>2. CASE \E t \in Callbacks : OnCaptureLost(t) \/ IdleFires(t) \/ PanelReaped(t)
  BY <1>2, TypeCallback
<1>3. CASE \E t \in Threads : Step(t)
  BY <1>3, TypeStep
<1>4. CASE NoteSpeech \/ PanelSubscribes \/ PanelExits \/ UNCHANGED vars
  BY <1>4 DEF NoteSpeech, PanelSubscribes, PanelExits, vars,
              TypeOK, sessionVars, audioVars, panelVars
<1> QED  BY <1>1, <1>2, <1>3, <1>4 DEF Next

\* Every variable keeps its type, a session is open exactly when it has a mode,
\* and open_ always knows the mode it opens (session.go:499-630).
THEOREM TypeCorrect == Spec => []TypeOK
<1>1. TypeOK /\ [Next]_vars => TypeOK'
  BY TypeNext
<1> QED  BY TypeInit, <1>1, PTL DEF Spec

-----------------------------------------------------------------------------
(***************************************************************************)
(* Capture follows the session. CaptureFollowsSession alone is not         *)
(* inductive: it says nothing of a thread between reading the open flag    *)
(* and acting on it. CaptureInv adds that: while audioMu is held with a    *)
(* reading that is out of date, the thread that made it so is still on its *)
(* way to audioMu.                                                         *)
(***************************************************************************)

Labels == Synced \union Syncing

\* A step that leaves session and capture alone, and takes no thread out of
\* the set of those that will repair a difference, preserves CaptureInv.
LEMMA QuietStep ==
    ASSUME TypeOK, CaptureInv, UNCHANGED <<mode, audioVars>>,
           \A u \in Threads : /\ pc'[u] \in Synced <=> pc[u] \in Synced
                              /\ pc[u] = "openSynced" => pc'[u] = "openSynced"
                              /\ pc[u] \in Starting => pc'[u] \in Starting
                              /\ pc[u] \in Syncing => pc'[u] \in Syncing
    PROVE  CaptureInv'
BY DEF CaptureInv, audioVars, open, TypeOK, OnOff

\* A thread that goes from a label to another one, neither of them in syncAudio.
LEMMA QuietMove ==
    ASSUME TypeOK, CaptureInv, UNCHANGED <<mode, audioVars>>, NEW t \in Threads,
           pc[t] \notin Labels \/ pc[t] = "vad",
           pc[t] = "vad" => pc'[t] = "openSync",
           pc[t] # "vad" => pc'[t] \notin Synced,
           pc' = [pc EXCEPT ![t] = pc'[t]]
    PROVE  CaptureInv'
<1>1. \A u \in Threads : u # t => pc'[u] = pc[u]
  BY DEF TypeOK
<1> QED  BY <1>1, QuietStep DEF Labels, Synced, Syncing, Starting

\* A request begins far from syncAudio, and changes neither session nor capture.
LEMMA CaptureRequest ==
    ASSUME TypeOK, CaptureInv, NEW t \in Threads, Request(t)
    PROVE  CaptureInv'
<1>1. /\ UNCHANGED <<mode, audioVars>>
      /\ pc[t] = "idle"
      /\ \E l \in {"open", "close", "clip"} : pc' = [pc EXCEPT ![t] = l]
  BY DEF Request, Toggle, EnsureTypeOpen, CloseIfTypeOpen, Commit, Cancel, Shutdown, Begin, Goto, sessionVars
<1> QED  BY <1>1, QuietMove DEF Labels, Synced, Syncing, TypeOK

\* So does a callback; a panel's exit after a Kill starts no call at all.
LEMMA CaptureCallback ==
    ASSUME TypeOK, CaptureInv, NEW t \in Threads,
           OnCaptureLost(t) \/ IdleFires(t) \/ PanelReaped(t)
    PROVE  CaptureInv'
<1>1. /\ UNCHANGED <<mode, audioVars>>
      /\ \/ pc' = pc
         \/ /\ pc[t] = "idle"
            /\ \E l \in {"close", "lostCheck", "idleCheck"} : pc' = [pc EXCEPT ![t] = l]
  BY DEF OnCaptureLost, IdleFires, PanelReaped, Begin, Goto, sessionVars
<1>2. CASE pc' = pc
  BY <1>1, <1>2, QuietStep
<1> QED  BY <1>1, <1>2, QuietMove DEF Labels, Synced, Syncing, TypeOK

\* The steps of a call that stay clear of syncAudio.
LEMMA CaptureQuietStep ==
    ASSUME TypeOK, CaptureInv, NEW t \in Threads,
           \/ Clip(t) \/ CloseTypeIfOpen(t) \/ OnIdle(t) \/ CloseBegin(t)
           \/ Kill(t) \/ KillReturn(t) \/ ClosePublish(t) \/ ResetVAD(t)
           \/ Spawn(t) \/ OpenPublish(t) \/ ArmIdle(t)
    PROVE  CaptureInv'
<1>1. /\ UNCHANGED <<mode, audioVars>>
      /\ \/ /\ pc[t] = "vad"
            /\ pc' = [pc EXCEPT ![t] = "openSync"]
         \/ /\ pc[t] \in {"clip", "lostCheck", "idleCheck", "close", "kill", "killWait",
                          "closePublish", "spawn", "openPublish", "arm"}
            /\ \E l \in {"close", "idle", "flush", "open", "killWait", "closePublish",
                         "rollback", "openPublish", "arm"} : pc' = [pc EXCEPT ![t] = l]
  BY DEF Clip, CloseTypeIfOpen, OnIdle, CloseBegin, Kill, KillReturn, ClosePublish, ResetVAD,
         Spawn, OpenPublish, ArmIdle, CloseReturn, Return, Goto, sessionVars
<1> QED  BY <1>1, QuietMove DEF Labels, Synced, Syncing, TypeOK

\* The steps through audioMu, and the ones that change the session's mode.
LEMMA CaptureSyncStep ==
    ASSUME TypeOK, CaptureInv, NEW t \in Threads,
           \/ SyncRead(t) \/ CloseSynced(t) \/ OpenSynced(t) \/ RollbackSynced(t)
           \/ CloseFlip(t) \/ RollbackOpen(t) \/ OpenBegin(t)
    PROVE  CaptureInv'
<1> USE DEF CaptureInv, TypeOK, Goto, Return, Synced, Syncing, Starting, open, OnOff,
            sessionVars, audioVars
<1>1. CASE SyncRead(t)
  BY <1>1 DEF SyncRead, SyncAt
<1>2. CASE CloseSynced(t)
  BY <1>2 DEF CloseSynced, SyncTo
<1>3. CASE OpenSynced(t)
  BY <1>3 DEF OpenSynced, SyncTo
<1>4. CASE RollbackSynced(t)
  BY <1>4 DEF RollbackSynced, SyncTo
<1>5. CASE CloseFlip(t)
  BY <1>5 DEF CloseFlip
<1>6. CASE RollbackOpen(t)
  BY <1>6 DEF RollbackOpen
<1>7. CASE OpenBegin(t)
  BY <1>7 DEF OpenBegin
<1> QED  BY <1>1, <1>2, <1>3, <1>4, <1>5, <1>6, <1>7

\* CaptureInv is inductive on the well-typed states.
LEMMA CaptureNext ==
    ASSUME TypeOK, CaptureInv, [Next]_vars
    PROVE  CaptureInv'
<1>1. CASE \E t \in Clients : Request(t)
  BY <1>1, CaptureRequest
<1>2. CASE \E t \in Callbacks : OnCaptureLost(t) \/ IdleFires(t) \/ PanelReaped(t)
  BY <1>2, CaptureCallback
<1>3. CASE \E t \in Threads : Step(t)
  BY <1>3, CaptureQuietStep, CaptureSyncStep DEF Step
<1>4. CASE NoteSpeech \/ PanelSubscribes \/ PanelExits \/ UNCHANGED vars
  <2>1. UNCHANGED <<mode, audioVars>> /\ pc' = pc
    BY <1>4 DEF NoteSpeech, PanelSubscribes, PanelExits, vars, sessionVars, audioVars
  <2> QED  BY <2>1, QuietStep
<1> QED  BY <1>1, <1>2, <1>3, <1>4 DEF Next

\* Capture converges on the session's final state, whatever order overlapping
\* opens, closes and failed opens reach audioMu in (session.go:229-244).
THEOREM CaptureConverges == Spec => [](CaptureInv /\ CaptureFollowsSession)
<1>1. Init => CaptureInv
  BY DEF Init, CaptureInv, Synced, open
<1>2. TypeOK /\ CaptureInv /\ [Next]_vars => CaptureInv'
  BY CaptureNext
<1>3. TypeOK /\ CaptureInv => CaptureFollowsSession
  BY DEF TypeOK, CaptureInv, CaptureFollowsSession, Starting, Syncing, OnOff, open
<1> QED  BY TypeCorrect, <1>1, <1>2, <1>3, PTL DEF Spec

-----------------------------------------------------------------------------

\* Every step of the session is one of SessionEpochs' three sections, or leaves
\* mode and epoch alone: TypePipeline may take them for its environment.
THEOREM SessionImplementsEpochs == Spec => ImplementsEpochs
<1>1. Init => Epochs!EpochInit
  BY DEF Init, Epochs!EpochInit
<1>2. TypeOK /\ [Next]_vars => [Epochs!EpochNext]_<<mode, epoch>>
  <2> SUFFICES ASSUME TypeOK, [Next]_vars
               PROVE  UNCHANGED <<mode, epoch>> \/ Epochs!EpochNext
    OBVIOUS
  <2>1. ASSUME NEW t \in Threads, Request(t)
        PROVE  UNCHANGED <<mode, epoch>>
    BY <2>1 DEF Request, Toggle, EnsureTypeOpen, CloseIfTypeOpen, Commit, Cancel, Shutdown, sessionVars
  <2>2. ASSUME NEW t \in Threads, OnCaptureLost(t) \/ IdleFires(t) \/ PanelReaped(t)
        PROVE  UNCHANGED <<mode, epoch>>
    BY <2>2 DEF OnCaptureLost, IdleFires, PanelReaped, sessionVars
  <2>3. ASSUME NEW t \in Threads, Step(t)
        PROVE  UNCHANGED <<mode, epoch>> \/ Epochs!EpochNext
    <3>1. CASE OpenBegin(t)
      <4>1. CASE open /\ mode = frame[t].target
        BY <3>1, <4>1 DEF OpenBegin
      <4>2. CASE ~(open /\ mode = frame[t].target)
        <5>1. frame[t].target \in Modes /\ pc[t] = "open"
          BY <3>1 DEF OpenBegin, TypeOK, Frame
        <5>2. mode # frame[t].target
          BY <4>2, <5>1 DEF open, Modes
        <5> QED  BY <3>1, <4>2, <5>1, <5>2
                 DEF OpenBegin, Epochs!EpochNext, Epochs!OpenSession, Epochs!Modes, Modes
      <4> QED  BY <4>1, <4>2
    <3>2. CASE CloseFlip(t)
      BY <3>2 DEF CloseFlip, Epochs!EpochNext, Epochs!CloseSession
    <3>3. CASE RollbackOpen(t)
      BY <3>3 DEF RollbackOpen, Epochs!EpochNext, Epochs!RollbackSession
    <3>4. CASE ~OpenBegin(t) /\ ~CloseFlip(t) /\ ~RollbackOpen(t)
      BY <2>3, <3>4 DEF Step, Clip, CloseTypeIfOpen, OnIdle, SyncRead, CloseBegin, CloseSynced,
         Kill, KillReturn, ClosePublish, ResetVAD, OpenSynced, Spawn, OpenPublish, ArmIdle,
         RollbackSynced, sessionVars
    <3> QED  BY <3>1, <3>2, <3>3, <3>4
  <2> QED
    BY <2>1, <2>2, <2>3 DEF Next, NoteSpeech, PanelSubscribes, PanelExits, vars, sessionVars
<1> QED  BY TypeCorrect, <1>1, <1>2, PTL DEF Spec, ImplementsEpochs, Epochs!EpochSpec

-----------------------------------------------------------------------------
(* What EveryCallReturns rests on: nothing is waited for that nobody will  *)
(* give.                                                                   *)

\* A thread that waits for exitCh waits for a panel that was told to leave and
\* is still to be reaped, however many panels have come and gone since its Kill
\* (preview.go:138, 184).
KilledIsLeaving == killers # {} => panel # "none" /\ "leaving" \in marks

\* exitCh is waited for in Kill only, audioMu held in syncAudio only, and one
\* that is free has no holder (session.go:229).
KillersWait == \A t \in killers : pc[t] = "killWait"
HoldersSync == \A t \in Threads : pc[t] \in Synced <=> audioMu = t

\* Nobody waits for ever on a panel another thread has reaped, on one that was
\* started after it, or on a mutex whose holder has returned: the safety part of
\* EveryCallReturns.
THEOREM WaitsEnd == Spec => [](KilledIsLeaving /\ KillersWait /\ HoldersSync)
<1>1. Init => KilledIsLeaving /\ KillersWait
  BY DEF Init, KilledIsLeaving, KillersWait
<1>2. TypeOK /\ KilledIsLeaving /\ KillersWait /\ [Next]_vars => (KilledIsLeaving /\ KillersWait)'
  <2> SUFFICES ASSUME TypeOK, KilledIsLeaving, KillersWait, [Next]_vars
               PROVE  KilledIsLeaving' /\ KillersWait'
    OBVIOUS
  <2> USE DEF TypeOK, KilledIsLeaving, KillersWait, Goto, Return, Begin, panelVars
  <2>1. ASSUME NEW t \in Threads, Request(t) \/ OnCaptureLost(t) \/ IdleFires(t)
        PROVE  KilledIsLeaving' /\ KillersWait'
    <3>1. UNCHANGED panelVars /\ pc[t] = "idle" /\ \A u \in Threads : u # t => pc'[u] = pc[u]
      BY <2>1 DEF Request, Toggle, EnsureTypeOpen, CloseIfTypeOpen, Commit, Cancel, Shutdown,
                  OnCaptureLost, IdleFires
    <3> QED  BY <3>1
  <2>2. ASSUME NEW t \in Threads, PanelReaped(t)
        PROVE  KilledIsLeaving' /\ KillersWait'
    BY <2>2 DEF PanelReaped
  <2>3. ASSUME NEW t \in Threads, Step(t)
        PROVE  KilledIsLeaving' /\ KillersWait'
    <3>1. CASE Kill(t)
      <4>1. /\ killers' \in {killers, killers \union {t}}
            /\ killers' # {} => panel' # "none" /\ "leaving" \in marks'
            /\ t \in killers' => pc'[t] = "killWait"
            /\ \A u \in Threads : u # t => pc'[u] = pc[u]
        BY <3>1 DEF Kill
      <4> QED  BY <4>1
    <3>2. CASE KillReturn(t)
      BY <3>2 DEF KillReturn
    <3>3. CASE ClosePublish(t)
      <4>1. /\ UNCHANGED <<panel, killers>> /\ ("leaving" \in marks => "leaving" \in marks')
            /\ pc[t] = "closePublish" /\ \A u \in Threads : u # t => pc'[u] = pc[u]
        BY <3>3 DEF ClosePublish, CloseReturn
      <4> QED  BY <4>1
    <3>4. CASE Spawn(t)
      <4>1. /\ killers' = killers /\ (panel # "none" => UNCHANGED <<panel, marks>>)
            /\ pc[t] = "spawn" /\ \A u \in Threads : u # t => pc'[u] = pc[u]
        BY <3>4 DEF Spawn
      <4> QED  BY <4>1
    <3>5. CASE ~Kill(t) /\ ~KillReturn(t) /\ ~ClosePublish(t) /\ ~Spawn(t)
      <4>1. /\ UNCHANGED panelVars /\ pc[t] # "killWait"
            /\ \A u \in Threads : u # t => pc'[u] = pc[u]
        <5>1. CASE Clip(t) \/ CloseTypeIfOpen(t) \/ OnIdle(t) \/ SyncRead(t)
          BY <5>1 DEF Clip, CloseTypeIfOpen, OnIdle, SyncRead
        <5>2. CASE CloseBegin(t) \/ CloseFlip(t) \/ CloseSynced(t)
          BY <5>2 DEF CloseBegin, CloseReturn, CloseFlip, CloseSynced
        <5>3. CASE OpenBegin(t) \/ ResetVAD(t) \/ OpenSynced(t) \/ OpenPublish(t)
          BY <5>3 DEF OpenBegin, ResetVAD, OpenSynced, OpenPublish
        <5>4. CASE ArmIdle(t) \/ RollbackOpen(t) \/ RollbackSynced(t)
          BY <5>4 DEF ArmIdle, RollbackOpen, RollbackSynced
        <5> QED  BY <2>3, <3>5, <5>1, <5>2, <5>3, <5>4 DEF Step
      <4> QED  BY <4>1
    <3> QED  BY <3>1, <3>2, <3>3, <3>4, <3>5
  <2>4. CASE NoteSpeech \/ PanelSubscribes \/ PanelExits \/ UNCHANGED vars
    BY <2>4 DEF NoteSpeech, PanelSubscribes, PanelExits, vars
  <2> QED  BY <2>1, <2>2, <2>3, <2>4 DEF Next
<1>3. CaptureInv => HoldersSync
  BY DEF CaptureInv, HoldersSync
<1> QED
  BY TypeCorrect, CaptureConverges, <1>1, <1>2, <1>3, PTL DEF Spec

=============================================================================
