-------------------------------- MODULE Typer --------------------------------
(***************************************************************************)
(* The keyboard dispatcher (internal/dispatch/typer.go) as the typing      *)
(* worker drives it, one text at a time: the pieces of a text, each a run  *)
(* of ydotool, the release of keys after a kill, and the circuit breaker.  *)
(* The pieces are cut by Chunking, in the place of the call to chunkString. *)
(***************************************************************************)
EXTENDS Chunking

CONSTANTS Threshold, \* BreakerThreshold
          Remembered \* BOUND: attempts the history keeps, and the failures counted

ASSUME TyperAssumption ==
    /\ Threshold \in Nat \ {0}
    /\ Remembered \in Nat /\ Remembered > Threshold

VARIABLES at,       \* where Type is
          next,     \* the piece to type
          failed,   \* the attempt's error, if any
          killed,   \* ydotool ended by a signal in this attempt
          swept,    \* the release of all keys was sent in this attempt
          failures, \* consecutiveFailures
          breaker,  \* open
          cooled,   \* BreakerCooldown has passed since openedAt
          notified,
          notices,  \* notices given since the breaker was last closed
          ctx,      \* daemonCtx
          tool,     \* ydotool works, fails or hangs
          history   \* the last attempts that count, newest last

callVars == <<chunkVars, next, failed, killed, swept>>
breakerVars == <<failures, breaker, cooled, notified, notices>>
envVars == <<ctx, tool>>
vars == <<at, callVars, breakerVars, envVars, history>>

TypeOK ==
    /\ at \in {"idle", "called", "cut", "invoke", "pause", "sweep", "record"}
    /\ ChunkTypeOK
    /\ next \in 0..Len(ends)
    /\ failed \in BOOLEAN /\ killed \in BOOLEAN /\ swept \in BOOLEAN
    /\ failures \in 0..Remembered
    /\ breaker \in {"open", "closed"} /\ cooled \in BOOLEAN
    /\ notified \in BOOLEAN /\ notices \in 0..2
    /\ ctx \in {"live", "cancelled"}
    /\ tool \in {"ok", "fails", "hangs"}
    /\ history \in Seq({"ok", "failed"}) /\ Len(history) <= Remembered

Init ==
    /\ at = "idle"
    /\ ChunkInit /\ next = 0
    /\ failed = FALSE /\ killed = FALSE /\ swept = FALSE
    /\ failures = 0 /\ breaker = "closed" /\ cooled = FALSE
    /\ notified = FALSE /\ notices = 0
    /\ ctx = "live" /\ tool = "ok"
    /\ history = <<>>

\* The worker has words for the keyboard.
Type ==
    /\ at = "idle"
    /\ at' = "called"
    /\ UNCHANGED <<callVars, breakerVars, envVars, history>>

\* Fault: an open breaker stays open.
AllowAttemptNoProbe ==
    /\ at = "called"
    /\ IF breaker = "closed"
       THEN /\ at' = "cut"
            /\ Call
            /\ UNCHANGED next
            /\ failed' = FALSE /\ killed' = FALSE /\ swept' = FALSE
       ELSE at' = "idle" /\ UNCHANGED callVars
    /\ UNCHANGED <<breakerVars, envVars, history>>

\* breakerAllowAttempt: shed the text, or go on to cut it.
AllowAttempt ==
    /\ at = "called"
    /\ IF breaker = "closed" \/ cooled
       THEN /\ at' = "cut"
            /\ Call
            /\ UNCHANGED next
            /\ failed' = FALSE /\ killed' = FALSE /\ swept' = FALSE
       ELSE at' = "idle" /\ UNCHANGED callVars
    /\ UNCHANGED <<breakerVars, envVars, history>>

CutPiece ==
    /\ at = "cut"
    /\ Cut
    /\ UNCHANGED <<at, next, failed, killed, swept, breakerVars, envVars, history>>

CutRest ==
    /\ at = "cut"
    /\ Rest
    /\ at' = "invoke" /\ next' = 1
    /\ UNCHANGED <<failed, killed, swept, breakerVars, envVars, history>>

\* ydotool typed the piece; it may have been done before a cancellation.
PieceTyped ==
    /\ at = "invoke" /\ tool = "ok"
    /\ IF next = Len(ends)
       THEN at' = "record" /\ UNCHANGED next
       ELSE at' = "pause" /\ next' = next + 1
    /\ UNCHANGED <<chunkVars, failed, killed, swept, breakerVars, envVars, history>>

PauseEnds ==
    /\ at = "pause"
    /\ at' = "invoke"
    /\ UNCHANGED <<callVars, breakerVars, envVars, history>>

PauseCancelled ==
    /\ at = "pause" /\ ctx = "cancelled"
    /\ at' = "record" /\ failed' = TRUE
    /\ UNCHANGED <<chunkVars, next, killed, swept, breakerVars, envVars, history>>

\* ydotool exits with an error, or a cancelled context keeps it from starting.
InvokeFails ==
    /\ at = "invoke"
    /\ tool = "fails" \/ ctx = "cancelled"
    /\ at' = "record" /\ failed' = TRUE
    /\ UNCHANGED <<chunkVars, next, killed, swept, breakerVars, envVars, history>>

\* The deadline or a cancellation kills ydotool, perhaps with a key down.
InvokeKilled ==
    /\ at = "invoke"
    /\ tool = "hangs" \/ ctx = "cancelled"
    /\ at' = "sweep" /\ failed' = TRUE /\ killed' = TRUE
    /\ UNCHANGED <<chunkVars, next, swept, breakerVars, envVars, history>>

\* The sweep's context derives from the caller's: once that is cancelled,
\* ydotool is not started.
ReleaseAllKeys ==
    /\ at = "sweep"
    /\ swept' = (ctx = "live")
    /\ at' = "record"
    /\ UNCHANGED <<chunkVars, next, failed, killed, breakerVars, envVars, history>>

Capped(n) == IF n > Remembered THEN Remembered ELSE n

Remember(outcome) ==
    history' = IF Len(history) = Remembered THEN Append(Tail(history), outcome)
               ELSE Append(history, outcome)

\* A failure after a cancellation is no failure of ydotool.
RecordCancelled ==
    /\ failed /\ ctx = "cancelled"
    /\ UNCHANGED <<breakerVars, history>>

\* Fault: success leaves the count.
RecordOKKeepsCount ==
    /\ ~failed
    /\ breaker' = "closed" /\ cooled' = FALSE
    /\ notified' = FALSE /\ notices' = 0
    /\ UNCHANGED failures
    /\ Remember("ok")

RecordOK ==
    /\ ~failed
    /\ failures' = 0 /\ breaker' = "closed" /\ cooled' = FALSE
    /\ notified' = FALSE /\ notices' = 0
    /\ Remember("ok")

\* Fault: the probe that fails is told again.
RecordFailureTellsProbes ==
    /\ failed /\ ctx = "live"
    /\ failures' = Capped(failures + 1)
    /\ LET tells == failures' >= Threshold
       IN /\ breaker' = IF tells THEN "open" ELSE breaker
          /\ cooled' = FALSE
          /\ notified' = (notified \/ tells)
          /\ notices' = IF tells /\ notices < 2 THEN notices + 1 ELSE notices
    /\ Remember("failed")

\* Each failure counts; at the threshold, and after a failed probe, the cooldown
\* starts. The first of an outage is notified.
RecordFailure ==
    /\ failed /\ ctx = "live"
    /\ failures' = Capped(failures + 1)
    /\ LET opens == breaker = "closed" /\ failures' >= Threshold
           tells == opens /\ ~notified
       IN /\ breaker' = IF opens THEN "open" ELSE breaker
          /\ cooled' = FALSE
          /\ notified' = (notified \/ tells)
          /\ notices' = IF tells /\ notices < 2 THEN notices + 1 ELSE notices
    /\ Remember("failed")

\* recordResult, and Type returns.
Record ==
    /\ at = "record"
    /\ RecordCancelled \/ RecordOK \/ RecordFailure
    /\ at' = "idle"
    /\ Forget /\ next' = 0
    /\ failed' = FALSE /\ killed' = FALSE /\ swept' = FALSE
    /\ UNCHANGED envVars

CooldownElapses ==
    /\ breaker = "open" /\ ~cooled
    /\ cooled' = TRUE
    /\ UNCHANGED <<at, callVars, failures, breaker, notified, notices, envVars, history>>

Cancel ==
    /\ ctx = "live"
    /\ ctx' = "cancelled"
    /\ UNCHANGED <<at, callVars, breakerVars, tool, history>>

ToolChanges ==
    /\ tool' \in {"ok", "fails", "hangs"} \ {tool}
    /\ UNCHANGED <<at, callVars, breakerVars, ctx, history>>

Attempt ==
    \/ AllowAttempt \/ CutPiece \/ CutRest \/ PieceTyped \/ PauseEnds \/ PauseCancelled
    \/ InvokeFails \/ InvokeKilled \/ ReleaseAllKeys \/ Record

Next == Type \/ Attempt \/ CooldownElapses \/ Cancel \/ ToolChanges

Spec == Init /\ [][Next]_vars

\* An attempt goes on, since every ydotool run has a deadline, and time passes.
FairSpec == Spec /\ WF_vars(Attempt) /\ WF_vars(CooldownElapses)
-----------------------------------------------------------------------------

\* The last n attempts all failed.
Outage(n) == Len(history) >= n /\ \A k \in 0..(n - 1) : history[Len(history) - k] = "failed"

\* The breaker is open exactly while the last Threshold attempts all failed,
\* whatever cancellations came in between: one failure after a success must not
\* disable typing, and an outage must not be typed into (typer.go:258).
OpenDuringOutage == breaker = "open" <=> Outage(Threshold)

\* An outage is told once, however many probes fail in it (typer.go:81).
ToldOnce == notices = IF Outage(Threshold) THEN 1 ELSE 0

\* Typing comes back by itself: once ydotool works and the daemon runs on,
\* a worker that keeps having words closes the breaker for good (typer.go:246).
TypingComesBack ==
    <>[](tool = "ok" /\ ctx = "live") /\ []<>(at = "called") => <>[](breaker = "closed")

-----------------------------------------------------------------------------
(* What the code's comments say, and the code does not do.                 *)

\* A kill is followed by a release of all keys (typer.go:328).
KillIsSwept == at = "record" /\ killed => swept
=============================================================================
