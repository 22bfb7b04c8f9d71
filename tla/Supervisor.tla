----------------------------- MODULE Supervisor -----------------------------
(***************************************************************************)
(* The supervise loop of whisper-server (internal/whispersup/              *)
(* supervisor.go): spawn, probe, wait for the exit, back off, respawn; and *)
(* the callers that wait for it, WaitReady and Stop.                       *)
(*                                                                         *)
(* A subprocess is killed either by SIGTERM (killGroup), which a stubborn  *)
(* one ignores, or by the SIGKILL that exec.CommandContext sends when ctx  *)
(* ends. Only cmd.Wait reaps it.                                           *)
(***************************************************************************)
EXTENDS Naturals, FiniteSets

CONSTANTS ConfiguredPort, \* cfg.Port: 0 asks for an ephemeral one
          Ephemeral,      \* the ports the kernel may pick
          Initial, Max,   \* restart backoff, in the unit of Initial
          MaxSpawns       \* BOUND: subprocesses started in a behaviour

ASSUME SupervisorAssumption ==
    /\ Ephemeral \subseteq Nat \ {0} /\ Ephemeral # {}
    /\ ConfiguredPort \in Nat
    /\ Initial \in Nat \ {0} /\ Max \in Nat /\ Initial <= Max
    /\ MaxSpawns \in Nat

Servers == 1..MaxSpawns

VARIABLES at,       \* where run is
          state,    \* s.state
          port,     \* s.port; the endpoint is made of it
          endpoint, \* the port s.endpoint names, 0 while it is empty
          readied,  \* how often readyCh was closed
          lastErr,  \* s.lastErr
          backoff,  \* the loop's backoff
          spawned,  \* subprocesses started so far; the last one is the current one
          server,   \* of each subprocess: its life
          term,     \* subprocesses that were sent SIGTERM
          ctx,      \* the context of Start
          stop,     \* callers of Stop: none, blocked on doneCh, returned
          waiter    \* a caller of WaitReady

vars == <<at, state, port, endpoint, readied, lastErr, backoff, spawned, server,
          term, ctx, stop, waiter>>

loopVars   == <<at, state, port, endpoint, readied, lastErr, backoff, spawned>>
serverVars == <<server, term>>
callerVars == <<ctx, stop, waiter>>

TypeOK ==
    /\ at \in {"unstarted", "top", "spawn", "probe", "reap", "watch", "drain", "sleep", "done"}
    /\ state \in {"idle", "starting", "ready", "crashed", "stopping", "stopped"}
    /\ port \in Ephemeral \union {0, ConfiguredPort}
    /\ endpoint \in Ephemeral \union {0, ConfiguredPort}
    /\ readied \in Nat
    /\ lastErr \in {"none", "port", "start", "probe", "exit"}
    /\ backoff \in Initial..Max
    /\ spawned \in 0..MaxSpawns
    /\ server \in [Servers -> {"none", "loading", "listening", "exited", "reaped"}]
    /\ term \in SUBSET Servers
    /\ ctx \in {"live", "cancelled"}
    /\ stop \in {"none", "blocked", "returned"}
    /\ waiter \in {"none", "blocked", "ready", "failed"}

Init ==
    /\ at = "unstarted"
    /\ state = "idle"
    /\ port = 0
    /\ endpoint = 0
    /\ readied = 0
    /\ lastErr = "none"
    /\ backoff = Initial
    /\ spawned = 0
    /\ server = [p \in Servers |-> "none"]
    /\ term = {}
    /\ ctx = "live"
    /\ stop = "none"
    /\ waiter = "none"

Alive(p) == server[p] \in {"loading", "listening"}

-----------------------------------------------------------------------------
(* The supervise loop.                                                     *)

Start ==
    /\ at = "unstarted"
    /\ at' = "top"
    /\ state' = "starting"
    /\ IF ConfiguredPort # 0
       THEN port' = ConfiguredPort /\ endpoint' = ConfiguredPort
       ELSE UNCHANGED <<port, endpoint>>
    /\ UNCHANGED <<readied, lastErr, backoff, spawned, serverVars, callerVars>>

Stopping == stop # "none" \/ ctx = "cancelled"

\* The deferred calls of run: state, then doneCh.
RunReturns ==
    /\ at' = "done"
    /\ state' = "stopped"

ShouldStop ==
    /\ at = "top"
    /\ Stopping
    /\ RunReturns
    /\ UNCHANGED <<port, endpoint, readied, lastErr, backoff, spawned, serverVars, callerVars>>

\* Fault: every respawn picks a port of its own.
ResolveNewPort ==
    /\ at = "top" /\ ~Stopping
    /\ at' = "spawn"
    /\ \E p \in Ephemeral : port' = p /\ endpoint' = p
    /\ UNCHANGED <<state, readied, lastErr, backoff, spawned, serverVars, callerVars>>

\* The port is picked once and kept; the pick may fail.
ResolvePort ==
    /\ at = "top"
    /\ ~Stopping
    /\ \/ /\ port # 0
          /\ at' = "spawn"
          /\ UNCHANGED <<port, endpoint, lastErr>>
       \/ /\ port = 0
          /\ at' = "spawn"
          /\ \E p \in Ephemeral : port' = p /\ endpoint' = p
          /\ UNCHANGED lastErr
       \/ /\ port = 0
          /\ at' = "sleep"
          /\ lastErr' = "port"
          /\ UNCHANGED <<port, endpoint>>
    /\ UNCHANGED <<state, readied, backoff, spawned, serverVars, callerVars>>

\* cmd.Start, with the arguments of buildCmd.
Spawn ==
    /\ at = "spawn"
    /\ \/ /\ spawned < MaxSpawns
          /\ spawned' = spawned + 1
          /\ server' = [server EXCEPT ![spawned + 1] = "loading"]
          /\ at' = "probe"
          /\ UNCHANGED <<state, lastErr>>
       \/ /\ at' = "sleep"
          /\ lastErr' = "start"
          /\ state' = "crashed"
          /\ UNCHANGED <<spawned, server>>
    /\ UNCHANGED <<port, endpoint, readied, backoff, term, callerVars>>

\* The probe connected: markReady, and the backoff starts over.
ProbeSucceeds ==
    /\ at = "probe"
    /\ server[spawned] = "listening"
    /\ at' = "watch"
    /\ state' = "ready"
    /\ endpoint' = port
    /\ readied' = IF readied = 0 THEN 1 ELSE readied
    /\ lastErr' = "none"
    /\ backoff' = Initial
    /\ UNCHANGED <<port, spawned, serverVars, callerVars>>

\* Fault: the loop goes on to the backoff without waiting for the process.
ProbeFailsUnreaped ==
    /\ at = "probe"
    /\ lastErr' = "probe"
    /\ term' = term \union {spawned}
    /\ at' = "sleep" /\ state' = "crashed"
    /\ UNCHANGED <<port, endpoint, readied, backoff, spawned, server, callerVars>>

\* StartupTimeout, or ctx ended: killGroup, then cmd.Wait.
ProbeFails ==
    /\ at = "probe"
    /\ lastErr' = "probe"
    /\ term' = term \union {spawned}
    /\ at' = "reap"
    /\ UNCHANGED <<state, port, endpoint, readied, backoff, spawned, server, callerVars>>

Reaped == server' = [server EXCEPT ![spawned] = "reaped"]

ReapAfterProbe ==
    /\ at = "reap"
    /\ server[spawned] = "exited"
    /\ Reaped
    /\ at' = "sleep"
    /\ state' = "crashed"
    /\ UNCHANGED <<port, endpoint, readied, lastErr, backoff, spawned, term, callerVars>>

\* The select after ready: the process exited by itself ...
ServerCrashed ==
    /\ at = "watch"
    /\ server[spawned] = "exited"
    /\ Reaped
    /\ lastErr' = "exit"
    /\ state' = "crashed"
    /\ at' = "sleep"
    /\ UNCHANGED <<port, endpoint, readied, backoff, spawned, term, callerVars>>

\* Fault: the select listens to ctx, not to stopCh.
WatchIgnoresStop ==
    /\ at = "watch" /\ ctx = "cancelled"
    /\ state' = "stopping"
    /\ term' = term \union {spawned}
    /\ at' = "drain"
    /\ UNCHANGED <<port, endpoint, readied, lastErr, backoff, spawned, server, callerVars>>

\* ... or the supervisor is to stop.
WatchStops ==
    /\ at = "watch"
    /\ Stopping
    /\ state' = "stopping"
    /\ term' = term \union {spawned}
    /\ at' = "drain"
    /\ UNCHANGED <<port, endpoint, readied, lastErr, backoff, spawned, server, callerVars>>

Drain ==
    /\ at = "drain"
    /\ server[spawned] = "exited"
    /\ Reaped
    /\ RunReturns
    /\ UNCHANGED <<port, endpoint, readied, lastErr, backoff, spawned, term, callerVars>>

NextBackoff(d) == IF 2 * d > Max THEN Max ELSE 2 * d

Sleep ==
    /\ at = "sleep"
    /\ at' = "top"
    /\ backoff' = NextBackoff(backoff)
    /\ UNCHANGED <<state, port, endpoint, readied, lastErr, spawned, serverVars, callerVars>>

SleepCutShort ==
    /\ at = "sleep"
    /\ Stopping
    /\ RunReturns
    /\ UNCHANGED <<port, endpoint, readied, lastErr, backoff, spawned, serverVars, callerVars>>

-----------------------------------------------------------------------------
(* The subprocess and the callers.                                         *)

ServerListens(p) ==
    /\ server[p] = "loading"
    /\ server' = [server EXCEPT ![p] = "listening"]
    /\ UNCHANGED <<loopVars, term, callerVars>>

ServerExits(p) ==
    /\ Alive(p)
    /\ server' = [server EXCEPT ![p] = "exited"]
    /\ UNCHANGED <<loopVars, term, callerVars>>

\* The exit that is bound to come: of exec.CommandContext's SIGKILL.
ServerKilled(p) ==
    /\ ctx = "cancelled"
    /\ ServerExits(p)

CancelContext ==
    /\ ctx = "live"
    /\ ctx' = "cancelled"
    /\ UNCHANGED <<loopVars, serverVars, stop, waiter>>

StopCalled ==
    /\ stop = "none"
    /\ at # "unstarted"
    /\ stop' = "blocked"
    /\ UNCHANGED <<loopVars, serverVars, ctx, waiter>>

StopReturns ==
    /\ stop = "blocked"
    /\ at = "done"
    /\ stop' = "returned"
    /\ UNCHANGED <<loopVars, serverVars, ctx, waiter>>

WaitReady ==
    /\ waiter = "none"
    /\ waiter' = "blocked"
    /\ UNCHANGED <<loopVars, serverVars, ctx, stop>>

\* The caller's own deadline ends the wait, too; the choice is the select's.
WaitReadyReturns ==
    /\ waiter = "blocked"
    /\ \/ readied > 0 /\ waiter' = "ready"
       \/ at = "done" /\ waiter' = "failed"
    /\ UNCHANGED <<loopVars, serverVars, ctx, stop>>

-----------------------------------------------------------------------------

Run ==
    \/ ShouldStop \/ ResolvePort \/ Spawn \/ ProbeSucceeds \/ ProbeFails
    \/ ReapAfterProbe \/ ServerCrashed \/ WatchStops \/ Drain \/ Sleep \/ SleepCutShort

Next ==
    \/ Start \/ Run
    \/ \E p \in Servers : ServerListens(p) \/ ServerExits(p)
    \/ CancelContext
    \/ StopCalled \/ StopReturns \/ WaitReady \/ WaitReadyReturns

Spec == Init /\ [][Next]_vars

(***************************************************************************)
(* Fairness. The loop runs on: probe, port pick and backoff all have a     *)
(* bound of their own. SIGKILL ends a subprocess, SIGTERM need not. The    *)
(* sleep's select prefers nobody, but once Stop was called the next top of *)
(* the loop returns. Nothing promises that a server loads or crashes, or   *)
(* that anybody stops the supervisor.                                      *)
(***************************************************************************)
FairSpec ==
    /\ Spec
    /\ WF_vars(Run)
    /\ \A p \in Servers : WF_vars(ServerKilled(p))
    /\ WF_vars(StopReturns)
    /\ WF_vars(WaitReadyReturns)

-----------------------------------------------------------------------------
(* Properties.                                                             *)

\* Never two servers on the endpoint's port, and none that outlives the
\* supervisor: the next spawn, and run's return, come after the last one was
\* reaped (supervisor.go:222, 244).
OneServerAtATime ==
    /\ \A p \in Servers : p < spawned => server[p] = "reaped"
    /\ at \in {"top", "spawn", "sleep", "done"} /\ spawned > 0 => server[spawned] = "reaped"

\* readyCh is closed once, however often the server comes back: a second close
\* would panic the daemon (supervisor.go:370).
ReadyClosedOnce == readied <= 1

\* The endpoint handed to the ASR client at startup stays good across restarts
\* (supervisor.go:275).
EndpointStable == [][endpoint # 0 => endpoint' = endpoint]_vars

\* However many attempts failed, a server that came up has paid the debt off:
\* its next crash is followed by the shortest delay (supervisor.go:233).
BackoffSettles == at = "watch" => backoff = Initial

Ended == at = "done" /\ stop # "blocked" /\ waiter # "blocked"

\* A subprocess that was sent SIGTERM goes away. "The WaitDelay on cmd will
\* SIGKILL if it doesn't exit promptly" (supervisor.go:326), but WaitDelay
\* counts from the end of ctx, and Stop does not end ctx.
TermIsEnough == \A p \in Servers : (p \in term) ~> ~Alive(p)

\* Cancellation always ends the loop, from any phase of it, and releases whoever
\* waits for it; Stop does so if the subprocess heeds SIGTERM (supervisor.go:167).
EndsWhenTold ==
    /\ (at # "unstarted" /\ ctx = "cancelled") ~> Ended
    /\ TermIsEnough => ((at # "unstarted" /\ Stopping) ~> Ended)

=============================================================================
