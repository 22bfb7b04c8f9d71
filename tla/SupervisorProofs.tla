-------------------------- MODULE SupervisorProofs --------------------------
(***************************************************************************)
(* For every configuration and any number of spawns: the safety of the     *)
(* supervise loop. The strengthening says what each phase of the loop      *)
(* holds: between spawn and reap the loop has a current server, everywhere *)
(* else every server it ever started is reaped.                            *)
(***************************************************************************)
EXTENDS Supervisor, TLAPS

\* The loop has a server from the spawn until cmd.Wait returns.
Holding == {"probe", "reap", "watch", "drain"}

CurrentExists == at \in Holding => spawned > 0

\* Nothing was started, and no port picked, before Start.
Untouched == at = "unstarted" => spawned = 0 /\ port = 0

\* s.endpoint is made of s.port whenever mu is free.
EndpointOfPort == endpoint = port

IInv ==
    /\ TypeOK
    /\ CurrentExists
    /\ Untouched
    /\ EndpointOfPort
    /\ OneServerAtATime
    /\ ReadyClosedOnce
    /\ BackoffSettles

\* The parts hold at the start.
LEMMA InitIInv == Init => IInv
  <1> SUFFICES ASSUME Init PROVE IInv
    OBVIOUS
  <1>1. TypeOK
    BY SupervisorAssumption DEF Init, TypeOK, Servers
  <1>2. CurrentExists /\ Untouched /\ EndpointOfPort /\ ReadyClosedOnce /\ BackoffSettles
    BY DEF Init, CurrentExists, Untouched, EndpointOfPort, ReadyClosedOnce, BackoffSettles, Holding
  <1>3. OneServerAtATime
    BY DEF Init, OneServerAtATime, Servers
  <1> QED BY <1>1, <1>2, <1>3 DEF IInv

\* While the loop has a server, its number is one of the servers'.
LEMMA CurrentIsServer == IInv /\ at \in Holding => spawned \in Servers
  BY SupervisorAssumption DEF IInv, TypeOK, CurrentExists, Servers

\* Every step keeps the types.
LEMMA NextTypeOK == IInv /\ [Next]_vars => TypeOK'
  <1> SUFFICES ASSUME IInv, [Next]_vars PROVE TypeOK'
    OBVIOUS
  <1> USE SupervisorAssumption
  <1>0. TypeOK
    BY DEF IInv
  <1>1. CASE Start
    BY <1>0, <1>1 DEF TypeOK, Start, serverVars, callerVars
  <1>2. CASE ShouldStop
    BY <1>0, <1>2 DEF TypeOK, ShouldStop, RunReturns, serverVars, callerVars
  <1>3. CASE ResolvePort
    BY <1>0, <1>3 DEF TypeOK, ResolvePort, serverVars, callerVars
  <1>4. CASE Spawn
    BY <1>0, <1>4 DEF TypeOK, Spawn, Servers, callerVars
  <1>5. CASE ProbeSucceeds
    BY <1>0, <1>5 DEF TypeOK, ProbeSucceeds, serverVars, callerVars
  <1>6. CASE ProbeFails
    <2>1. spawned \in Servers
      BY <1>6, CurrentIsServer DEF ProbeFails, Holding
    <2> QED BY <1>0, <1>6, <2>1 DEF TypeOK, ProbeFails, callerVars
  <1>7. CASE ReapAfterProbe
    BY <1>0, <1>7 DEF TypeOK, ReapAfterProbe, Reaped, callerVars
  <1>8. CASE ServerCrashed
    BY <1>0, <1>8 DEF TypeOK, ServerCrashed, Reaped, callerVars
  <1>9. CASE WatchStops
    <2>1. spawned \in Servers
      BY <1>9, CurrentIsServer DEF WatchStops, Holding
    <2> QED BY <1>0, <1>9, <2>1 DEF TypeOK, WatchStops, callerVars
  <1>10. CASE Drain
    BY <1>0, <1>10 DEF TypeOK, Drain, Reaped, RunReturns, callerVars
  <1>11. CASE Sleep
    <2>1. NextBackoff(backoff) \in Initial..Max
      BY <1>0 DEF TypeOK, NextBackoff
    <2> QED BY <1>0, <1>11, <2>1 DEF TypeOK, Sleep, serverVars, callerVars
  <1>12. CASE SleepCutShort
    BY <1>0, <1>12 DEF TypeOK, SleepCutShort, RunReturns, serverVars, callerVars
  <1>13. ASSUME NEW p \in Servers, ServerListens(p) \/ ServerExits(p)
         PROVE  TypeOK'
    BY <1>0, <1>13 DEF TypeOK, ServerListens, ServerExits, loopVars, callerVars
  <1>14. CASE CancelContext \/ StopCalled \/ StopReturns \/ WaitReady \/ WaitReadyReturns
    BY <1>0, <1>14 DEF TypeOK, CancelContext, StopCalled, StopReturns, WaitReady, WaitReadyReturns,
       loopVars, serverVars
  <1>15. CASE UNCHANGED vars
    BY <1>0, <1>15 DEF TypeOK, vars
  <1> QED BY <1>1, <1>2, <1>3, <1>4, <1>5, <1>6, <1>7, <1>8, <1>9, <1>10, <1>11, <1>12, <1>13,
             <1>14, <1>15 DEF Next, Run

\* Every step keeps what the loop's variables say of each other.
LEMMA NextLoopParts ==
    IInv /\ [Next]_vars =>
        /\ CurrentExists' /\ Untouched' /\ EndpointOfPort'
        /\ ReadyClosedOnce' /\ BackoffSettles'
  <1> SUFFICES ASSUME IInv, [Next]_vars
               PROVE  /\ CurrentExists' /\ Untouched' /\ EndpointOfPort'
                      /\ ReadyClosedOnce' /\ BackoffSettles'
    OBVIOUS
  <1> USE DEF CurrentExists, Untouched, EndpointOfPort, ReadyClosedOnce, BackoffSettles, Holding
  <1>0. /\ TypeOK /\ CurrentExists /\ Untouched /\ EndpointOfPort
        /\ ReadyClosedOnce /\ BackoffSettles
    BY DEF IInv
  <1>1. CASE Start
    BY <1>0, <1>1 DEF Start
  <1>2. CASE ShouldStop
    BY <1>0, <1>2 DEF ShouldStop, RunReturns
  <1>3. CASE ResolvePort
    BY <1>0, <1>3 DEF ResolvePort
  <1>4. CASE Spawn
    BY <1>0, <1>4 DEF TypeOK, Spawn
  <1>5. CASE ProbeSucceeds
    BY <1>0, <1>5 DEF ProbeSucceeds
  <1>6. CASE ProbeFails
    BY <1>0, <1>6 DEF ProbeFails
  <1>7. CASE ReapAfterProbe \/ ServerCrashed \/ Drain
    BY <1>0, <1>7 DEF ReapAfterProbe, ServerCrashed, Drain, RunReturns
  <1>8. CASE WatchStops
    BY <1>0, <1>8 DEF WatchStops
  <1>9. CASE Sleep \/ SleepCutShort
    BY <1>0, <1>9 DEF Sleep, SleepCutShort, RunReturns
  <1>10. ASSUME NEW p \in Servers, ServerListens(p) \/ ServerExits(p)
         PROVE  /\ CurrentExists' /\ Untouched' /\ EndpointOfPort'
                /\ ReadyClosedOnce' /\ BackoffSettles'
    BY <1>0, <1>10 DEF ServerListens, ServerExits, loopVars
  <1>11. CASE CancelContext \/ StopCalled \/ StopReturns \/ WaitReady \/ WaitReadyReturns
    BY <1>0, <1>11 DEF CancelContext, StopCalled, StopReturns, WaitReady, WaitReadyReturns, loopVars
  <1>12. CASE UNCHANGED vars
    BY <1>0, <1>12 DEF vars
  <1> QED BY <1>1, <1>2, <1>3, <1>4, <1>5, <1>6, <1>7, <1>8, <1>9, <1>10, <1>11, <1>12 DEF Next, Run

\* Every step keeps the servers in order: a spawn finds the last one reaped,
\* and the phases that reap leave the current one so.
LEMMA NextOneServer == IInv /\ [Next]_vars => OneServerAtATime'
  <1> SUFFICES ASSUME IInv, [Next]_vars PROVE OneServerAtATime'
    OBVIOUS
  <1> USE DEF OneServerAtATime
  <1>0. TypeOK /\ CurrentExists /\ Untouched /\ OneServerAtATime
    BY DEF IInv
  <1>1. CASE Start
    BY <1>0, <1>1 DEF Start, Untouched, serverVars
  <1>2. CASE ShouldStop \/ ResolvePort \/ Sleep \/ SleepCutShort
    BY <1>0, <1>2 DEF ShouldStop, ResolvePort, Sleep, SleepCutShort, RunReturns, serverVars
  <1>3. CASE Spawn
    <2>1. CASE spawned' = spawned + 1
      <3>1. /\ server' = [server EXCEPT ![spawned + 1] = "loading"] /\ at' = "probe"
            /\ spawned \in Nat /\ at = "spawn"
        BY <1>0, <1>3, <2>1 DEF Spawn, TypeOK
      <3>2. ASSUME NEW p \in Servers, p < spawned + 1
            PROVE  server'[p] = "reaped"
        <4>1. p # spawned + 1 /\ (p = spawned \/ p < spawned)
          BY <3>1, <3>2 DEF Servers
        <4>2. spawned > 0
          BY <3>1, <3>2 DEF Servers
        <4>3. server[p] = "reaped"
          BY <1>0, <3>1, <4>1, <4>2
        <4>4. p \in DOMAIN server
          BY <1>0 DEF TypeOK
        <4> QED BY <3>1, <4>1, <4>3, <4>4
      <3> QED BY <2>1, <3>1, <3>2
    <2>2. CASE spawned' # spawned + 1
      BY <1>0, <1>3, <2>2 DEF Spawn
    <2> QED BY <2>1, <2>2
  <1>4. CASE ProbeSucceeds \/ ProbeFails \/ WatchStops
    BY <1>0, <1>4 DEF ProbeSucceeds, ProbeFails, WatchStops, serverVars
  <1>5. CASE ReapAfterProbe \/ ServerCrashed \/ Drain
    <2>1. spawned \in Servers /\ server' = [server EXCEPT ![spawned] = "reaped"]
          /\ spawned' = spawned
      BY <1>5, CurrentIsServer DEF ReapAfterProbe, ServerCrashed, Drain, Reaped, Holding
    <2>2. server'[spawned] = "reaped" /\ \A p \in Servers : p < spawned => server'[p] = "reaped"
      BY <1>0, <2>1 DEF TypeOK
    <2> QED BY <2>1, <2>2
  <1>6. ASSUME NEW p \in Servers, ServerListens(p) \/ ServerExits(p)
        PROVE  OneServerAtATime'
    <2>1. \A q \in Servers : server[q] = "reaped" => server'[q] = "reaped"
      BY <1>0, <1>6 DEF ServerListens, ServerExits, Alive, TypeOK
    <2>2. UNCHANGED <<at, spawned>>
      BY <1>6 DEF ServerListens, ServerExits, loopVars
    <2>3. spawned > 0 => spawned \in Servers
      BY <1>0, SupervisorAssumption DEF TypeOK, Servers
    <2> QED BY <1>0, <2>1, <2>2, <2>3
  <1>7. CASE CancelContext \/ StopCalled \/ StopReturns \/ WaitReady \/ WaitReadyReturns
    BY <1>0, <1>7 DEF CancelContext, StopCalled, StopReturns, WaitReady, WaitReadyReturns,
       loopVars, serverVars
  <1>8. CASE UNCHANGED vars
    BY <1>0, <1>8 DEF vars
  <1> QED BY <1>1, <1>2, <1>3, <1>4, <1>5, <1>6, <1>7, <1>8 DEF Next, Run

\* The invariant is inductive.
LEMMA AlwaysIInv == Spec => []IInv
  <1>1. IInv /\ [Next]_vars => IInv'
    BY NextTypeOK, NextLoopParts, NextOneServer DEF IInv
  <1> QED BY <1>1, InitIInv, PTL DEF Spec

\* The supervisor's state stays of its types (supervisor.go:50).
THEOREM TypesAlwaysOK == Spec => []TypeOK
  <1>1. IInv => TypeOK
    BY DEF IInv
  <1> QED BY <1>1, AlwaysIInv, PTL

\* No run of the supervisor has two servers, or leaves one behind
\* (supervisor.go:222, 244).
THEOREM AlwaysOneServer == Spec => []OneServerAtATime
  <1>1. IInv => OneServerAtATime
    BY DEF IInv
  <1> QED BY <1>1, AlwaysIInv, PTL

\* readyCh is never closed twice (supervisor.go:370).
THEOREM NeverClosedTwice == Spec => []ReadyClosedOnce
  <1>1. IInv => ReadyClosedOnce
    BY DEF IInv
  <1> QED BY <1>1, AlwaysIInv, PTL

\* Success always pays off the backoff (supervisor.go:233).
THEOREM BackoffAlwaysSettles == Spec => []BackoffSettles
  <1>1. IInv => BackoffSettles
    BY DEF IInv
  <1> QED BY <1>1, AlwaysIInv, PTL

\* No step moves an endpoint that was handed out (supervisor.go:275): only
\* Start and the pick of a port change it, and both find it empty.
THEOREM EndpointNeverMoves == Spec => EndpointStable
  <1>1. IInv /\ [Next]_vars => [endpoint # 0 => endpoint' = endpoint]_vars
    <2> SUFFICES ASSUME IInv, Next, endpoint # 0 PROVE endpoint' = endpoint
      OBVIOUS
    <2>0. Untouched /\ EndpointOfPort
      BY DEF IInv
    <2>1. ASSUME NEW p \in Servers, ServerListens(p) \/ ServerExits(p)
          PROVE  endpoint' = endpoint
      BY <2>1 DEF ServerListens, ServerExits, loopVars
    <2>2. CASE CancelContext \/ StopCalled \/ StopReturns \/ WaitReady \/ WaitReadyReturns
      BY <2>2 DEF CancelContext, StopCalled, StopReturns, WaitReady, WaitReadyReturns, loopVars
    <2>3. CASE Start \/ ResolvePort \/ ProbeSucceeds
      BY <2>0, <2>3 DEF Start, ResolvePort, ProbeSucceeds, Untouched, EndpointOfPort
    <2>4. CASE ShouldStop \/ Spawn \/ ProbeFails \/ ReapAfterProbe \/ ServerCrashed \/ WatchStops
               \/ Drain \/ Sleep \/ SleepCutShort
      BY <2>4 DEF ShouldStop, Spawn, ProbeFails, ReapAfterProbe, ServerCrashed, WatchStops, Drain,
         Sleep, SleepCutShort
    <2> QED BY <2>1, <2>2, <2>3, <2>4 DEF Next, Run
  <1> QED BY <1>1, AlwaysIInv, PTL DEF Spec, EndpointStable

-----------------------------------------------------------------------------
(* What every wait of the loop rests on (the safety part of EndsWhenTold): *)
(* cmd.Wait is called once for each process, for one that was started and  *)
(* not waited for yet, and where the loop waits without another way out,   *)
(* after the process was told to leave.                                    *)

Unreaped(p) == server[p] \in {"loading", "listening", "exited"}

\* A process that was started and not reaped is the one the loop holds, and
\* whenever the loop holds one, it is such a process: Wait never meets one that
\* was reaped already, which would leave run without an answer.
HoldsTheUnreaped == \A p \in Servers : Unreaped(p) <=> at \in Holding /\ p = spawned

\* The two waits with no other way out follow killGroup (supervisor.go:222, 253).
WaitsForTheTold == at \in {"reap", "drain"} => spawned \in term

LEMMA NextWaits ==
    IInv /\ HoldsTheUnreaped /\ WaitsForTheTold /\ [Next]_vars =>
        HoldsTheUnreaped' /\ WaitsForTheTold'
  <1> SUFFICES ASSUME IInv, HoldsTheUnreaped, WaitsForTheTold, [Next]_vars
               PROVE  HoldsTheUnreaped' /\ WaitsForTheTold'
    OBVIOUS
  <1> USE DEF HoldsTheUnreaped, WaitsForTheTold, Unreaped, Holding
  <1>0. TypeOK
    BY DEF IInv
  <1>1. CASE Start \/ ShouldStop \/ ResolvePort \/ Sleep \/ SleepCutShort
    BY <1>1 DEF Start, ShouldStop, ResolvePort, Sleep, SleepCutShort, RunReturns, serverVars
  <1>2. CASE Spawn
    <2>1. CASE spawned' = spawned + 1 /\ server' = [server EXCEPT ![spawned + 1] = "loading"]
               /\ at = "spawn" /\ at' = "probe"
      <3>1. \A p \in Servers : server'[p] = IF p = spawned + 1 THEN "loading" ELSE server[p]
        BY <1>0, <2>1 DEF TypeOK
      <3> QED BY <2>1, <3>1
    <2>2. CASE at = "spawn" /\ at' = "sleep" /\ UNCHANGED <<spawned, server>>
      BY <2>2
    <2> QED BY <1>2, <2>1, <2>2 DEF Spawn
  <1>3. CASE ProbeSucceeds
    BY <1>3 DEF ProbeSucceeds, serverVars
  <1>4. CASE ProbeFails \/ WatchStops
    BY <1>4 DEF ProbeFails, WatchStops
  <1>5. CASE ReapAfterProbe \/ ServerCrashed \/ Drain
    <2>1. /\ at \in Holding /\ at' \in {"sleep", "done"}
          /\ \A p \in Servers : server'[p] = IF p = spawned THEN "reaped" ELSE server[p]
      BY <1>0, <1>5 DEF ReapAfterProbe, ServerCrashed, Drain, Reaped, RunReturns, TypeOK
    <2> QED BY <2>1
  <1>6. ASSUME NEW p \in Servers, ServerListens(p) \/ ServerExits(p)
        PROVE  HoldsTheUnreaped' /\ WaitsForTheTold'
    <2>1. UNCHANGED <<at, spawned, term>>
      BY <1>6 DEF ServerListens, ServerExits, loopVars
    <2>2. \A q \in Servers : Unreaped(q)' <=> Unreaped(q)
      BY <1>0, <1>6 DEF ServerListens, ServerExits, Alive, TypeOK
    <2> QED BY <2>1, <2>2
  <1>7. CASE CancelContext \/ StopCalled \/ StopReturns \/ WaitReady \/ WaitReadyReturns
    BY <1>7 DEF CancelContext, StopCalled, StopReturns, WaitReady, WaitReadyReturns,
       loopVars, serverVars
  <1>8. CASE UNCHANGED vars
    BY <1>8 DEF vars
  <1> QED BY <1>1, <1>2, <1>3, <1>4, <1>5, <1>6, <1>7, <1>8 DEF Next, Run

\* No subprocess runs that the loop does not hold, and none the loop waits for has
\* been reaped already or not been told to leave: what is left of EndsWhenTold is
\* that a process that was told leaves.
THEOREM WaitsAreAnswered == Spec => [](HoldsTheUnreaped /\ WaitsForTheTold)
  <1>1. Init => HoldsTheUnreaped /\ WaitsForTheTold
    BY DEF Init, HoldsTheUnreaped, WaitsForTheTold, Unreaped, Holding
  <1> QED BY <1>1, NextWaits, AlwaysIInv, PTL DEF Spec

=============================================================================
