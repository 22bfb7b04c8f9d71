----------------------------- MODULE AutoSource -----------------------------
(***************************************************************************)
(* The default mute source (internal/mute/auto.go): every wrapped source   *)
(* is watched with a context of its own, a forwarder per source passes its *)
(* events on, and the first source that shows a transition, not just an    *)
(* Initial event, becomes the only one that may show another.              *)
(*                                                                         *)
(* MuteWatch models the watcher that reads the merged channel; here it     *)
(* only remembers what it was told. A source (pcmzero, pipewire) keeps its *)
(* newest event in a channel of capacity one.                              *)
(***************************************************************************)
EXTENDS Naturals, Sequences, MuteEvents

CONSTANTS Subs,      \* the wrapped sources
          Polling,   \* those that run a subprocess: it may fail, at the start or later
          NoSub,     \* stands for locked == ""
          OutCap,    \* capacity of out (8 in the code)
          MaxChanges \* BOUND: changes of the mute state and capture stalls

ASSUME AutoAssumption ==
    /\ Polling \subseteq Subs /\ NoSub \notin Subs
    /\ OutCap \in Nat \ {0} /\ MaxChanges \in Nat

VARIABLES shows,     \* the state of the microphone as each source could see it
          changes,   \* how often one of them changed or was reseeded
          live,      \* the sources that started
          src,       \* of each source: watching, closed when told to, or failed
          lastSeen,      \* its last observation
          chan,      \* its channel
          cancelled, \* sources whose context has ended
          fwd,       \* of each source: where its forwarder is, and the event it holds
          locked,    \* the source that won
          out,       \* the merged channel
          closed,    \* whether out is closed
          heard,     \* the watcher: the last state each source told it of,
          turned,    \* and the sources whose transitions it was given
          ctx        \* the context of Watch: live or cancelled

autoVars == <<shows, changes, live, src, lastSeen, chan, cancelled, fwd, locked, out, closed, heard,
          turned, ctx>>

showVars  == <<shows, changes>>
subVars  == <<live, src, lastSeen>>
readVars == <<heard, turned>>

\* A forwarder that holds no event: the field has a value nobody reads.
NoEvent == [state |-> "muted", initial |-> TRUE]
Ranging == [at |-> "range", ev |-> NoEvent]
Gone    == [at |-> "done", ev |-> NoEvent]

AutoTypeOK ==
    /\ shows \in [Subs -> States]
    /\ changes \in 0..MaxChanges
    /\ live \in SUBSET Subs
    /\ src \in [Subs -> {"watching", "closed", "failed"}]
    /\ lastSeen \in [Subs -> States \union {"unset"}]
    /\ chan \in [Subs -> Seq(Event)]
    /\ cancelled \in SUBSET Subs
    /\ fwd \in [Subs -> [at : {"range", "decide", "send", "done"}, ev : Event]]
    /\ locked \in Subs \union {NoSub}
    /\ out \in Seq([sub : Subs, ev : Event])
    /\ closed \in BOOLEAN
    /\ heard \in [Subs -> States \union {"nothing"}]
    /\ turned \in SUBSET Subs
    /\ ctx \in {"live", "cancelled"}

\* Watch has started the sources and the goroutines; pcm-zero always starts.
AutoInit ==
    /\ shows \in [Subs -> States]
    /\ changes = 0
    /\ live \in {L \in SUBSET Subs : L # {} /\ Subs \ Polling \subseteq L}
    /\ src = [s \in Subs |-> "watching"]
    /\ lastSeen = [s \in Subs |-> "unset"]
    /\ chan = [s \in Subs |-> <<>>]
    /\ cancelled = {}
    /\ fwd = [s \in Subs |-> Ranging]
    /\ locked = NoSub
    /\ out = <<>>
    /\ closed = FALSE
    /\ heard = [s \in Subs |-> "nothing"]
    /\ turned = {}
    /\ ctx = "live"

-----------------------------------------------------------------------------
(* The sources.                                                            *)

\* A mute control may show in the frames, in the mixer, or in both.
Flip(s) ==
    /\ changes < MaxChanges
    /\ s \in live /\ src[s] = "watching"
    /\ changes' = changes + 1
    /\ shows' = [shows EXCEPT ![s] = CHOOSE st \in States : st # @]
    /\ UNCHANGED <<subVars, chan, cancelled, fwd, locked, out, closed, readVars, ctx>>

\* A frame or a poll that tells something new. The first one is Initial, and a
\* new event displaces the one nobody has taken.
Look(s) ==
    /\ s \in live /\ src[s] = "watching"
    /\ lastSeen[s] # shows[s]
    /\ lastSeen' = [lastSeen EXCEPT ![s] = shows[s]]
    /\ chan' = [chan EXCEPT ![s] = <<[state |-> shows[s], initial |-> lastSeen[s] = "unset"]>>]
    /\ UNCHANGED <<showVars, live, src, cancelled, fwd, locked, out, closed, readVars, ctx>>

\* pcm-zero starts over after a capture stall.
Reseed(s) ==
    /\ changes < MaxChanges
    /\ s \in live \ Polling /\ src[s] = "watching"
    /\ changes' = changes + 1
    /\ lastSeen' = [lastSeen EXCEPT ![s] = "unset"]
    /\ UNCHANGED <<shows, live, src, chan, cancelled, fwd, locked, out, closed, readVars, ctx>>

\* The end of its context closes a source's channel, a failed poll does, too.
SourceEnds(s) ==
    /\ s \in live /\ src[s] = "watching"
    /\ \/ s \in cancelled /\ src' = [src EXCEPT ![s] = "closed"]
       \/ s \in Polling \ cancelled /\ src' = [src EXCEPT ![s] = "failed"]
    /\ UNCHANGED <<showVars, live, lastSeen, chan, cancelled, fwd, locked, out, closed, readVars, ctx>>

-----------------------------------------------------------------------------
(* The forwarder of a source.                                              *)

Receive(s) ==
    /\ s \in live /\ fwd[s].at = "range"
    /\ chan[s] # <<>>
    /\ fwd' = [fwd EXCEPT ![s] = [at |-> "decide", ev |-> Head(chan[s])]]
    /\ chan' = [chan EXCEPT ![s] = Tail(@)]
    /\ UNCHANGED <<showVars, subVars, cancelled, locked, out, closed, readVars, ctx>>

RangeEnds(s) ==
    /\ s \in live /\ fwd[s].at = "range"
    /\ chan[s] = <<>> /\ src[s] # "watching"
    /\ fwd' = [fwd EXCEPT ![s] = Gone]
    /\ UNCHANGED <<showVars, subVars, chan, cancelled, locked, out, closed, readVars, ctx>>

\* Fault: every transition takes the lock over.
DecideRelocks(s) ==
    /\ s \in live /\ fwd[s].at = "decide"
    /\ fwd' = [fwd EXCEPT ![s].at = "send"]
    /\ IF fwd[s].ev.initial THEN UNCHANGED <<locked, cancelled>>
       ELSE locked' = s /\ cancelled' = cancelled \union (live \ {s})
    /\ UNCHANGED <<showVars, subVars, chan, out, closed, readVars, ctx>>

\* Fault: one context for all sources, as in the earlier implementation.
DecideCancelsAll(s) ==
    /\ s \in live /\ fwd[s].at = "decide"
    /\ \/ /\ fwd[s].ev.initial \/ locked = s
          /\ fwd' = [fwd EXCEPT ![s].at = "send"]
          /\ UNCHANGED <<locked, cancelled>>
       \/ /\ ~fwd[s].ev.initial /\ locked = NoSub
          /\ locked' = s /\ cancelled' = live
          /\ fwd' = [fwd EXCEPT ![s].at = "send"]
       \/ /\ ~fwd[s].ev.initial /\ locked \notin {s, NoSub}
          /\ fwd' = [fwd EXCEPT ![s] = Ranging]
          /\ UNCHANGED <<locked, cancelled>>
    /\ UNCHANGED <<showVars, subVars, chan, out, closed, readVars, ctx>>

\* Under mu: an Initial event passes; the first transition locks its source in
\* and cancels the others; a transition of one of those is dropped.
Decide(s) ==
    /\ s \in live /\ fwd[s].at = "decide"
    /\ \/ /\ fwd[s].ev.initial \/ locked = s
          /\ fwd' = [fwd EXCEPT ![s].at = "send"]
          /\ UNCHANGED <<locked, cancelled>>
       \/ /\ ~fwd[s].ev.initial /\ locked = NoSub
          /\ locked' = s
          /\ cancelled' = cancelled \union (live \ {s})
          /\ fwd' = [fwd EXCEPT ![s].at = "send"]
       \/ /\ ~fwd[s].ev.initial /\ locked \notin {s, NoSub}
          /\ fwd' = [fwd EXCEPT ![s] = Ranging]
          /\ UNCHANGED <<locked, cancelled>>
    /\ UNCHANGED <<showVars, subVars, chan, out, closed, readVars, ctx>>

\* Fault: the send waits for the watcher alone.
SendWaits(s) ==
    /\ s \in live /\ fwd[s].at = "send"
    /\ Len(out) < OutCap
    /\ out' = Append(out, [sub |-> s, ev |-> fwd[s].ev])
    /\ fwd' = [fwd EXCEPT ![s] = Ranging]
    /\ UNCHANGED <<showVars, subVars, chan, cancelled, locked, closed, readVars, ctx>>

\* The send waits for the watcher or for the end of Watch's context.
Send(s) ==
    /\ s \in live /\ fwd[s].at = "send"
    /\ \/ /\ Len(out) < OutCap
          /\ out' = Append(out, [sub |-> s, ev |-> fwd[s].ev])
          /\ fwd' = [fwd EXCEPT ![s] = Ranging]
       \/ /\ ctx = "cancelled"
          /\ fwd' = [fwd EXCEPT ![s] = Gone]
          /\ UNCHANGED out
    /\ UNCHANGED <<showVars, subVars, chan, cancelled, locked, closed, readVars, ctx>>

-----------------------------------------------------------------------------

\* Fault: the waiter does not wait for more than one forwarder.
CloseOutEarly ==
    /\ ~closed
    /\ \E s \in live : fwd[s].at = "done"
    /\ closed' = TRUE
    /\ cancelled' = cancelled \union live
    /\ UNCHANGED <<showVars, subVars, chan, fwd, locked, out, readVars, ctx>>

\* The waiter, once all forwarders are gone.
CloseOut ==
    /\ ~closed
    /\ \A s \in live : fwd[s].at = "done"
    /\ closed' = TRUE
    /\ cancelled' = cancelled \union live
    /\ UNCHANGED <<showVars, subVars, chan, fwd, locked, out, readVars, ctx>>

\* The watcher takes an event.
Take ==
    /\ out # <<>>
    /\ out' = Tail(out)
    /\ heard' = [heard EXCEPT ![Head(out).sub] = Head(out).ev.state]
    /\ turned' = IF Head(out).ev.initial THEN turned ELSE turned \union {Head(out).sub}
    /\ UNCHANGED <<showVars, subVars, chan, cancelled, fwd, locked, closed, ctx>>

CancelWatch ==
    /\ ctx = "live"
    /\ ctx' = "cancelled"
    /\ cancelled' = cancelled \union live
    /\ UNCHANGED <<showVars, subVars, chan, fwd, locked, out, closed, readVars>>

Forwarder(s) == Receive(s) \/ RangeEnds(s) \/ Decide(s) \/ Send(s)

AutoNext ==
    \/ \E s \in Subs : Flip(s) \/ Look(s) \/ Reseed(s) \/ SourceEnds(s) \/ Forwarder(s)
    \/ CloseOut \/ Take \/ CancelWatch

AutoSpec == AutoInit /\ [][AutoNext]_autoVars

(***************************************************************************)
(* Fairness. A source that is watching looks again, one whose context has  *)
(* ended closes, and the goroutines run on. The watcher reads until its    *)
(* context, which is also Watch's, ends. No poll has to fail.              *)
(***************************************************************************)
AutoFairSpec ==
    /\ AutoSpec
    /\ \A s \in Subs :
          /\ WF_autoVars(s \notin cancelled /\ Look(s))
          /\ WF_autoVars(s \in cancelled /\ SourceEnds(s))
          /\ WF_autoVars(Forwarder(s))
    /\ WF_autoVars(CloseOut)
    /\ WF_autoVars(ctx = "live" /\ Take)

-----------------------------------------------------------------------------
(* Properties.                                                             *)

\* The sources whose transitions have left their forwarder.
Speakers == turned \union {out[i].sub : i \in {j \in DOMAIN out : ~out[j].ev.initial}}

\* One source speaks: however the first transitions of two sources race, all
\* those that reach the watcher are of the same one (auto.go:12), so that one
\* press of a button is never two.
OneSourceSpeaks == \A s, t \in Speakers : s = t

\* Cancelling the losers leaves the winner's stream alone (auto.go:57): after the
\* lock, too, the watcher hears of every state that lasts.
WinnerHeard ==
    \A s \in Subs, st \in States :
        (locked = s /\ shows[s] = st) ~>
            (heard[s] = st \/ shows[s] # st \/ src[s] = "failed" \/ ctx = "cancelled")

\* Nobody but a winner, and the end of Watch, makes a source stop watching, and a
\* winner never itself (auto.go:57, 128-156): a poll of pipewire that fails before
\* the first transition, or the end of the waiter, takes pcm-zero along with it
\* in no order of the steps.
OnlyLosersStopped ==
    ctx = "live" => \A s \in Subs : src[s] = "closed" => locked \notin {s, NoSub}

\* What is not wanted any more ends: the forwarder of a loser, and with the
\* context all of them and the channel, even if the watcher reads no more
\* (auto.go:95, 118).
UnwantedEnds ==
    /\ \A s \in Subs : (s \in live /\ locked \notin {s, NoSub}) ~> (fwd[s].at = "done")
    /\ (ctx = "cancelled") ~> closed

-----------------------------------------------------------------------------
(* What the code's comments say, and the code does not do.                 *)

\* "Subsequent events from other sources are dropped" (auto.go:14): the Initial
\* events are not, and seed the watcher with the loser's state.
LosersSilent ==
    [][Len(out') > Len(out) => locked \in {NoSub, out'[Len(out')].sub}]_autoVars

\* "The first event has Initial=true" (source.go:66): a transition may have
\* displaced it in the source's channel.
FirstIsInitial ==
    [][\A s \in Subs : heard[s] = "nothing" /\ heard'[s] # "nothing" => turned' = turned]_autoVars

=============================================================================
