------------------------------ MODULE Control ------------------------------
(***************************************************************************)
(* The control socket (internal/control/server.go) and the event bus       *)
(* behind it (cmd/dictad/events.go): connections are accepted and scanned  *)
(* for commands, a subscribe turns one into an event stream, and every     *)
(* goroutine that publishes writes to the streams itself.                  *)
(*                                                                         *)
(* Each peer has one connection, and names its subscription, too; it is in *)
(* the backlog until Serve accepts it. A write on a connection waits for   *)
(* room in the socket and is one step: writeMu keeps two lines apart. What *)
(* a command does to the session is in Session; here it matters only that  *)
(* it may publish. Whom of its subscribers a Publish pushes to first is    *)
(* left open. An Accept that fails while ctx lives stops the daemon and is *)
(* left out.                                                               *)
(***************************************************************************)
EXTENDS Naturals, Sequences, FiniteSets, FiniteSetsExt

CONSTANTS Peers,       \* clients of the socket
          Publishers,  \* goroutines that publish and serve no connection
          Names,       \* names of events
          Filters,     \* what a subscribe may ask for
          Room,        \* lines a socket holds that its peer has not read
          MaxCommands, \* BOUND: commands sent
          MaxEvents    \* BOUND: events published

ASSUME ControlAssumption ==
    /\ Filters \subseteq SUBSET Names
    /\ "session_state" \in Names
    /\ Peers \intersect Publishers = {}
    /\ Room \in Nat \ {0} /\ MaxCommands \in Nat /\ MaxEvents \in Nat

\* A goroutine that may publish: a handler for its command, or another one.
Goroutines == Peers \union Publishers

Commands ==
    [cmd : {"call", "huge"}, events : {{}}] \union [cmd : {"subscribe"}, events : Filters]
NoCommand == [cmd |-> "none", events |-> {}]

Replies == {"ok", "rejected", "too_long"}
Lines == [reply : Replies, event : {0}] \union [reply : {"none"}, event : 1..MaxEvents]

VARIABLES serve,       \* Serve: accepting, draining since its ctx ended, or returned
          peer,        \* each peer: is here, or has left
          conn,        \* its connection: in the backlog, open, or closed
          inbox,       \* commands on their way to the handler
          at,          \* where the handler is
          command,     \* the command it is at
          subscribed,  \* the handler's flag
          sent,        \* lines written to the peer, all of them
          read,        \* how many the peer has read
          asked,       \* commands the peer has sent, all of them
          subscribers, \* b.subscribers
          wants,       \* the filter of each subscriber
          dead,        \* subscribers whose dead flag is set
          joined,      \* the number of events there were when each subscriber joined,
          died,        \* and when it was found dead
          publish,     \* of each goroutine: its Publish
          events       \* the names of the events published so far

connVars  == <<peer, conn, inbox, at, command, subscribed, sent, read, asked>>
busVars   == <<subscribers, wants, dead, joined, died>>
vars == <<serve, connVars, busVars, publish, events>>

NoPublish == [at |-> "idle", event |-> 0, subs |-> {}, anyDead |-> FALSE]

TypeOK ==
    /\ serve \in {"accepting", "draining", "returned"}
    /\ peer \in [Peers -> {"here", "gone"}]
    /\ conn \in [Peers -> {"backlog", "open", "closed"}]
    /\ inbox \in [Peers -> Seq(Commands)]
    /\ at \in [Peers -> {"scan", "dispatch", "reply"}]
    /\ command \in [Peers -> Commands \union {NoCommand}]
    /\ subscribed \in [Peers -> BOOLEAN]
    /\ sent \in [Peers -> Seq(Lines)]
    /\ read \in [Peers -> Nat]
    /\ \A p \in Peers : Len(sent[p]) - read[p] \in 0..Room
    /\ asked \in [Peers -> Seq(Commands)]
    /\ subscribers \subseteq Peers
    /\ wants \in [Peers -> SUBSET Names]
    /\ dead \subseteq Peers
    /\ joined \in [Peers -> 0..MaxEvents] /\ died \in [Peers -> 0..MaxEvents]
    /\ publish \in [Goroutines -> [at : {"idle", "push"}, event : 0..MaxEvents,
                                   subs : SUBSET Peers, anyDead : BOOLEAN]]
    /\ events \in Seq(Names) /\ Len(events) <= MaxEvents

Init ==
    /\ serve = "accepting"
    /\ peer = [p \in Peers |-> "here"]
    /\ conn = [p \in Peers |-> "backlog"]
    /\ inbox = [p \in Peers |-> <<>>]
    /\ at = [p \in Peers |-> "scan"]
    /\ command = [p \in Peers |-> NoCommand]
    /\ subscribed = [p \in Peers |-> FALSE]
    /\ sent = [p \in Peers |-> <<>>]
    /\ read = [p \in Peers |-> 0]
    /\ asked = [p \in Peers |-> <<>>]
    /\ subscribers = {}
    /\ wants = [p \in Peers |-> {}]
    /\ dead = {}
    /\ joined = [p \in Peers |-> 0] /\ died = [p \in Peers |-> 0]
    /\ publish = [g \in Goroutines |-> NoPublish]
    /\ events = <<>>

-----------------------------------------------------------------------------
(* The peers.                                                              *)

CommandsSent == MapThenSumSet(LAMBDA q : Len(asked[q]), Peers)

Send(p) ==
    /\ peer[p] = "here" /\ conn[p] \in {"backlog", "open"}
    /\ CommandsSent < MaxCommands
    /\ \E c \in Commands :
          /\ inbox' = [inbox EXCEPT ![p] = Append(@, c)]
          /\ asked' = [asked EXCEPT ![p] = Append(@, c)]
    /\ UNCHANGED <<serve, peer, conn, at, command, subscribed, sent, read, busVars, publish,
                   events>>

ReadLine(p) ==
    /\ peer[p] = "here"
    /\ read[p] < Len(sent[p])
    /\ read' = [read EXCEPT ![p] = @ + 1]
    /\ UNCHANGED <<serve, peer, conn, inbox, at, command, subscribed, sent, asked, busVars,
                   publish, events>>

Leave(p) ==
    /\ peer[p] = "here"
    /\ peer' = [peer EXCEPT ![p] = "gone"]
    /\ UNCHANGED <<serve, conn, inbox, at, command, subscribed, sent, read, asked, busVars,
                   publish, events>>

-----------------------------------------------------------------------------
(* Writing to a connection, for the handler and for push alike.            *)

\* conn.Write fails: our end is closed, or theirs.
Broken(p) == conn[p] = "closed" \/ peer[p] = "gone"

\* conn.Write succeeds; with neither of the two, it blocks.
Write(p, line) ==
    /\ ~Broken(p)
    /\ Len(sent[p]) - read[p] < Room
    /\ sent' = [sent EXCEPT ![p] = Append(@, line)]

-----------------------------------------------------------------------------
(* eventBus.                                                               *)

\* Publish copies the subscribers under b.mu; the event gets its number there.
PublishBegins(g, name) ==
    /\ publish[g].at = "idle" /\ Len(events) < MaxEvents
    /\ events' = Append(events, name)
    /\ publish' = [publish EXCEPT ![g] = [at |-> "push", event |-> Len(events) + 1,
                                          subs |-> subscribers, anyDead |-> FALSE]]

\* A goroutine of the session publishes: a transcript, a close by the idle timer.
Publish(g) ==
    /\ \E name \in Names : PublishBegins(g, name)
    /\ UNCHANGED <<serve, connVars, busVars>>

\* Fault: a push that failed is tried again.
PushRetries(g) ==
    /\ publish[g].at = "push"
    /\ \E s \in publish[g].subs :
       LET next == [publish EXCEPT ![g].subs = @ \ {s}]
       IN IF events[publish[g].event] \in wants[s]
          THEN Write(s, [reply |-> "none", event |-> publish[g].event]) /\ publish' = next
          ELSE publish' = next /\ UNCHANGED sent
    /\ UNCHANGED <<serve, peer, conn, inbox, at, command, subscribed, read, asked, busVars, events>>

\* One subscriber of the copy: dead, not interested, pushed to, or found dead.
PushTo(g, s) ==
    LET wanted == events[publish[g].event] \in wants[s]
        next(found) ==
            publish' = [publish EXCEPT ![g].subs = @ \ {s}, ![g].anyDead = @ \/ found]
    IN \/ /\ s \in dead
          /\ next(TRUE) /\ UNCHANGED <<sent, dead, died>>
       \/ /\ s \notin dead /\ ~wanted
          /\ next(FALSE) /\ UNCHANGED <<sent, dead, died>>
       \/ /\ s \notin dead /\ wanted
          /\ Write(s, [reply |-> "none", event |-> publish[g].event])
          /\ next(FALSE) /\ UNCHANGED <<dead, died>>
       \/ /\ s \notin dead /\ wanted /\ Broken(s)
          /\ dead' = dead \union {s}
          /\ died' = [died EXCEPT ![s] = Len(events)]
          /\ next(TRUE) /\ UNCHANGED sent

\* Fault: one that is dead already is passed over, and does not make it reap.
PushPassesDead(g) ==
    /\ publish[g].at = "push"
    /\ \E s \in publish[g].subs :
          IF s \in dead
          THEN publish' = [publish EXCEPT ![g].subs = @ \ {s}] /\ UNCHANGED <<sent, dead, died>>
          ELSE PushTo(g, s)
    /\ UNCHANGED <<serve, peer, conn, inbox, at, command, subscribed, read, asked,
                   subscribers, wants, joined, events>>

Push(g) ==
    /\ publish[g].at = "push"
    /\ \E s \in publish[g].subs : PushTo(g, s)
    /\ UNCHANGED <<serve, peer, conn, inbox, at, command, subscribed, read, asked,
                   subscribers, wants, joined, events>>

\* Fault: the survivors are taken from the copy.
PublishReapsCopy(g) ==
    /\ publish[g].at = "push" /\ publish[g].subs = {}
    /\ subscribers' = IF publish[g].anyDead
                      THEN {s \in subscribers \ dead : joined[s] < publish[g].event}
                      ELSE subscribers
    /\ publish' = [publish EXCEPT ![g] = NoPublish]
    /\ UNCHANGED <<serve, connVars, wants, dead, joined, died, events>>

\* All pushed; the dead, if there were any, leave the list under b.mu.
PublishReturns(g) ==
    /\ publish[g].at = "push" /\ publish[g].subs = {}
    /\ subscribers' = IF publish[g].anyDead THEN subscribers \ dead ELSE subscribers
    /\ publish' = [publish EXCEPT ![g] = NoPublish]
    /\ UNCHANGED <<serve, connVars, wants, dead, joined, died, events>>

-----------------------------------------------------------------------------
(* handleConn, a goroutine per connection.                                 *)

Accept(p) ==
    /\ serve = "accepting" /\ conn[p] = "backlog"
    /\ conn' = [conn EXCEPT ![p] = "open"]
    /\ UNCHANGED <<serve, peer, inbox, at, command, subscribed, sent, read, asked, busVars,
                   publish, events>>

\* A line of a subscriber is rejected, one that is too long is the last one.
\* Empty lines, which are skipped, and malformed ones are left out.
Scan(p) ==
    /\ conn[p] = "open" /\ at[p] = "scan" /\ inbox[p] # <<>>
    /\ inbox' = [inbox EXCEPT ![p] = Tail(@)]
    /\ command' = [command EXCEPT ![p] = Head(inbox[p])]
    /\ at' = [at EXCEPT ![p] = IF Head(inbox[p]).cmd = "huge" \/ subscribed[p]
                               THEN "reply" ELSE "dispatch"]
    /\ UNCHANGED <<serve, peer, conn, subscribed, sent, read, asked, busVars, publish, events>>

HandlerReturns(p) == conn' = [conn EXCEPT ![p] = "closed"]

\* What the peer had sent before it left is still read; then Scan ends.
ScanEnds(p) ==
    /\ conn[p] = "open" /\ at[p] = "scan"
    /\ inbox[p] = <<>> /\ peer[p] = "gone"
    /\ HandlerReturns(p)
    /\ UNCHANGED <<serve, peer, inbox, at, command, subscribed, sent, read, asked, busVars,
                   publish, events>>

\* A command runs in the handler, and publishes there if it moves the session.
DispatchCall(p) ==
    /\ conn[p] = "open" /\ at[p] = "dispatch" /\ command[p].cmd = "call"
    /\ at' = [at EXCEPT ![p] = "reply"]
    /\ PublishBegins(p, "session_state") \/ UNCHANGED <<publish, events>>
    /\ UNCHANGED <<serve, peer, conn, inbox, command, subscribed, sent, read, asked, busVars>>

\* eventBus.Subscribe: push is registered before the reply is written.
DispatchSubscribe(p) ==
    /\ conn[p] = "open" /\ at[p] = "dispatch" /\ command[p].cmd = "subscribe"
    /\ subscribers' = subscribers \union {p}
    /\ wants' = [wants EXCEPT ![p] = command[p].events]
    /\ joined' = [joined EXCEPT ![p] = Len(events)]
    /\ at' = [at EXCEPT ![p] = "reply"]
    /\ UNCHANGED <<serve, peer, conn, inbox, command, subscribed, sent, read, asked, dead,
                   died, publish, events>>

Answer(p) ==
    CASE command[p].cmd = "huge" -> "too_long"
      [] command[p].cmd # "huge" /\ subscribed[p] -> "rejected"
      [] command[p].cmd # "huge" /\ ~subscribed[p] -> "ok"

\* Fault: the connection stays in command mode.
ReplyForgetsMode(p) ==
    /\ conn[p] = "open" /\ at[p] = "reply" /\ publish[p].at = "idle"
    /\ at' = [at EXCEPT ![p] = "scan"] /\ command' = [command EXCEPT ![p] = NoCommand]
    /\ \/ Write(p, [reply |-> Answer(p), event |-> 0])
          /\ IF command[p].cmd = "huge" THEN HandlerReturns(p) ELSE UNCHANGED conn
       \/ Broken(p) /\ HandlerReturns(p) /\ UNCHANGED sent
    /\ UNCHANGED <<subscribed, serve, peer, inbox, read, asked, busVars, publish, events>>

\* Only a reply to a dispatched command ends the handler when it fails.
Reply(p) ==
    /\ conn[p] = "open" /\ at[p] = "reply" /\ publish[p].at = "idle"
    /\ at' = [at EXCEPT ![p] = "scan"]
    /\ command' = [command EXCEPT ![p] = NoCommand]
    /\ \/ /\ Write(p, [reply |-> Answer(p), event |-> 0])
          /\ IF command[p].cmd = "huge" THEN HandlerReturns(p) ELSE UNCHANGED conn
          /\ subscribed' = [subscribed EXCEPT ![p] = @ \/ command[p].cmd = "subscribe"]
       \/ /\ Broken(p)
          /\ IF Answer(p) = "rejected" THEN UNCHANGED conn ELSE HandlerReturns(p)
          /\ UNCHANGED <<sent, subscribed>>
    /\ UNCHANGED <<serve, peer, inbox, read, asked, busVars, publish, events>>

-----------------------------------------------------------------------------
(* Serve.                                                                  *)

\* ctx ends: the listener is closed, and the backlog with it.
CloseListener ==
    /\ serve = "accepting"
    /\ serve' = "draining"
    /\ conn' = [p \in Peers |-> IF conn[p] = "backlog" THEN "closed" ELSE conn[p]]
    /\ UNCHANGED <<peer, inbox, at, command, subscribed, sent, read, asked, busVars, publish,
                   events>>

\* wg.Wait, and Serve returns.
ServeReturns ==
    /\ serve = "draining"
    /\ \A p \in Peers : conn[p] # "open"
    /\ serve' = "returned"
    /\ UNCHANGED <<connVars, busVars, publish, events>>

-----------------------------------------------------------------------------

Handle(p) == Scan(p) \/ ScanEnds(p) \/ DispatchCall(p) \/ DispatchSubscribe(p) \/ Reply(p)
Publishing(g) == Push(g) \/ PublishReturns(g)

Next ==
    \/ \E p \in Peers : Send(p) \/ ReadLine(p) \/ Leave(p) \/ Accept(p) \/ Handle(p)
    \/ \E g \in Goroutines : Publishing(g)
    \/ \E g \in Publishers : Publish(g)
    \/ CloseListener \/ ServeReturns

Spec == Init /\ [][Next]_vars

(***************************************************************************)
(* Fairness. Serve, the handlers and the publishers run on. A peer that is *)
(* there reads: dicta waits for its reply, and the panel's subscription    *)
(* does nothing but read (cmd/dicta-preview/main.go:309). Nobody has to    *)
(* send or to leave, and ctx need not end.                                 *)
(***************************************************************************)
FairSpec ==
    /\ Spec
    /\ \A p \in Peers : WF_vars(ReadLine(p)) /\ WF_vars(Accept(p)) /\ WF_vars(Handle(p))
    /\ \A g \in Goroutines : WF_vars(Publishing(g))
    /\ WF_vars(ServeReturns)

-----------------------------------------------------------------------------
(* Properties.                                                             *)

UnderWay(e) == \E g \in Goroutines : publish[g].event = e

Copies(p, e) == {i \in DOMAIN sent[p] : sent[p][i].event = e}

\* A subscriber that is alive has been sent each event published since it joined
\* and asked for, once, and no other, whoever publishes, dies or joins at the
\* same time (events.go:70, 94).
NothingMissed ==
    \A p \in Peers : \A e \in DOMAIN events :
        /\ \A i, j \in Copies(p, e) : i = j
        /\ Copies(p, e) # {} => e > joined[p] /\ events[e] \in wants[p]
        /\ p \in subscribers \ dead /\ e > joined[p] /\ events[e] \in wants[p]
              => Copies(p, e) # {} \/ UnderWay(e)
        /\ joined[p] < e /\ subscribed[p] /\ p \notin subscribers => p \in dead

\* "Once dead is set, the subscriber is reaped on the next Publish"
\* (events.go:31): an event published since its death has been served to the end
\* only if it has left the list, whoever else serves another one, found it dead,
\* or reaps at the same time.
DeadReaped ==
    \A p \in dead \intersect subscribers : \A e \in DOMAIN events :
        e > died[p] => UnderWay(e)

\* Stricter: the Publish that found it dead has removed it "on this same call"
\* (events.go:66), also where two of them found it.
ReapedOnSameCall ==
    (\A g \in Goroutines : publish[g].at = "idle") => dead \intersect subscribers = {}

\* The lines among the first n that answer a command.
Answers(p, n) == {i \in 1..n : sent[p][i].event = 0}

\* One request, one response, in order, also while events are written to the
\* same connection; after a subscribe it is a rejection (doc.go:4).
RepliesInOrder ==
    \A p \in Peers : \A i \in Answers(p, Len(sent[p])) :
        LET k == Cardinality(Answers(p, i))
        IN /\ k <= Len(asked[p])
           /\ sent[p][i].reply =
                 IF asked[p][k].cmd = "huge" THEN "too_long"
                 ELSE IF \E j \in 1..(k - 1) : asked[p][j].cmd = "subscribe" THEN "rejected"
                 ELSE "ok"

\* A command is answered though its handler writes to every other subscriber
\* first: one that is slow or gone "only holds up Publish for the duration of one
\* socket write" (events.go:21).
CommandsAnswered ==
    \A p \in Peers :
        (inbox[p] # <<>> /\ conn[p] = "open") ~>
            (inbox[p] = <<>> /\ at[p] = "scan") \/ conn[p] = "closed"

-----------------------------------------------------------------------------
(* What the code's comments say, and the code does not do.                 *)

\* Handlers "exit when their peers disconnect or ctx is cancelled"
\* (server.go:77), so that Serve returns and the session is shut down.
ServeEnds == (serve = "draining") ~> (serve = "returned")

\* A subscriber reads the reply to its subscribe first: the panel takes any other
\* first line for a rejection (cmd/dicta-preview/main.go:305).
AckFirst == \A p \in Peers : sent[p] # <<>> => sent[p][1].event = 0

=============================================================================
