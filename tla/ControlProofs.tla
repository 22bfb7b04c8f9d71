--------------------------- MODULE ControlProofs ---------------------------
(***************************************************************************)
(* The event bus and the control connections for any number of peers,      *)
(* publishers and events, any filters and any room in the sockets: nothing *)
(* is missed and nothing comes twice, the dead are reaped, and replies     *)
(* come in order.                                                          *)
(***************************************************************************)
EXTENDS Control, FiniteSetTheorems, TLAPS

(***************************************************************************)
(* Subscribing takes two steps: push is registered in the dispatch, and    *)
(* the handler turns its flag once the reply is written; if that fails, it *)
(* returns. Before the first of the two nothing about the peer is on the   *)
(* bus, so that a peer joins once.                                         *)
(***************************************************************************)
Joining(p) == at[p] = "reply" /\ command[p].cmd = "subscribe"
Joined(p) == subscribed[p] \/ Joining(p) \/ conn[p] = "closed"

JoinInv ==
    /\ \A p \in Peers :
          /\ p \in subscribers \union dead => Joined(p)
          /\ (\E i \in DOMAIN sent[p] : sent[p][i].event # 0) => Joined(p)
          /\ subscribed[p] \/ Joining(p) => p \in subscribers \union dead
          /\ at[p] = "dispatch" => ~subscribed[p] /\ command[p].cmd # "huge"
    /\ \A g \in Goroutines : \A p \in publish[g].subs : Joined(p)

(***************************************************************************)
(* A Publish still has its event to push to those of its copy it has not   *)
(* come to; everyone else who is alive, joined before the event and wants  *)
(* it has it.                                                              *)
(***************************************************************************)
Pushing(g, e) == publish[g].at = "push" /\ publish[g].event = e

PublishInv ==
    /\ \A p \in Peers : joined[p] <= Len(events)
    /\ \A g \in Goroutines :
          /\ publish[g].at = "idle" => publish[g] = NoPublish
          /\ publish[g].at = "push" => publish[g].event \in 1..Len(events)
    /\ \A g, h \in Goroutines :
          publish[g].at = "push" /\ Pushing(h, publish[g].event) => g = h
    /\ \A g \in Goroutines : \A p \in publish[g].subs :
          joined[p] < publish[g].event /\ Copies(p, publish[g].event) = {}

CopyInv ==
    \A p \in Peers :
        /\ \A i \in DOMAIN sent[p] : LET e == sent[p][i].event IN
              e # 0 => e \in 1..Len(events) /\ e > joined[p] /\ events[e] \in wants[p]
        /\ \A i, j \in DOMAIN sent[p] :
              sent[p][i].event = sent[p][j].event /\ sent[p][i].event # 0 => i = j
        /\ \A e \in DOMAIN events :
              p \in subscribers \ dead /\ e > joined[p] /\ events[e] \in wants[p]
                  => \/ Copies(p, e) # {}
                     \/ \E g \in Goroutines : Pushing(g, e) /\ p \in publish[g].subs

\* Somebody who found p dead is going to reap; and everyone who has an event from
\* after its death has p in front of him or is going to reap.
ReapInv ==
    \A p \in subscribers \intersect dead :
        /\ \E g \in Goroutines : publish[g].at = "push" /\ publish[g].anyDead
        /\ \A e \in DOMAIN events : e > died[p] =>
              \E g \in Goroutines : Pushing(g, e) /\ (publish[g].anyDead \/ p \in publish[g].subs)

BusInv == JoinInv /\ PublishInv /\ CopyInv /\ ReapInv

(***************************************************************************)
(* The handler has taken a first part of what the peer sent, and answered  *)
(* all of it but the command it is at. Once a write has failed it answers  *)
(* nothing any more.                                                       *)
(***************************************************************************)
Taken(p) == Len(asked[p]) - Len(inbox[p])
Answered(p) == IF at[p] = "scan" THEN Taken(p) ELSE Taken(p) - 1

Right(p, k, reply) ==
    reply = IF asked[p][k].cmd = "huge" THEN "too_long"
            ELSE IF \E j \in 1..(k - 1) : asked[p][j].cmd = "subscribe" THEN "rejected"
            ELSE "ok"

InboxInv ==
    \A p \in Peers :
        /\ Len(inbox[p]) <= Len(asked[p])
        /\ \A i \in 1..Len(inbox[p]) : inbox[p][i] = asked[p][Taken(p) + i]
        /\ at[p] # "scan" => Taken(p) >= 1 /\ command[p] = asked[p][Taken(p)]

AnswerInv ==
    \A p \in Peers : ~Broken(p) =>
        /\ Cardinality(Answers(p, Len(sent[p]))) = Answered(p)
        /\ subscribed[p] <=> \E j \in 1..Answered(p) : asked[p][j].cmd = "subscribe"

ReplyInv == InboxInv /\ AnswerInv /\ RepliesInOrder

IInv == TypeOK /\ BusInv /\ ReplyInv

-----------------------------------------------------------------------------
(* Types, and what a write does.                                           *)

LEMMA Appended ==
    ASSUME NEW S, NEW s \in Seq(S), NEW x \in S
    PROVE  /\ Append(s, x) \in Seq(S) /\ Len(s) \in Nat /\ Len(Append(s, x)) = Len(s) + 1
           /\ DOMAIN s = 1..Len(s) /\ DOMAIN Append(s, x) = 1..(Len(s) + 1)
           /\ \A i \in 1..Len(s) : Append(s, x)[i] = s[i]
           /\ Append(s, x)[Len(s) + 1] = x
  OBVIOUS

LEMMA ReplyIsLine == \A reply \in Replies : [reply |-> reply, event |-> 0] \in Lines
  BY DEF Lines

LEMMA EventIsLine == \A e \in 1..MaxEvents : [reply |-> "none", event |-> e] \in Lines
  BY DEF Lines

\* A write adds one line to one connection, which was not broken.
LEMMA Written ==
    ASSUME TypeOK, NEW p \in Peers, NEW line \in Lines, Write(p, line), UNCHANGED read
    PROVE  /\ ~Broken(p)
           /\ sent' \in [Peers -> Seq(Lines)]
           /\ \A q \in Peers : Len(sent'[q]) - read'[q] \in 0..Room
           /\ Len(sent[p]) \in Nat /\ Len(sent'[p]) = Len(sent[p]) + 1
           /\ DOMAIN sent[p] = 1..Len(sent[p]) /\ DOMAIN sent'[p] = 1..(Len(sent[p]) + 1)
           /\ \A i \in 1..Len(sent[p]) : sent'[p][i] = sent[p][i]
           /\ sent'[p][Len(sent[p]) + 1] = line
           /\ \A q \in Peers \ {p} : sent'[q] = sent[q]
  <1>1. sent \in [Peers -> Seq(Lines)] /\ read \in [Peers -> Nat] /\ Room \in Nat
    BY ControlAssumption DEF TypeOK
  <1>2. /\ ~Broken(p) /\ Len(sent[p]) - read[p] < Room
        /\ sent' = [sent EXCEPT ![p] = Append(@, line)]
    BY DEF Write
  <1> HIDE DEF Lines
  <1>3. sent[p] \in Seq(Lines) /\ sent'[p] = Append(sent[p], line)
    BY <1>1, <1>2
  <1>4. sent' \in [Peers -> Seq(Lines)] /\ \A q \in Peers \ {p} : sent'[q] = sent[q]
    BY <1>1, <1>2, <1>3, Appended
  <1>5. Len(sent[p]) \in Nat /\ Len(sent'[p]) = Len(sent[p]) + 1
    BY <1>3, Appended
  <1>6. Len(sent'[p]) - read'[p] \in 0..Room
    BY <1>1, <1>2, <1>5 DEF TypeOK
  <1>7. \A q \in Peers : Len(sent'[q]) - read'[q] \in 0..Room
    BY <1>4, <1>6 DEF TypeOK
  <1> QED BY <1>2, <1>3, <1>4, <1>5, <1>7, Appended

LEMMA InitType == Init => TypeOK
  BY ControlAssumption DEF Init, TypeOK, NoPublish

\* The peers, Serve and the end of a handler.
LEMMA EdgesType ==
    ASSUME TypeOK, NEW p \in Peers,
           Send(p) \/ ReadLine(p) \/ Leave(p) \/ Accept(p) \/ ScanEnds(p)
    PROVE  TypeOK'
  <1>1. CASE Send(p)
    <2>1. PICK c \in Commands : /\ inbox' = [inbox EXCEPT ![p] = Append(@, c)]
                               /\ asked' = [asked EXCEPT ![p] = Append(@, c)]
      BY <1>1 DEF Send
    <2> HIDE DEF Commands
    <2>2. inbox \in [Peers -> Seq(Commands)] /\ asked \in [Peers -> Seq(Commands)]
      BY DEF TypeOK
    <2>3. Append(inbox[p], c) \in Seq(Commands) /\ Append(asked[p], c) \in Seq(Commands)
      BY <2>2
    <2>4. inbox' \in [Peers -> Seq(Commands)] /\ asked' \in [Peers -> Seq(Commands)]
      BY <2>1, <2>2, <2>3
    <2> QED BY <1>1, <2>4 DEF Send, TypeOK, busVars
  <1>2. CASE ReadLine(p)
    <2>1. /\ read' = [read EXCEPT ![p] = @ + 1] /\ read[p] < Len(sent[p]) /\ sent' = sent
          /\ read \in [Peers -> Nat] /\ Len(sent[p]) \in Nat /\ Room \in Nat
      BY <1>2, ControlAssumption DEF ReadLine, TypeOK
    <2>2. read' \in [Peers -> Nat] /\ \A q \in Peers : read'[q] = IF q = p THEN read[p] + 1 ELSE read[q]
      BY <2>1
    <2>3. \A q \in Peers : Len(sent'[q]) - read'[q] \in 0..Room
      <3>1. Len(sent[p]) - read[p] \in 0..Room
        BY DEF TypeOK
      <3>2. Len(sent[p]) - (read[p] + 1) \in 0..Room
        BY <2>1, <3>1
      <3> QED BY <2>1, <2>2, <3>2 DEF TypeOK
    <2> QED BY <1>2, <2>2, <2>3 DEF ReadLine, TypeOK, busVars
  <1>3. CASE Leave(p)
    BY <1>3 DEF Leave, TypeOK, busVars
  <1>4. CASE Accept(p) \/ ScanEnds(p)
    <2>1. conn' \in [Peers -> {"backlog", "open", "closed"}]
      <3>1. conn \in [Peers -> {"backlog", "open", "closed"}]
        BY DEF TypeOK
      <3> QED BY <1>4, <3>1 DEF Accept, ScanEnds, HandlerReturns
    <2>2. UNCHANGED <<serve, peer, inbox, at, command, subscribed, sent, read, asked, busVars,
                      publish, events>>
      BY <1>4 DEF Accept, ScanEnds
    <2> QED BY <2>1, <2>2 DEF TypeOK, busVars
  <1> QED BY <1>1, <1>2, <1>3, <1>4

LEMMA ServeType ==
    ASSUME TypeOK, CloseListener \/ ServeReturns
    PROVE  TypeOK'
  <1>1. CASE CloseListener
    BY <1>1 DEF CloseListener, TypeOK, busVars
  <1>2. CASE ServeReturns
    BY <1>2 DEF ServeReturns, TypeOK, connVars, busVars
  <1> QED BY <1>1, <1>2

\* A Publish begins.
LEMMA BeginsType ==
    ASSUME TypeOK, NEW g \in Goroutines, NEW name \in Names, PublishBegins(g, name)
    PROVE  /\ publish' \in [Goroutines -> [at : {"idle", "push"}, event : 0..MaxEvents,
                                          subs : SUBSET Peers, anyDead : BOOLEAN]]
           /\ events' \in Seq(Names) /\ Len(events') <= MaxEvents
           /\ Len(events) \in Nat /\ Len(events') = Len(events) + 1
           /\ \A e \in 1..Len(events) : events'[e] = events[e]
  <1>1. events \in Seq(Names) /\ Len(events) < MaxEvents /\ events' = Append(events, name) /\ MaxEvents \in Nat
    BY ControlAssumption DEF PublishBegins, TypeOK
  <1>2. /\ events' \in Seq(Names) /\ Len(events) \in Nat /\ Len(events') = Len(events) + 1
        /\ \A e \in 1..Len(events) : events'[e] = events[e]
    BY <1>1, Appended
  <1>3. Len(events) + 1 \in 0..MaxEvents
    BY <1>1, <1>2
  <1> QED BY <1>1, <1>2, <1>3 DEF PublishBegins, TypeOK

\* The handler.
LEMMA HandlerType ==
    ASSUME TypeOK, NEW p \in Peers,
           Scan(p) \/ DispatchCall(p) \/ DispatchSubscribe(p) \/ Reply(p)
    PROVE  TypeOK'
  <1>1. CASE Scan(p)
    <2> HIDE DEF Commands
    <2>1. inbox \in [Peers -> Seq(Commands)] /\ inbox[p] # <<>> /\ inbox' = [inbox EXCEPT ![p] = Tail(@)]
      BY <1>1 DEF Scan, TypeOK
    <2>2. Head(inbox[p]) \in Commands /\ Tail(inbox[p]) \in Seq(Commands)
      BY <2>1
    <2>3. inbox' \in [Peers -> Seq(Commands)]
      BY <2>1, <2>2
    <2>4. command' \in [Peers -> Commands \union {NoCommand}] /\ at' \in [Peers -> {"scan", "dispatch", "reply"}]
      BY <1>1, <2>2 DEF Scan, TypeOK
    <2> QED BY <1>1, <2>3, <2>4 DEF Scan, TypeOK, busVars
  <1>2. CASE DispatchCall(p)
    <2>1. p \in Goroutines /\ "session_state" \in Names
      BY ControlAssumption DEF Goroutines
    <2>2. /\ publish' \in [Goroutines -> [at : {"idle", "push"}, event : 0..MaxEvents,
                                         subs : SUBSET Peers, anyDead : BOOLEAN]]
          /\ events' \in Seq(Names) /\ Len(events') <= MaxEvents
      BY <1>2, <2>1, BeginsType DEF DispatchCall, TypeOK
    <2> QED BY <1>2, <2>2 DEF DispatchCall, TypeOK, busVars
  <1>3. CASE DispatchSubscribe(p)
    <2>1. command[p].events \in SUBSET Names
      <3>1. command[p] \in Commands \union {NoCommand} /\ command[p].cmd = "subscribe"
        BY <1>3 DEF DispatchSubscribe, TypeOK
      <3>2. command[p].events \in Filters \union {{}}
        BY <3>1 DEF Commands, NoCommand
      <3> QED BY <3>2, ControlAssumption
    <2>2. Len(events) \in 0..MaxEvents
      BY ControlAssumption DEF TypeOK
    <2> QED BY <1>3, <2>1, <2>2 DEF DispatchSubscribe, TypeOK
  <1>4. CASE Reply(p)
    <2>1. /\ sent' \in [Peers -> Seq(Lines)] /\ read' = read
          /\ \A q \in Peers : Len(sent'[q]) - read'[q] \in 0..Room
      <3>1. CASE UNCHANGED sent
        BY <1>4, <3>1 DEF Reply, TypeOK
      <3>2. CASE Write(p, [reply |-> Answer(p), event |-> 0])
        <4>1. Answer(p) \in Replies
          BY DEF Answer, Replies
        <4> QED BY <1>4, <3>2, <4>1, ReplyIsLine, Written DEF Reply
      <3> QED BY <1>4, <3>1, <3>2 DEF Reply
    <2>2. conn' \in [Peers -> {"backlog", "open", "closed"}]
      <3>1. conn \in [Peers -> {"backlog", "open", "closed"}]
        BY DEF TypeOK
      <3> QED BY <1>4, <3>1 DEF Reply, HandlerReturns
    <2>3. subscribed' \in [Peers -> BOOLEAN]
      <3>1. subscribed \in [Peers -> BOOLEAN]
        BY DEF TypeOK
      <3> QED BY <1>4, <3>1 DEF Reply
    <2>4. command' \in [Peers -> Commands \union {NoCommand}] /\ at' \in [Peers -> {"scan", "dispatch", "reply"}]
      <3>1. command \in [Peers -> Commands \union {NoCommand}] /\ at \in [Peers -> {"scan", "dispatch", "reply"}]
        BY DEF TypeOK
      <3>2. /\ at' = [at EXCEPT ![p] = "scan"]
            /\ command' = [command EXCEPT ![p] = NoCommand]
        BY <1>4 DEF Reply
      <3> HIDE DEF Commands, NoCommand
      <3> QED BY <3>1, <3>2
    <2> QED BY <1>4, <2>1, <2>2, <2>3, <2>4 DEF Reply, TypeOK, busVars
  <1> QED BY <1>1, <1>2, <1>3, <1>4

PublishType ==
    [at : {"idle", "push"}, event : 0..MaxEvents, subs : SUBSET Peers, anyDead : BOOLEAN]

\* A push takes one subscriber off the copy of its Publish.
LEMMA Pushed ==
    ASSUME TypeOK, NEW g \in Goroutines, NEW s, PushTo(g, s)
    PROVE  /\ publish' \in [Goroutines -> PublishType]
           /\ publish'[g].at = publish[g].at /\ publish'[g].event = publish[g].event
           /\ publish'[g].subs = publish[g].subs \ {s}
           /\ publish[g].anyDead => publish'[g].anyDead
           /\ s \in dead' => publish'[g].anyDead
           /\ \A h \in Goroutines \ {g} : publish'[h] = publish[h]
  <1>1. publish \in [Goroutines -> PublishType] /\ publish[g] \in PublishType
    BY DEF TypeOK, PublishType
  <1> DEFINE after(found) ==
        [publish EXCEPT ![g].subs = @ \ {s}, ![g].anyDead = @ \/ found]
  <1>2. ASSUME NEW found \in BOOLEAN
        PROVE  /\ after(found) \in [Goroutines -> PublishType]
               /\ after(found)[g].at = publish[g].at /\ after(found)[g].event = publish[g].event
               /\ after(found)[g].subs = publish[g].subs \ {s}
               /\ after(found)[g].anyDead = (publish[g].anyDead \/ found)
               /\ \A h \in Goroutines \ {g} : after(found)[h] = publish[h]
    <2> DEFINE new == [publish[g] EXCEPT !.subs = @ \ {s}, !.anyDead = @ \/ found]
    <2>1. after(found) = [publish EXCEPT ![g] = new]
      BY <1>1
    <2>2. /\ new \in PublishType /\ new.at = publish[g].at /\ new.event = publish[g].event
          /\ new.subs = publish[g].subs \ {s} /\ new.anyDead = (publish[g].anyDead \/ found)
      BY <1>1 DEF PublishType
    <2> HIDE DEF new, after
    <2> QED BY <1>1, <2>1, <2>2
  <1>3. \/ publish' = after(TRUE)
        \/ publish' = after(FALSE) /\ s \notin dead'
    BY DEF PushTo
  <1> HIDE DEF after
  <1> QED BY <1>2, <1>3

\* The bus.
LEMMA BusType ==
    ASSUME TypeOK, PublishInv, NEW g \in Goroutines, Publish(g) \/ Push(g) \/ PublishReturns(g)
    PROVE  TypeOK'
  <1>1. CASE Publish(g)
    BY <1>1, BeginsType DEF Publish, TypeOK, connVars, busVars
  <1>2. CASE Push(g)
    <2>1. PICK s \in publish[g].subs : PushTo(g, s)
      BY <1>2 DEF Push
    <2>2. s \in Peers /\ publish[g].event \in 1..MaxEvents
      <3>1. publish[g] \in PublishType
        BY DEF TypeOK, PublishType
      <3>2. publish[g].at = "push" => publish[g].event \in 1..Len(events)
        BY DEF PublishInv
      <3>3. Len(events) \in 0..MaxEvents /\ MaxEvents \in Nat
        BY ControlAssumption DEF TypeOK
      <3> QED BY <1>2, <2>1, <3>1, <3>2, <3>3 DEF Push, PublishType
    <2>3. publish' \in [Goroutines -> [at : {"idle", "push"}, event : 0..MaxEvents,
                                        subs : SUBSET Peers, anyDead : BOOLEAN]]
      BY <2>1, Pushed DEF PublishType
    <2>4. /\ sent' \in [Peers -> Seq(Lines)] /\ read' = read
          /\ \A q \in Peers : Len(sent'[q]) - read'[q] \in 0..Room
      <3>1. CASE UNCHANGED sent
        BY <1>2, <3>1 DEF Push, TypeOK
      <3>2. CASE Write(s, [reply |-> "none", event |-> publish[g].event])
        BY <1>2, <2>2, <3>2, EventIsLine, Written DEF Push
      <3> QED BY <2>1, <3>1, <3>2 DEF PushTo
    <2>5. dead' \subseteq Peers
      BY <2>1, <2>2 DEF PushTo, TypeOK
    <2>6. died' \in [Peers -> 0..MaxEvents]
      <3>1. Len(events) \in 0..MaxEvents
        BY ControlAssumption DEF TypeOK
      <3>2. died' = died \/ died' = [died EXCEPT ![s] = Len(events)]
        BY <2>1 DEF PushTo
      <3> QED BY <3>1, <3>2 DEF TypeOK
    <2> QED BY <1>2, <2>3, <2>4, <2>5, <2>6 DEF Push, TypeOK
  <1>3. CASE PublishReturns(g)
    BY <1>3, ControlAssumption DEF PublishReturns, TypeOK, NoPublish, connVars
  <1> QED BY <1>1, <1>2, <1>3

-----------------------------------------------------------------------------
(* The bus.                                                                *)

LEMMA InitBus == Init => BusInv
  <1> SUFFICES ASSUME Init PROVE BusInv
    OBVIOUS
  <1>1. /\ subscribers = {} /\ dead = {}
        /\ \A p \in Peers : DOMAIN sent[p] = {} /\ ~subscribed[p] /\ at[p] = "scan"
        /\ \A g \in Goroutines : publish[g] = NoPublish /\ publish[g].at = "idle" /\ publish[g].subs = {}
    BY DEF Init, NoPublish
  <1>2. Len(events) = 0 /\ \A p \in Peers : joined[p] = 0
    BY DEF Init
  <1> QED BY <1>1, <1>2 DEF BusInv, JoinInv, Joining, PublishInv, Pushing, CopyInv, ReapInv

\* Who has joined stays so, and joins in no other way than through the bus.
JoinStep ==
    \A q \in Peers :
        /\ Joined(q) => Joined(q)'
        /\ (subscribed[q] \/ Joining(q))' => subscribed[q] \/ Joining(q)
        /\ at'[q] = "dispatch" => ~subscribed'[q] /\ command'[q].cmd # "huge"

\* Nothing is written but replies.
NoNewEvents ==
    \A q \in Peers :
        /\ \A i \in DOMAIN sent[q] : i \in DOMAIN sent'[q] /\ sent'[q][i] = sent[q][i]
        /\ \A i \in DOMAIN sent'[q] \ DOMAIN sent[q] : sent'[q][i].event = 0

LEMMA SameCopies ==
    ASSUME NoNewEvents
    PROVE  \A q \in Peers, e \in Nat \ {0} : Copies(q, e)' = Copies(q, e)
  BY DEF NoNewEvents, Copies

LEMMA QuietBus ==
    ASSUME TypeOK, BusInv, UNCHANGED <<busVars, publish, events>>, JoinStep, NoNewEvents
    PROVE  BusInv'
  <1>1. /\ UNCHANGED <<subscribers, wants, dead, joined, died, publish, events>>
        /\ Len(events) \in Nat /\ DOMAIN events = 1..Len(events)
    BY DEF busVars, TypeOK
  <1>2. \A q \in Peers, e \in Nat \ {0} : Copies(q, e)' = Copies(q, e)
    BY SameCopies
  <1>3. JoinInv'
    <2>1. \A q \in Peers : Joined(q) => Joined(q)'
      BY DEF JoinStep
    <2>2. ASSUME NEW q \in Peers, NEW i \in DOMAIN sent'[q], sent'[q][i].event # 0
          PROVE  Joined(q)'
      <3>1. i \in DOMAIN sent[q] /\ sent[q][i].event # 0
        BY <2>2 DEF NoNewEvents
      <3> QED BY <2>1, <3>1 DEF BusInv, JoinInv
    <2>3. ASSUME NEW q \in Peers
          PROVE  /\ q \in subscribers' \union dead' => Joined(q)'
                 /\ (subscribed[q] \/ Joining(q))' => q \in subscribers' \union dead'
                 /\ at'[q] = "dispatch" => ~subscribed'[q] /\ command'[q].cmd # "huge"
      BY <1>1, <2>1 DEF BusInv, JoinInv, JoinStep
    <2>4. \A g \in Goroutines : \A p \in publish'[g].subs : Joined(p)'
      <3> SUFFICES ASSUME NEW g \in Goroutines, NEW p \in publish[g].subs
                   PROVE  Joined(p)'
        BY <1>1
      <3>1. p \in Peers
        BY DEF TypeOK
      <3> QED BY <2>1, <3>1 DEF BusInv, JoinInv
    <2> QED BY <2>2, <2>3, <2>4 DEF JoinInv, Joining
  <1>4. PublishInv'
    <2>1. ASSUME NEW g \in Goroutines, NEW p \in publish[g].subs
          PROVE  Copies(p, publish[g].event)' = {}
      <3>1. p \in Peers /\ joined[p] < publish[g].event /\ joined[p] \in Nat /\ publish[g].event \in Nat
        BY DEF TypeOK, BusInv, PublishInv
      <3>2. publish[g].event \in Nat \ {0}
        BY <3>1
      <3>3. Copies(p, publish[g].event) = {}
        BY DEF BusInv, PublishInv
      <3>4. UNCHANGED publish
        BY <1>1
      <3> QED BY <1>2, <3>1, <3>2, <3>3, <3>4 DEF Copies
    <2>2. \A q \in Peers : joined'[q] <= Len(events')
      BY <1>1 DEF BusInv, PublishInv
    <2>3. \A g \in Goroutines : \A q \in publish'[g].subs : joined'[q] < publish'[g].event
      BY <1>1 DEF BusInv, PublishInv
    <2> QED BY <1>1, <2>1, <2>2, <2>3 DEF BusInv, PublishInv, Pushing, Copies
  <1>5. CopyInv'
    <2>1. ASSUME NEW q \in Peers, NEW i \in DOMAIN sent'[q], sent'[q][i].event # 0
          PROVE  i \in DOMAIN sent[q] /\ sent'[q][i] = sent[q][i]
      BY <2>1 DEF NoNewEvents
    <2>2. ASSUME NEW q \in Peers, NEW e \in DOMAIN events
          PROVE  Copies(q, e)' = Copies(q, e)
      BY <1>1, <1>2
    <2> QED BY <1>1, <2>1, <2>2 DEF BusInv, CopyInv, Pushing, Copies
  <1>6. ReapInv'
    BY <1>1 DEF BusInv, ReapInv, Pushing
  <1> QED BY <1>3, <1>4, <1>5, <1>6 DEF BusInv

\* Publish copies the list: everyone on it is to get the new event, nobody has it.
LEMMA BeginsBus ==
    ASSUME TypeOK, BusInv, NEW g \in Goroutines, NEW name \in Names, PublishBegins(g, name),
           UNCHANGED <<busVars, sent>>, JoinStep
    PROVE  BusInv'
  <1> DEFINE e0 == Len(events) + 1
  <1> DEFINE new == [at |-> "push", event |-> e0, subs |-> subscribers, anyDead |-> FALSE]
  <1>1. /\ UNCHANGED <<subscribers, wants, dead, joined, died, sent>>
        /\ Len(events) \in Nat /\ DOMAIN events = 1..Len(events) /\ DOMAIN events' = 1..e0
        /\ \A e \in 1..Len(events) : events'[e] = events[e]
        /\ Len(events') = e0
    BY BeginsType DEF busVars, TypeOK
  <1>2. /\ publish[g].at = "idle" /\ publish'[g] = new
        /\ \A h \in Goroutines \ {g} : publish'[h] = publish[h]
    BY DEF PublishBegins, TypeOK
  <1>3. new.at = "push" /\ new.event = e0 /\ new.subs = subscribers
    OBVIOUS
  <1>4. \A q \in Peers : \A i \in DOMAIN sent[q] :
           /\ sent[q][i].event # e0
           /\ sent[q][i].event # 0 => sent[q][i].event \in 1..Len(events)
    <2> SUFFICES ASSUME NEW q \in Peers, NEW i \in DOMAIN sent[q]
                 PROVE  sent[q][i].event = 0 \/ sent[q][i].event \in 1..Len(events)
      BY <1>1
    <2> QED BY DEF BusInv, CopyInv
  <1>5. \A h \in Goroutines : ~Pushing(h, e0)
    BY <1>1 DEF BusInv, PublishInv, Pushing
  <1>6. \A q \in subscribers : q \in Peers /\ joined[q] \in 0..Len(events)
    <2> SUFFICES ASSUME NEW q \in Peers PROVE joined[q] \in 0..Len(events)
      BY DEF TypeOK
    <2> QED BY ControlAssumption DEF TypeOK, BusInv, PublishInv
  <1> HIDE DEF new, e0
  <1>7. JoinInv'
    <2>1. ASSUME NEW h \in Goroutines, NEW q \in publish'[h].subs
          PROVE  Joined(q)'
      <3>1. q \in Peers /\ Joined(q)
        <4>1. q \in subscribers \/ q \in publish[h].subs
          BY <1>2, <1>3, <2>1
        <4>2. CASE q \in subscribers
          BY <1>6, <4>2 DEF BusInv, JoinInv
        <4>3. CASE q \in publish[h].subs
          <5>1. q \in Peers
            BY <4>3 DEF TypeOK
          <5> QED BY <4>3, <5>1 DEF BusInv, JoinInv
        <4> QED BY <4>1, <4>2, <4>3
      <3> QED BY <3>1 DEF JoinStep
    <2>2. ASSUME NEW q \in Peers
          PROVE  /\ q \in subscribers' \union dead' => Joined(q)'
                 /\ (\E i \in DOMAIN sent'[q] : sent'[q][i].event # 0) => Joined(q)'
                 /\ (subscribed[q] \/ Joining(q))' => q \in subscribers' \union dead'
                 /\ at'[q] = "dispatch" => ~subscribed'[q] /\ command'[q].cmd # "huge"
      BY <1>1 DEF JoinStep, BusInv, JoinInv
    <2> QED BY <2>1, <2>2 DEF JoinInv, Joining
  <1>8. PublishInv'
    <2>1. \A q \in Peers : joined'[q] <= Len(events')
      <3> SUFFICES ASSUME NEW q \in Peers PROVE joined[q] <= Len(events')
        BY <1>1
      <3> QED BY <1>1 DEF e0, TypeOK, BusInv, PublishInv
    <2>2. ASSUME NEW h \in Goroutines
          PROVE  /\ publish'[h].at = "idle" => publish'[h] = NoPublish
                 /\ publish'[h].at = "push" => publish'[h].event \in 1..Len(events')
      <3>1. CASE h = g
        BY <1>1, <1>2, <1>3, <3>1 DEF e0
      <3>2. CASE h # g
        BY <1>1, <1>2, <3>2 DEF e0, BusInv, PublishInv
      <3> QED BY <3>1, <3>2
    <2>3. ASSUME NEW f \in Goroutines, NEW h \in Goroutines,
                 publish'[f].at = "push", Pushing(h, publish[f].event)'
          PROVE  f = h
      <3>1. Pushing(h, publish[f].event)' <=> publish'[h].at = "push" /\ publish'[h].event = publish'[f].event
        BY DEF Pushing
      <3>2. CASE f = g
        BY <1>2, <1>3, <1>5, <2>3, <3>1, <3>2 DEF Pushing
      <3>3. CASE h = g
        BY <1>2, <1>3, <1>5, <2>3, <3>1, <3>3 DEF Pushing
      <3>4. CASE f # g /\ h # g
        BY <1>2, <2>3, <3>1, <3>4 DEF BusInv, PublishInv, Pushing
      <3> QED BY <3>2, <3>3, <3>4
    <2>4. ASSUME NEW h \in Goroutines, NEW q \in publish'[h].subs
          PROVE  joined'[q] < publish'[h].event /\ Copies(q, publish[h].event)' = {}
      <3>1. CASE h = g
        <4>1. q \in subscribers /\ publish'[h].event = e0
          BY <1>2, <1>3, <2>4, <3>1
        <4>2. joined'[q] < e0
          BY <1>1, <1>6, <4>1 DEF e0
        <4>3. Copies(q, publish[h].event)' = {}
          BY <1>1, <1>4, <1>6, <4>1 DEF Copies
        <4> QED BY <4>1, <4>2, <4>3
      <3>2. CASE h # g
        BY <1>1, <1>2, <2>4, <3>2 DEF BusInv, PublishInv, Copies
      <3> QED BY <3>1, <3>2
    <2> QED BY <2>1, <2>2, <2>3, <2>4 DEF PublishInv
  <1>9. CopyInv'
    <2>1. ASSUME NEW q \in Peers, NEW i \in DOMAIN sent[q], sent[q][i].event # 0
          PROVE  /\ sent[q][i].event \in 1..Len(events') /\ sent[q][i].event > joined[q]
                 /\ events'[sent[q][i].event] \in wants[q]
      <3>1. sent[q][i].event \in 1..Len(events) /\ events'[sent[q][i].event] = events[sent[q][i].event]
        BY <1>1, <1>4, <2>1
      <3> QED BY <1>1, <2>1, <3>1 DEF e0, BusInv, CopyInv
    <2>2. ASSUME NEW q \in Peers, NEW e \in 1..e0,
                 q \in subscribers \ dead, e > joined[q], events'[e] \in wants[q], Copies(q, e) = {}
          PROVE  \E h \in Goroutines : Pushing(h, e)' /\ q \in publish'[h].subs
      <3>1. CASE e = e0
        <4>1. Pushing(g, e)' /\ q \in publish'[g].subs
          BY <1>2, <1>3, <2>2, <3>1 DEF Pushing
        <4> QED BY <4>1
      <3>2. CASE e \in 1..Len(events)
        <4>1. PICK h \in Goroutines : Pushing(h, e) /\ q \in publish[h].subs
          BY <1>1, <2>2, <3>2 DEF BusInv, CopyInv
        <4>2. h # g
          BY <1>2, <4>1 DEF Pushing
        <4> QED BY <1>2, <4>1, <4>2 DEF Pushing
      <3> QED BY <1>1, <3>1, <3>2 DEF e0
    <2>3. \A q \in Peers, e \in 1..e0 : Copies(q, e)' = Copies(q, e)
      BY <1>1 DEF Copies
    <2>4. \A q \in Peers : \A i, j \in DOMAIN sent[q] :
              sent[q][i].event = sent[q][j].event /\ sent[q][i].event # 0 => i = j
      BY DEF BusInv, CopyInv
    <2>5. UNCHANGED <<sent, subscribers, dead, joined, wants>> /\ DOMAIN events' = 1..e0
      BY <1>1
    <2> QED BY <1>1, <2>1, <2>2, <2>3, <2>4, <2>5 DEF CopyInv
  <1>10. ReapInv'
    <2>1. \A h \in Goroutines : publish[h].at = "push" => publish'[h] = publish[h]
      BY <1>2
    <2>2. ASSUME NEW q \in subscribers \intersect dead
          PROVE  \E h \in Goroutines : publish'[h].at = "push" /\ publish'[h].anyDead
      BY <2>1 DEF BusInv, ReapInv
    <2>3. ASSUME NEW q \in subscribers \intersect dead, NEW e \in 1..e0, e > died[q]
          PROVE  \E h \in Goroutines :
                    Pushing(h, e)' /\ (publish'[h].anyDead \/ q \in publish'[h].subs)
      <3>1. CASE e = e0
        BY <1>2, <1>3, <3>1 DEF Pushing
      <3>2. CASE e # e0
        <4>1. e \in DOMAIN events
          BY <1>1, <3>2 DEF e0
        <4>2. PICK h \in Goroutines : Pushing(h, e) /\ (publish[h].anyDead \/ q \in publish[h].subs)
          BY <2>3, <4>1 DEF BusInv, ReapInv
        <4> QED BY <2>1, <4>2 DEF Pushing
      <3> QED BY <3>1, <3>2
    <2> QED BY <1>1, <2>2, <2>3 DEF ReapInv
  <1> QED BY <1>7, <1>8, <1>9, <1>10 DEF BusInv

\* One subscriber is done with: it has the event, does not want it, or is dead.
LEMMA PushBus ==
    ASSUME TypeOK, BusInv, NEW g \in Goroutines, Push(g)
    PROVE  BusInv'
  <1> DEFINE e0 == publish[g].event
  <1>1. PICK s \in publish[g].subs : PushTo(g, s)
    BY DEF Push
  <1>2. /\ publish[g].at = "push"
        /\ UNCHANGED <<conn, at, command, subscribed, read, subscribers, wants, joined, events>>
    BY DEF Push
  <1>3. s \in Peers /\ Len(events) \in Nat /\ DOMAIN events = 1..Len(events)
    BY DEF TypeOK
  <1>4. e0 \in 1..Len(events) /\ e0 \in 1..MaxEvents
    <2>1. e0 \in 1..Len(events)
      BY <1>2 DEF BusInv, PublishInv
    <2> QED BY <1>3, <2>1, ControlAssumption DEF TypeOK
  <1>5. /\ publish'[g].at = "push" /\ publish'[g].event = e0
        /\ publish'[g].subs = publish[g].subs \ {s}
        /\ publish[g].anyDead => publish'[g].anyDead
        /\ s \in dead' => publish'[g].anyDead
        /\ \A h \in Goroutines \ {g} : publish'[h] = publish[h]
    BY <1>1, <1>2, Pushed
  <1>6. joined[s] < e0 /\ Copies(s, e0) = {} /\ Joined(s)
    <2>1. joined[s] < e0
      BY DEF BusInv, PublishInv
    <2>2. Copies(s, e0) = {}
      BY DEF BusInv, PublishInv
    <2>3. Joined(s)
      BY DEF BusInv, JoinInv
    <2> QED BY <2>1, <2>2, <2>3
  <1>7. dead \subseteq dead' /\ dead' \subseteq dead \union {s}
    BY <1>1 DEF PushTo
  <1> DEFINE n == Len(sent[s]) + 1
  <1> HIDE DEF e0
  <1>8. \/ sent' = sent /\ (s \in dead' \/ events[e0] \notin wants[s])
        \/ /\ events[e0] \in wants[s]
           /\ n \in Nat \ {0} /\ DOMAIN sent[s] = 1..(n - 1) /\ DOMAIN sent'[s] = 1..n
           /\ \A i \in 1..(n - 1) : sent'[s][i] = sent[s][i]
           /\ sent'[s][n].event = e0
           /\ \A q \in Peers \ {s} : sent'[q] = sent[q]
    <2> DEFINE line == [reply |-> "none", event |-> e0]
    <2>1. CASE events[e0] \in wants[s] /\ Write(s, line)
      <3>1. line \in Lines /\ line.event = e0
        BY <1>4, EventIsLine
      <3> HIDE DEF line
      <3> QED BY <1>2, <1>3, <2>1, <3>1, Written
    <2>2. \/ events[e0] \in wants[s] /\ Write(s, line)
          \/ sent' = sent /\ (s \in dead' \/ events[e0] \notin wants[s])
      BY <1>1 DEF PushTo, e0
    <2> QED BY <2>1, <2>2
  <1> HIDE DEF n
  <1>9. \A q \in Peers : \A i \in DOMAIN sent[q] : i \in DOMAIN sent'[q] /\ sent'[q][i] = sent[q][i]
    <2> SUFFICES ASSUME NEW q \in Peers, NEW i \in DOMAIN sent[q], sent' # sent
                 PROVE  i \in DOMAIN sent'[q] /\ sent'[q][i] = sent[q][i]
      OBVIOUS
    <2>1. CASE q = s
      <3>1. n \in Nat \ {0} /\ i \in 1..(n - 1) /\ DOMAIN sent'[s] = 1..n
        BY <1>8, <2>1
      <3>2. i \in 1..n
        BY <3>1
      <3> QED BY <1>8, <2>1, <3>1, <3>2
    <2>2. CASE q # s
      BY <1>8, <2>2
    <2> QED BY <2>1, <2>2
  <1>10. \A q \in Peers : \A i \in DOMAIN sent'[q] \ DOMAIN sent[q] :
            /\ q = s /\ i = n /\ sent'[q][i].event = e0 /\ events[e0] \in wants[s]
    BY <1>3, <1>8
  <1>11. JoinInv'
    <2>1. \A q \in Peers : (Joined(q)' <=> Joined(q)) /\ (Joining(q)' <=> Joining(q))
      BY <1>2 DEF Joined, Joining
    <2>2. ASSUME NEW q \in Peers
          PROVE  /\ q \in subscribers' \union dead' => Joined(q)'
                 /\ (subscribed[q] \/ Joining(q))' => q \in subscribers' \union dead'
                 /\ at'[q] = "dispatch" => ~subscribed'[q] /\ command'[q].cmd # "huge"
      BY <1>2, <1>6, <1>7, <2>1 DEF BusInv, JoinInv
    <2>3. ASSUME NEW q \in Peers, NEW i \in DOMAIN sent'[q], sent'[q][i].event # 0
          PROVE  Joined(q)'
      BY <1>6, <1>9, <1>10, <2>1, <2>3 DEF BusInv, JoinInv
    <2>4. ASSUME NEW h \in Goroutines, NEW q \in publish'[h].subs
          PROVE  Joined(q)'
      <3>1. q \in publish[h].subs /\ q \in Peers
        BY <1>5, <2>4 DEF TypeOK
      <3> QED BY <2>1, <3>1 DEF BusInv, JoinInv
    <2> QED BY <2>2, <2>3, <2>4 DEF JoinInv, Joining
  <1>12. PublishInv'
    <2>1. \A h \in Goroutines : publish'[h].at = publish[h].at /\ publish'[h].event = publish[h].event
      BY <1>2, <1>5 DEF e0
    <2>2. ASSUME NEW h \in Goroutines
          PROVE  /\ publish'[h].at = "idle" => publish'[h] = NoPublish
                 /\ publish'[h].at = "push" => publish'[h].event \in 1..Len(events')
      BY <1>2, <1>5, <2>1 DEF BusInv, PublishInv
    <2>3. ASSUME NEW h \in Goroutines, NEW q \in publish'[h].subs
          PROVE  joined'[q] < publish'[h].event /\ Copies(q, publish[h].event)' = {}
      <3>1. q \in publish[h].subs /\ (h = g => q # s) /\ q \in Peers
        BY <1>5, <2>3 DEF TypeOK
      <3>2. joined[q] < publish[h].event /\ Copies(q, publish[h].event) = {}
        BY <3>1 DEF BusInv, PublishInv
      <3>3. h = g \/ publish[h].event # e0
        <4>1. publish[h].at = "push"
          BY <3>1 DEF BusInv, PublishInv, NoPublish, TypeOK
        <4> QED BY <1>2, <4>1 DEF BusInv, PublishInv, Pushing, e0
      <3>4. ASSUME NEW i \in DOMAIN sent'[q], sent'[q][i].event = publish'[h].event
            PROVE  FALSE
        <4>1. CASE i \in DOMAIN sent[q]
          <5>1. sent[q][i].event = publish[h].event
            BY <1>9, <2>1, <3>1, <3>4, <4>1
          <5> QED BY <3>2, <4>1, <5>1 DEF Copies
        <4>2. CASE i \notin DOMAIN sent[q]
          BY <1>10, <2>1, <3>1, <3>3, <3>4, <4>2
        <4> QED BY <4>1, <4>2
      <3> QED BY <1>2, <2>1, <3>2, <3>4 DEF Copies
    <2>4. \A q \in Peers : joined'[q] <= Len(events')
      BY <1>2 DEF BusInv, PublishInv
    <2>5. \A f, h \in Goroutines :
             publish'[f].at = "push" /\ Pushing(h, publish[f].event)' => f = h
      BY <2>1 DEF BusInv, PublishInv, Pushing
    <2> QED BY <2>2, <2>3, <2>4, <2>5 DEF PublishInv
  <1>13. CopyInv'
    <2>1. ASSUME NEW q \in Peers, NEW i \in DOMAIN sent'[q], sent'[q][i].event # 0
          PROVE  /\ sent'[q][i].event \in 1..Len(events) /\ sent'[q][i].event > joined[q]
                 /\ events[sent'[q][i].event] \in wants[q]
      <3>1. CASE i \in DOMAIN sent[q]
        BY <1>9, <2>1, <3>1 DEF BusInv, CopyInv
      <3>2. CASE i \notin DOMAIN sent[q]
        <4>1. joined[s] \in Nat /\ e0 \in Nat /\ e0 > joined[s]
          BY <1>3, <1>4, <1>6 DEF TypeOK
        <4> QED BY <1>4, <1>10, <3>2, <4>1
      <3> QED BY <3>1, <3>2
    <2>2. ASSUME NEW q \in Peers, NEW i \in DOMAIN sent'[q], NEW j \in DOMAIN sent'[q],
                 sent'[q][i].event = sent'[q][j].event, sent'[q][i].event # 0
          PROVE  i = j
      <3>1. CASE i \in DOMAIN sent[q] /\ j \in DOMAIN sent[q]
        BY <1>9, <2>2, <3>1 DEF BusInv, CopyInv
      <3>2. CASE i \notin DOMAIN sent[q] /\ j \notin DOMAIN sent[q]
        BY <1>10, <3>2
      <3>3. CASE i \in DOMAIN sent[q] /\ j \notin DOMAIN sent[q]
        BY <1>6, <1>9, <1>10, <2>2, <3>3 DEF Copies
      <3>4. CASE i \notin DOMAIN sent[q] /\ j \in DOMAIN sent[q]
        BY <1>6, <1>9, <1>10, <2>2, <3>4 DEF Copies
      <3> QED BY <3>1, <3>2, <3>3, <3>4
    <2>3. ASSUME NEW q \in Peers, NEW e \in DOMAIN events,
                 q \in subscribers \ dead', e > joined[q], events[e] \in wants[q]
          PROVE  \/ Copies(q, e)' # {}
                 \/ \E h \in Goroutines : Pushing(h, e)' /\ q \in publish'[h].subs
      <3>1. CASE Copies(q, e) # {}
        BY <1>9, <3>1 DEF Copies
      <3>2. CASE Copies(q, e) = {}
        <4>1. PICK h \in Goroutines : Pushing(h, e) /\ q \in publish[h].subs
          BY <1>7, <2>3, <3>2 DEF BusInv, CopyInv
        <4>2. CASE h = g /\ q = s
          <5>1. e = e0
            BY <4>1, <4>2 DEF Pushing, e0
          <5>2. n \in DOMAIN sent'[s] /\ sent'[s][n].event = e0
            BY <1>3, <1>8, <2>3, <4>2, <5>1
          <5> QED BY <4>2, <5>1, <5>2 DEF Copies
        <4>3. CASE h = g /\ q # s
          BY <1>5, <4>1, <4>3 DEF Pushing, e0
        <4>4. CASE h # g
          BY <1>5, <4>1, <4>4 DEF Pushing
        <4> QED BY <4>2, <4>3, <4>4
      <3> QED BY <3>1, <3>2
    <2> QED BY <1>2, <2>1, <2>2, <2>3 DEF CopyInv
  <1>14. ReapInv'
    <2>1. ASSUME NEW q \in subscribers \intersect dead'
          PROVE  \E h \in Goroutines : publish'[h].at = "push" /\ publish'[h].anyDead
      <3>1. CASE q \in dead
        <4>1. PICK h \in Goroutines : publish[h].at = "push" /\ publish[h].anyDead
          BY <2>1, <3>1 DEF BusInv, ReapInv
        <4> QED BY <1>5, <4>1
      <3>2. CASE q \notin dead
        BY <1>2, <1>5, <1>7, <2>1, <3>2
      <3> QED BY <3>1, <3>2
    <2>2. ASSUME NEW q \in subscribers \intersect dead', NEW e \in DOMAIN events, e > died'[q]
          PROVE  \E h \in Goroutines :
                    Pushing(h, e)' /\ (publish'[h].anyDead \/ q \in publish'[h].subs)
      <3>1. q \in dead /\ died'[q] = died[q]
        <4>1. q \in Peers
          BY DEF TypeOK
        <4>2. CASE s \in dead \/ dead' = dead
          BY <1>1, <1>7, <2>2, <4>2 DEF PushTo
        <4>3. CASE s \notin dead /\ dead' # dead
          <5>1. died' = [died EXCEPT ![s] = Len(events)]
            BY <1>1, <4>3 DEF PushTo
          <5>2. q # s
            BY <1>3, <2>2, <4>1, <5>1 DEF TypeOK
          <5> QED BY <1>7, <2>2, <4>1, <5>1, <5>2 DEF TypeOK
        <4> QED BY <4>2, <4>3
      <3>2. PICK h \in Goroutines : Pushing(h, e) /\ (publish[h].anyDead \/ q \in publish[h].subs)
        BY <2>2, <3>1 DEF BusInv, ReapInv
      <3>3. CASE h = g
        <4>1. Pushing(g, e)'
          BY <1>5, <3>2, <3>3 DEF Pushing, e0
        <4>2. publish'[g].anyDead \/ q \in publish'[g].subs
          BY <1>5, <1>7, <3>1, <3>2, <3>3
        <4> QED BY <4>1, <4>2
      <3>4. CASE h # g
        BY <1>5, <3>2, <3>4 DEF Pushing
      <3> QED BY <3>3, <3>4
    <2> QED BY <1>2, <2>1, <2>2 DEF ReapInv
  <1> QED BY <1>11, <1>12, <1>13, <1>14 DEF BusInv

\* A Publish is done; the dead it found leave the list.
LEMMA ReturnsBus ==
    ASSUME TypeOK, BusInv, NEW g \in Goroutines, PublishReturns(g)
    PROVE  BusInv'
  <1>1. /\ UNCHANGED <<conn, at, command, subscribed, sent, wants, dead, joined, died, events>>
        /\ publish[g].at = "push" /\ publish[g].subs = {}
        /\ subscribers' = IF publish[g].anyDead THEN subscribers \ dead ELSE subscribers
    BY DEF PublishReturns, connVars
  <1>2. /\ publish'[g] = NoPublish /\ publish'[g].at = "idle" /\ publish'[g].subs = {}
        /\ \A h \in Goroutines \ {g} : publish'[h] = publish[h]
    BY DEF PublishReturns, TypeOK, NoPublish
  <1>3. JoinInv'
    BY <1>1, <1>2 DEF BusInv, JoinInv, Joined, Joining
  <1>4. PublishInv'
    <2>1. \A q \in Peers : joined'[q] <= Len(events')
      BY <1>1 DEF BusInv, PublishInv
    <2>2. ASSUME NEW h \in Goroutines
          PROVE  /\ publish'[h].at = "idle" => publish'[h] = NoPublish
                 /\ publish'[h].at = "push" => publish'[h].event \in 1..Len(events')
                 /\ publish'[h].at = "push" => publish'[h] = publish[h]
                 /\ \A q \in publish'[h].subs : publish'[h] = publish[h] /\ joined'[q] < publish'[h].event
      <3>1. CASE h = g
        BY <1>2, <3>1
      <3>2. CASE h # g
        BY <1>1, <1>2, <3>2 DEF BusInv, PublishInv
      <3> QED BY <3>1, <3>2
    <2>3. \A f, h \in Goroutines :
             publish'[f].at = "push" /\ Pushing(h, publish[f].event)' => f = h
      BY <2>2 DEF BusInv, PublishInv, Pushing
    <2>4. \A h \in Goroutines : \A q \in publish'[h].subs : Copies(q, publish[h].event)' = {}
      BY <1>1, <2>2 DEF BusInv, PublishInv, Copies
    <2> QED BY <2>1, <2>2, <2>3, <2>4 DEF PublishInv
  <1>5. CopyInv'
    <2>1. ASSUME NEW q \in Peers, NEW e \in DOMAIN events,
                 q \in subscribers' \ dead, e > joined[q], events[e] \in wants[q], Copies(q, e) = {}
          PROVE  \E h \in Goroutines : Pushing(h, e)' /\ q \in publish'[h].subs
      <3>1. PICK h \in Goroutines : Pushing(h, e) /\ q \in publish[h].subs
        BY <1>1, <2>1 DEF BusInv, CopyInv
      <3>2. h # g
        BY <1>1, <3>1
      <3> QED BY <1>2, <3>1, <3>2 DEF Pushing
    <2> QED BY <1>1, <2>1 DEF BusInv, CopyInv, Copies
  <1>6. ReapInv'
    <2>1. \A q \in subscribers' \intersect dead : q \in subscribers /\ ~publish[g].anyDead
      BY <1>1
    <2>2. ASSUME NEW q \in subscribers' \intersect dead
          PROVE  \E h \in Goroutines : publish'[h].at = "push" /\ publish'[h].anyDead
      <3>1. PICK h \in Goroutines : publish[h].at = "push" /\ publish[h].anyDead
        BY <2>1 DEF BusInv, ReapInv
      <3> QED BY <1>2, <2>1, <3>1
    <2>3. ASSUME NEW q \in subscribers' \intersect dead, NEW e \in DOMAIN events, e > died[q]
          PROVE  \E h \in Goroutines :
                    Pushing(h, e)' /\ (publish'[h].anyDead \/ q \in publish'[h].subs)
      <3>1. PICK h \in Goroutines : Pushing(h, e) /\ (publish[h].anyDead \/ q \in publish[h].subs)
        BY <2>1, <2>3 DEF BusInv, ReapInv
      <3>2. h # g
        BY <1>1, <2>1, <3>1
      <3> QED BY <1>2, <3>1, <3>2 DEF Pushing
    <2> QED BY <1>1, <2>2, <2>3 DEF ReapInv
  <1> QED BY <1>3, <1>4, <1>5, <1>6 DEF BusInv

\* A peer that subscribes is new to the bus, whatever its earlier fields say.
LEMMA SubscribeBus ==
    ASSUME TypeOK, BusInv, NEW p \in Peers, DispatchSubscribe(p)
    PROVE  BusInv'
  <1>1. /\ UNCHANGED <<conn, command, subscribed, sent, dead, died, publish, events>>
        /\ conn[p] = "open" /\ at[p] = "dispatch" /\ command[p].cmd = "subscribe"
        /\ subscribers' = subscribers \union {p}
        /\ at'[p] = "reply" /\ \A q \in Peers \ {p} : at'[q] = at[q]
        /\ joined'[p] = Len(events) /\ \A q \in Peers \ {p} : joined'[q] = joined[q] /\ wants'[q] = wants[q]
    BY DEF DispatchSubscribe, TypeOK
  <1>2. /\ p \notin subscribers \union dead
        /\ \A i \in DOMAIN sent[p] : sent[p][i].event = 0
        /\ \A g \in Goroutines : p \notin publish[g].subs
    <2>1. ~Joined(p)
      BY <1>1 DEF Joined, Joining, BusInv, JoinInv
    <2> QED BY <2>1 DEF BusInv, JoinInv
  <1>3. \A g \in Goroutines : publish[g].subs \subseteq Peers \ {p}
    BY <1>2 DEF TypeOK
  <1>4. JoinInv'
    <2>1. Joined(p)' /\ Joining(p)' /\ \A q \in Peers \ {p} : (Joined(q)' <=> Joined(q)) /\ (Joining(q)' <=> Joining(q))
      BY <1>1 DEF Joined, Joining
    <2>2. ASSUME NEW q \in Peers
          PROVE  /\ q \in subscribers' \union dead' => Joined(q)'
                 /\ (\E i \in DOMAIN sent'[q] : sent'[q][i].event # 0) => Joined(q)'
                 /\ (subscribed[q] \/ Joining(q))' => q \in subscribers' \union dead'
                 /\ at'[q] = "dispatch" => ~subscribed'[q] /\ command'[q].cmd # "huge"
      <3>1. CASE q = p
        BY <1>1, <2>1, <3>1
      <3>2. CASE q # p
        BY <1>1, <2>1, <3>2 DEF BusInv, JoinInv
      <3> QED BY <3>1, <3>2
    <2>3. ASSUME NEW g \in Goroutines, NEW q \in publish'[g].subs
          PROVE  Joined(q)'
      BY <1>1, <1>3, <2>1 DEF BusInv, JoinInv
    <2> QED BY <2>2, <2>3 DEF JoinInv, Joining
  <1>5. PublishInv'
    <2>1. \A q \in Peers : joined'[q] <= Len(events')
      <3>1. Len(events) \in Nat
        BY DEF TypeOK
      <3> QED BY <1>1, <3>1 DEF BusInv, PublishInv
    <2>2. \A g \in Goroutines : \A q \in publish'[g].subs :
             joined'[q] < publish'[g].event /\ Copies(q, publish[g].event)' = {}
      BY <1>1, <1>3 DEF BusInv, PublishInv, Copies
    <2> QED BY <1>1, <2>1, <2>2 DEF BusInv, PublishInv, Pushing
  <1>6. CopyInv'
    <2>1. ASSUME NEW q \in Peers, NEW e \in DOMAIN events,
                 q \in subscribers' \ dead, e > joined'[q], events[e] \in wants'[q]
          PROVE  \/ Copies(q, e)' # {}
                 \/ \E g \in Goroutines : Pushing(g, e)' /\ q \in publish'[g].subs
      <3>1. q # p
        <4>1. e \in 1..Len(events) /\ Len(events) \in Nat
          <5>1. events \in Seq(Names)
            BY DEF TypeOK
          <5> QED BY <5>1
        <4> QED BY <1>1, <2>1, <4>1
      <3> QED BY <1>1, <2>1, <3>1 DEF BusInv, CopyInv, Pushing, Copies
    <2> QED BY <1>1, <1>2, <2>1 DEF BusInv, CopyInv
  <1>7. ReapInv'
    BY <1>1, <1>2 DEF BusInv, ReapInv, Pushing
  <1> QED BY <1>4, <1>5, <1>6, <1>7 DEF BusInv

-----------------------------------------------------------------------------
(* The replies.                                                            *)

\* There are finitely many answers, and one that is there counts.
LEMMA AnswersCounted ==
    ASSUME TypeOK, NEW p \in Peers, NEW n \in Nat
    PROVE  /\ IsFiniteSet(Answers(p, n)) /\ Cardinality(Answers(p, n)) \in Nat
           /\ Answers(p, n) # {} => Cardinality(Answers(p, n)) >= 1
  <1>1. IsFiniteSet(1..n) /\ Answers(p, n) \subseteq 1..n
    BY FS_Interval DEF Answers
  <1>2. IsFiniteSet(Answers(p, n))
    BY <1>1, FS_Subset
  <1>3. Cardinality(Answers(p, n)) \in Nat /\ (Cardinality(Answers(p, n)) = 0 <=> Answers(p, n) = {})
    BY <1>2, FS_CardinalityType, FS_EmptySet
  <1> QED BY <1>2, <1>3

\* Replies that were right stay right when nothing is sent either way.
LEMMA SameReplies ==
    ASSUME RepliesInOrder, UNCHANGED <<sent, asked>>
    PROVE  RepliesInOrder'
  <1>1. \A p, n : Answers(p, n)' = Answers(p, n)
    BY DEF Answers
  <1> QED BY <1>1 DEF RepliesInOrder

LEMMA InitReply == Init => ReplyInv
  <1> SUFFICES ASSUME Init, NEW p \in Peers
               PROVE  /\ Len(inbox[p]) = 0 /\ Len(asked[p]) = 0 /\ Len(sent[p]) = 0
                      /\ at[p] = "scan" /\ ~subscribed[p]
                      /\ Answers(p, 0) = {} /\ Cardinality(Answers(p, 0)) = 0
    BY DEF Init, ReplyInv, InboxInv, AnswerInv, RepliesInOrder, Taken, Answered
  <1>1. Answers(p, 0) = {}
    BY DEF Answers
  <1> QED BY <1>1, FS_EmptySet DEF Init

\* Nothing is written but events.
NoNewReplies ==
    \A q \in Peers :
        /\ Len(sent[q]) <= Len(sent'[q])
        /\ \A i \in 1..Len(sent[q]) : sent'[q][i] = sent[q][i]
        /\ \A i \in 1..Len(sent'[q]) : i \in 1..Len(sent[q]) \/ sent'[q][i].event # 0

\* What does not go through the handler's loop breaks connections at most.
LEMMA QuietReply ==
    ASSUME TypeOK, TypeOK', ReplyInv, NoNewReplies, UNCHANGED <<inbox, asked, command, subscribed>>,
           \A q \in Peers : /\ Broken(q) => Broken(q)'
                            /\ at'[q] = "scan" <=> at[q] = "scan"
    PROVE  ReplyInv'
  <1>1. \A q \in Peers : Len(sent[q]) \in Nat /\ Len(sent'[q]) \in Nat
    <2>1. sent \in [Peers -> Seq(Lines)] /\ sent' \in [Peers -> Seq(Lines)]
      BY DEF TypeOK
    <2> HIDE DEF Lines
    <2> QED BY <2>1
  <1>2. ASSUME NEW q \in Peers
        PROVE  /\ Answers(q, Len(sent[q]))' = Answers(q, Len(sent[q]))
               /\ \A i \in 1..Len(sent[q]) : Answers(q, i)' = Answers(q, i)
    BY <1>1 DEF NoNewReplies, Answers
  <1>3. InboxInv'
    BY DEF ReplyInv, InboxInv, Taken
  <1>4. AnswerInv'
    BY <1>2 DEF ReplyInv, AnswerInv, Answered, Taken
  <1>5. RepliesInOrder'
    <2> SUFFICES ASSUME NEW q \in Peers, NEW i \in Answers(q, Len(sent[q]))'
                 PROVE  /\ Cardinality(Answers(q, i)') <= Len(asked[q])
                        /\ Right(q, Cardinality(Answers(q, i)'), sent'[q][i].reply)
      BY DEF RepliesInOrder, Right
    <2>1. i \in Answers(q, Len(sent[q])) /\ i \in 1..Len(sent[q])
      BY <1>2 DEF Answers
    <2>2. Answers(q, i)' = Answers(q, i) /\ sent'[q][i] = sent[q][i]
      BY <1>2, <2>1 DEF NoNewReplies
    <2> QED BY <2>1, <2>2 DEF ReplyInv, RepliesInOrder, Right
  <1> QED BY <1>3, <1>4, <1>5 DEF ReplyInv

LEMMA PushReply ==
    ASSUME TypeOK, TypeOK', BusInv, ReplyInv, NEW g \in Goroutines, Push(g)
    PROVE  ReplyInv'
  <1>1. PICK s \in publish[g].subs : PushTo(g, s)
    BY DEF Push
  <1>2. UNCHANGED <<peer, conn, inbox, at, command, subscribed, read, asked>>
    BY DEF Push
  <1>3. s \in Peers /\ publish[g].event \in 1..MaxEvents
    <2>1. publish[g].event \in 1..Len(events)
      BY DEF Push, BusInv, PublishInv
    <2>2. Len(events) \in Nat /\ Len(events) <= MaxEvents /\ MaxEvents \in Nat
      BY ControlAssumption DEF TypeOK
    <2> QED BY <2>1, <2>2 DEF TypeOK
  <1>4. NoNewReplies
    <2> DEFINE line == [reply |-> "none", event |-> publish[g].event]
    <2>1. line \in Lines /\ line.event # 0
      BY <1>3, EventIsLine
    <2>2. sent' = sent \/ Write(s, line)
      BY <1>1 DEF PushTo
    <2> HIDE DEF line
    <2>3. CASE sent' = sent
      <3>1. \A q \in Peers : Len(sent[q]) \in Nat
        BY DEF TypeOK
      <3> QED BY <2>3, <3>1 DEF NoNewReplies
    <2>4. CASE Write(s, line)
      <3>1. \A q \in Peers : Len(sent[q]) \in Nat
        BY DEF TypeOK
      <3>2. /\ Len(sent'[s]) = Len(sent[s]) + 1
            /\ \A i \in 1..Len(sent[s]) : sent'[s][i] = sent[s][i]
            /\ sent'[s][Len(sent[s]) + 1] = line
            /\ \A q \in Peers \ {s} : sent'[q] = sent[q]
        BY <1>2, <1>3, <2>1, <2>4, Written
      <3>3. ASSUME NEW q \in Peers
            PROVE  /\ Len(sent[q]) <= Len(sent'[q])
                   /\ \A i \in 1..Len(sent[q]) : sent'[q][i] = sent[q][i]
                   /\ \A i \in 1..Len(sent'[q]) : i \in 1..Len(sent[q]) \/ sent'[q][i].event # 0
        <4>1. CASE q = s
          BY <1>3, <2>1, <3>1, <3>2, <4>1
        <4>2. CASE q # s
          BY <3>1, <3>2, <4>2
        <4> QED BY <4>1, <4>2
      <3> QED BY <3>3 DEF NoNewReplies
    <2> QED BY <2>2, <2>3, <2>4
  <1> QED BY <1>2, <1>4, QuietReply DEF Broken

\* The lengths of asked, a, and of inbox, b.
LEMMA Lengths ==
    \A a, b \in Nat : b <= a =>
        /\ a - b \in 0..a /\ (a + 1) - (b + 1) = a - b /\ (a - b) + (b + 1) = a + 1
        /\ \A i \in 1..b : (a - b) + i \in 1..a
  OBVIOUS

\* What the peer sends comes last: nothing that has been taken changes.
LEMMA SendReply ==
    ASSUME TypeOK, ReplyInv, NEW p \in Peers, Send(p)
    PROVE  ReplyInv'
  <1>1. PICK c \in Commands : /\ inbox' = [inbox EXCEPT ![p] = Append(@, c)]
                             /\ asked' = [asked EXCEPT ![p] = Append(@, c)]
    BY DEF Send
  <1>2. UNCHANGED <<peer, conn, at, command, subscribed, sent>>
    BY DEF Send
  <1> HIDE DEF Commands
  <1>3. \A q \in Peers : /\ inbox[q] \in Seq(Commands) /\ Len(inbox[q]) \in Nat
                         /\ asked[q] \in Seq(Commands) /\ Len(asked[q]) \in Nat
                         /\ Len(sent[q]) \in Nat
    <2>1. inbox \in [Peers -> Seq(Commands)] /\ asked \in [Peers -> Seq(Commands)]
      BY DEF TypeOK
    <2>2. sent \in [Peers -> Seq(Lines)]
      BY DEF TypeOK
    <2> HIDE DEF Lines
    <2> QED BY <2>1, <2>2
  <1>4. \A q \in Peers \ {p} : inbox'[q] = inbox[q] /\ asked'[q] = asked[q]
    BY <1>1 DEF TypeOK
  <1>5. /\ Len(inbox'[p]) = Len(inbox[p]) + 1 /\ Len(asked'[p]) = Len(asked[p]) + 1
        /\ \A i \in 1..Len(inbox[p]) : inbox'[p][i] = inbox[p][i]
        /\ inbox'[p][Len(inbox[p]) + 1] = c
        /\ asked'[p][Len(asked[p]) + 1] = c
    <2>1. inbox'[p] = Append(inbox[p], c) /\ asked'[p] = Append(asked[p], c)
      BY <1>1 DEF TypeOK
    <2> QED BY <1>3, <2>1, Appended
  <1>6. \A q \in Peers : \A i \in 1..Len(asked[q]) : asked'[q][i] = asked[q][i]
    <2>1. asked'[p] = Append(asked[p], c)
      BY <1>1 DEF TypeOK
    <2> QED BY <1>3, <1>4, <2>1, Appended
  <1>7. \A q \in Peers : /\ Taken(q)' = Taken(q) /\ Answered(q)' = Answered(q)
                         /\ Len(inbox[q]) <= Len(asked[q])
                         /\ Taken(q) \in 0..Len(asked[q]) /\ Answered(q) <= Len(asked[q])
    <2> SUFFICES ASSUME NEW q \in Peers
                 PROVE  /\ Taken(q)' = Taken(q)
                        /\ Len(inbox[q]) <= Len(asked[q]) /\ Taken(q) \in 0..Len(asked[q])
      BY <1>2, <1>3 DEF Answered
    <2>1. Len(inbox[q]) <= Len(asked[q])
      BY DEF ReplyInv, InboxInv
    <2>2. CASE q = p
      <3> DEFINE a == Len(asked[p])
                 b == Len(inbox[p])
      <3>1. a \in Nat /\ b \in Nat /\ b <= a
        BY <1>3, <2>1, <2>2
      <3>2. Taken(p) = a - b /\ Taken(p)' = (a + 1) - (b + 1)
        BY <1>5 DEF Taken
      <3> HIDE DEF a, b
      <3>3. (a + 1) - (b + 1) = a - b /\ a - b \in 0..a
        BY <3>1, Lengths
      <3>4. Taken(p)' = Taken(p) /\ Taken(p) \in 0..a
        BY <3>2, <3>3
      <3> QED BY <2>1, <2>2, <3>4 DEF a
    <2>3. CASE q # p
      BY <1>3, <1>4, <2>1, <2>3, Lengths DEF Taken
    <2> QED BY <2>1, <2>2, <2>3
  <1>8. InboxInv'
    <2>1. ASSUME NEW q \in Peers
          PROVE  Len(inbox'[q]) <= Len(asked'[q])
      <3>1. Len(inbox[q]) \in Nat /\ Len(asked[q]) \in Nat /\ Len(inbox[q]) <= Len(asked[q])
        BY <1>3, <1>7
      <3>2. CASE q = p
        BY <1>5, <3>1, <3>2
      <3>3. CASE q # p
        BY <1>4, <3>1, <3>3
      <3> QED BY <3>2, <3>3
    <2>2. ASSUME NEW q \in Peers, NEW i \in 1..Len(inbox'[q])
          PROVE  inbox'[q][i] = asked'[q][Taken(q) + i]
      <3>1. CASE i \in 1..Len(inbox[q])
        <4>1. inbox[q][i] = asked[q][Taken(q) + i]
          BY <3>1 DEF ReplyInv, InboxInv
        <4>2. Taken(q) + i \in 1..Len(asked[q])
          BY <1>3, <1>7, <3>1, Lengths DEF Taken
        <4> QED BY <1>4, <1>5, <1>6, <3>1, <4>1, <4>2
      <3>2. CASE i \notin 1..Len(inbox[q])
        <4>1. q = p /\ i = Len(inbox[p]) + 1
          BY <1>3, <1>4, <1>5, <2>2, <3>2
        <4>2. Taken(p) + i = Len(asked[p]) + 1
          BY <1>3, <1>7, <4>1, Lengths DEF Taken
        <4> QED BY <1>5, <4>1, <4>2
      <3> QED BY <3>1, <3>2
    <2>3. ASSUME NEW q \in Peers, at[q] # "scan"
          PROVE  Taken(q) >= 1 /\ command[q] = asked'[q][Taken(q)]
      <3>1. Taken(q) >= 1 /\ command[q] = asked[q][Taken(q)]
        BY <2>3 DEF ReplyInv, InboxInv
      <3> QED BY <1>6, <1>7, <3>1
    <2> QED BY <1>2, <1>7, <2>1, <2>2, <2>3 DEF InboxInv
  <1>9. AnswerInv'
    <2>1. \A q \in Peers : Answers(q, Len(sent[q]))' = Answers(q, Len(sent[q]))
      BY <1>2 DEF Answers
    <2>2. ASSUME NEW q \in Peers, NEW j \in 1..Answered(q)
          PROVE  asked'[q][j] = asked[q][j]
      <3>1. j \in 1..Len(asked[q])
        BY <1>3, <1>7 DEF Answered
      <3> QED BY <1>6, <3>1
    <2> QED BY <1>2, <1>7, <2>1, <2>2 DEF ReplyInv, AnswerInv, Broken
  <1>10. RepliesInOrder'
    <2> SUFFICES ASSUME NEW q \in Peers, NEW i \in Answers(q, Len(sent[q]))'
                 PROVE  /\ Cardinality(Answers(q, i))' <= Len(asked'[q])
                        /\ Right(q, Cardinality(Answers(q, i)), sent[q][i].reply)'
      BY DEF RepliesInOrder, Right
    <2> DEFINE k == Cardinality(Answers(q, i))
    <2>1. i \in Answers(q, Len(sent[q])) /\ i \in 1..Len(sent[q]) /\ Answers(q, i)' = Answers(q, i)
      BY <1>2 DEF Answers
    <2>2. k <= Len(asked[q]) /\ Right(q, k, sent[q][i].reply)
      BY <2>1 DEF ReplyInv, RepliesInOrder, Right
    <2>3. k \in Nat /\ k >= 1
      <3>1. i \in Nat /\ i \in Answers(q, i)
        BY <1>3, <2>1 DEF Answers
      <3> QED BY <3>1, AnswersCounted
    <2> HIDE DEF k
    <2>4. k <= Len(asked'[q]) /\ \A j \in 1..k : asked'[q][j] = asked[q][j]
      <3>1. Len(asked[q]) \in Nat /\ Len(asked'[q]) \in {Len(asked[q]), Len(asked[q]) + 1}
        BY <1>3, <1>4, <1>5
      <3>2. \A j \in 1..k : j \in 1..Len(asked[q])
        BY <2>2, <2>3, <3>1
      <3> QED BY <1>6, <2>2, <2>3, <3>1, <3>2
    <2>5. sent'[q][i].reply = IF asked'[q][k].cmd = "huge" THEN "too_long"
              ELSE IF \E j \in 1..(k - 1) : asked'[q][j].cmd = "subscribe" THEN "rejected"
              ELSE "ok"
      BY <1>2, <2>2, <2>3, <2>4 DEF Right
    <2>6. Cardinality(Answers(q, i))' = k
      BY <2>1 DEF k
    <2> QED BY <1>2, <2>4, <2>5, <2>6 DEF Right
  <1> QED BY <1>8, <1>9, <1>10 DEF ReplyInv

\* A command is taken, and not answered yet.
LEMMA ScanReply ==
    ASSUME TypeOK, ReplyInv, NEW p \in Peers, Scan(p)
    PROVE  ReplyInv'
  <1> HIDE DEF Commands
  <1>1. /\ UNCHANGED <<peer, conn, subscribed, sent, asked>>
        /\ at[p] = "scan" /\ at'[p] # "scan" /\ inbox[p] # <<>>
        /\ inbox'[p] = Tail(inbox[p]) /\ command'[p] = Head(inbox[p])
        /\ \A q \in Peers \ {p} : inbox'[q] = inbox[q] /\ command'[q] = command[q] /\ at'[q] = at[q]
    BY DEF Scan, TypeOK
  <1> DEFINE a == Len(asked[p])
             b == Len(inbox[p])
  <1>2. /\ a \in Nat /\ b \in Nat /\ b >= 1 /\ Len(inbox'[p]) = b - 1
        /\ Head(inbox[p]) = inbox[p][1] /\ \A i \in 1..(b - 1) : inbox'[p][i] = inbox[p][i + 1]
    <2>1. inbox[p] \in Seq(Commands) /\ asked[p] \in Seq(Commands)
      BY DEF TypeOK
    <2> QED BY <1>1, <2>1
  <1>3. b <= a /\ Taken(p) = a - b /\ \A i \in 1..b : inbox[p][i] = asked[p][(a - b) + i]
    BY DEF ReplyInv, InboxInv, Taken
  <1>4. Taken(p)' = a - (b - 1)
    BY <1>1, <1>2 DEF Taken
  <1> HIDE DEF a, b
  <1>5. /\ a - (b - 1) = (a - b) + 1 /\ b - 1 <= a /\ (a - b) + 1 >= 1
        /\ (a - (b - 1)) - 1 = a - b
        /\ \A i \in 1..(b - 1) : i + 1 \in 1..b /\ (a - (b - 1)) + i = (a - b) + (i + 1)
    BY <1>2, <1>3
  <1>6. \A q \in Peers \ {p} : Taken(q)' = Taken(q) /\ Answered(q)' = Answered(q)
    BY <1>1 DEF Taken, Answered
  <1>7. Answered(p)' = Answered(p)
    BY <1>1, <1>3, <1>4, <1>5 DEF Answered
  <1>8. InboxInv'
    <2>1. /\ Len(inbox'[p]) <= Len(asked'[p])
          /\ \A i \in 1..Len(inbox'[p]) : inbox'[p][i] = asked'[p][Taken(p)' + i]
          /\ at'[p] # "scan" => Taken(p)' >= 1 /\ command'[p] = asked'[p][Taken(p)']
      <3>1. command'[p] = asked[p][Taken(p)']
        BY <1>1, <1>2, <1>3, <1>4, <1>5
      <3>2. \A i \in 1..(b - 1) : inbox'[p][i] = asked[p][Taken(p)' + i]
        BY <1>2, <1>3, <1>4, <1>5
      <3> QED BY <1>1, <1>2, <1>4, <1>5, <3>1, <3>2 DEF a
    <2>2. ASSUME NEW q \in Peers \ {p}
          PROVE  /\ Len(inbox'[q]) <= Len(asked'[q])
                 /\ \A i \in 1..Len(inbox'[q]) : inbox'[q][i] = asked'[q][Taken(q)' + i]
                 /\ at'[q] # "scan" => Taken(q)' >= 1 /\ command'[q] = asked'[q][Taken(q)']
      BY <1>1, <1>6 DEF ReplyInv, InboxInv
    <2> QED BY <2>1, <2>2 DEF InboxInv
  <1>9. AnswerInv'
    <2>1. \A q \in Peers : Answered(q)' = Answered(q)
      BY <1>6, <1>7
    <2>2. \A q \in Peers : /\ Answers(q, Len(sent[q]))' = Answers(q, Len(sent[q]))
                            /\ Broken(q)' = Broken(q)
      BY <1>1 DEF Answers, Broken
    <2> QED BY <1>1, <2>1, <2>2 DEF ReplyInv, AnswerInv
  <1>10. RepliesInOrder'
    BY <1>1, SameReplies DEF ReplyInv
  <1> QED BY <1>8, <1>9, <1>10 DEF ReplyInv

\* A reply that cannot be written leaves a connection that stays broken.
LEMMA ReplyFails ==
    ASSUME TypeOK, ReplyInv, NEW p \in Peers, Reply(p), UNCHANGED <<sent, subscribed>>, Broken(p)
    PROVE  ReplyInv'
  <1>1. /\ UNCHANGED <<peer, inbox, asked, sent, subscribed>>
        /\ at'[p] = "scan" /\ Broken(p)'
        /\ \A q \in Peers \ {p} : /\ at'[q] = at[q] /\ command'[q] = command[q]
                                  /\ conn'[q] = conn[q]
    BY DEF Reply, HandlerReturns, Broken, TypeOK
  <1>2. \A q \in Peers : Taken(q)' = Taken(q)
    BY <1>1 DEF Taken
  <1>3. InboxInv'
    BY <1>1, <1>2 DEF ReplyInv, InboxInv
  <1>4. AnswerInv'
    <2>1. ASSUME NEW q \in Peers, ~Broken(q)'
          PROVE  ~Broken(q) /\ Answered(q)' = Answered(q)
      <3>1. q # p
        BY <1>1, <2>1
      <3> QED BY <1>1, <1>2, <2>1, <3>1 DEF Answered, Broken
    <2>2. \A q \in Peers : Answers(q, Len(sent[q]))' = Answers(q, Len(sent[q]))
      BY <1>1 DEF Answers
    <2>3. ASSUME NEW q \in Peers, ~Broken(q)'
          PROVE  /\ Cardinality(Answers(q, Len(sent[q])))' = Answered(q)'
                 /\ subscribed'[q] <=> \E j \in 1..Answered(q)' : asked[q][j].cmd = "subscribe"
      <3>1. /\ Cardinality(Answers(q, Len(sent[q]))) = Answered(q)
            /\ subscribed[q] <=> \E j \in 1..Answered(q) : asked[q][j].cmd = "subscribe"
        BY <2>1, <2>3 DEF ReplyInv, AnswerInv
      <3> QED BY <1>1, <2>1, <2>2, <2>3, <3>1
    <2> QED BY <1>1, <2>3 DEF AnswerInv
  <1>5. RepliesInOrder'
    BY <1>1, SameReplies DEF ReplyInv
  <1> QED BY <1>3, <1>4, <1>5 DEF ReplyInv

\* The reply that is written answers the command the handler is at, and is the
\* next after those to all earlier ones.
LEMMA ReplyWritten ==
    ASSUME TypeOK, ReplyInv, NEW p \in Peers, Reply(p),
           Write(p, [reply |-> Answer(p), event |-> 0])
    PROVE  ReplyInv'
  <1> DEFINE line == [reply |-> Answer(p), event |-> 0]
             k == Taken(p)
  <1>0. PICK n \in Nat : n = Len(sent[p])
    BY DEF TypeOK
  <1>1. /\ ~Broken(p) /\ Len(sent[p]) = n /\ Len(sent'[p]) = n + 1
        /\ \A i \in 1..n : sent'[p][i] = sent[p][i]
        /\ sent'[p][n + 1] = line
        /\ \A q \in Peers \ {p} : sent'[q] = sent[q]
    <2>1. line \in Lines
      BY ReplyIsLine DEF Answer, Replies
    <2>2. UNCHANGED read
      BY DEF Reply
    <2> HIDE DEF line
    <2>3. Write(p, line)
      BY DEF line
    <2> QED BY <1>0, <2>1, <2>2, <2>3, Written
  <1>2. /\ UNCHANGED <<peer, inbox, asked>>
        /\ at[p] = "reply" /\ at'[p] = "scan"
        /\ subscribed' = [subscribed EXCEPT ![p] = @ \/ command[p].cmd = "subscribe"]
        /\ \A q \in Peers \ {p} : /\ at'[q] = at[q] /\ command'[q] = command[q]
                                  /\ conn'[q] = conn[q]
    <2>1. /\ at' = [at EXCEPT ![p] = "scan"] /\ command' = [command EXCEPT ![p] = NoCommand]
          /\ at[p] = "reply" /\ UNCHANGED <<peer, inbox, asked>>
          /\ conn' = conn \/ conn' = [conn EXCEPT ![p] = "closed"]
      BY DEF Reply, HandlerReturns
    <2>2. subscribed' = [subscribed EXCEPT ![p] = @ \/ command[p].cmd = "subscribe"]
      BY <1>1 DEF Reply
    <2> QED BY <2>1, <2>2 DEF TypeOK
  <1>3. k \in Nat /\ k >= 1 /\ k <= Len(asked[p]) /\ command[p] = asked[p][k] /\ Answered(p) = k - 1
    <2>1. Len(asked[p]) \in Nat /\ Len(inbox[p]) \in Nat /\ Len(inbox[p]) <= Len(asked[p])
      BY DEF TypeOK, ReplyInv, InboxInv
    <2>2. k \in 0..Len(asked[p])
      BY <2>1, Lengths DEF Taken
    <2>3. k >= 1 /\ command[p] = asked[p][k]
      BY <1>2 DEF ReplyInv, InboxInv
    <2>4. Answered(p) = k - 1
      BY <1>2 DEF Answered
    <2> QED BY <2>1, <2>2, <2>3, <2>4
  <1>4. /\ Cardinality(Answers(p, n)) = k - 1
        /\ subscribed[p] <=> \E j \in 1..(k - 1) : asked[p][j].cmd = "subscribe"
    BY <1>1, <1>3 DEF ReplyInv, AnswerInv
  <1>5. \A q \in Peers : Taken(q)' = Taken(q)
    BY <1>2 DEF Taken
  <1>6. line.event = 0 /\ line.reply = Answer(p)
    OBVIOUS
  <1> HIDE DEF line, k
  <1>7. Right(p, k, line.reply)
    BY <1>3, <1>4, <1>6 DEF Right, Answer
  <1>8. Answers(p, n + 1)' = Answers(p, n) \union {n + 1}
    BY <1>1, <1>6 DEF Answers
  <1>9. Cardinality(Answers(p, n + 1))' = k
    <2>1. IsFiniteSet(Answers(p, n)) /\ n + 1 \notin Answers(p, n)
      BY <1>1, AnswersCounted DEF Answers
    <2>2. Cardinality(Answers(p, n) \union {n + 1}) = (k - 1) + 1
      BY <1>4, <2>1, FS_AddElement
    <2>3. (k - 1) + 1 = k
      BY <1>3
    <2> QED BY <1>8, <2>2, <2>3
  <1>10. InboxInv'
    BY <1>2, <1>5 DEF ReplyInv, InboxInv
  <1>11. AnswerInv'
    <2>1. ASSUME ~Broken(p)'
          PROVE  /\ Cardinality(Answers(p, Len(sent[p])))' = Answered(p)'
                 /\ subscribed'[p] <=> \E j \in 1..Answered(p)' : asked[p][j].cmd = "subscribe"
      <3>1. Answered(p)' = k
        BY <1>2, <1>5 DEF Answered, k
      <3>2. subscribed'[p] <=> (\E j \in 1..(k - 1) : asked[p][j].cmd = "subscribe") \/ asked[p][k].cmd = "subscribe"
        BY <1>2, <1>3, <1>4 DEF TypeOK
      <3>3. \A j : j \in 1..k <=> j \in 1..(k - 1) \/ j = k
        BY <1>3
      <3>4. Cardinality(Answers(p, Len(sent[p])))' = k
        BY <1>1, <1>9
      <3> QED BY <3>1, <3>2, <3>3, <3>4
    <2>2. ASSUME NEW q \in Peers \ {p}, ~Broken(q)'
          PROVE  /\ Cardinality(Answers(q, Len(sent[q])))' = Answered(q)'
                 /\ subscribed'[q] <=> \E j \in 1..Answered(q)' : asked[q][j].cmd = "subscribe"
      <3>1. /\ Answers(q, Len(sent[q]))' = Answers(q, Len(sent[q]))
            /\ Answered(q)' = Answered(q) /\ subscribed'[q] = subscribed[q] /\ ~Broken(q)
        <4>1. Answers(q, Len(sent[q]))' = Answers(q, Len(sent[q]))
          BY <1>1 DEF Answers
        <4>2. Answered(q)' = Answered(q) /\ ~Broken(q)
          BY <1>2, <1>5, <2>2 DEF Answered, Broken
        <4>3. subscribed'[q] = subscribed[q]
          BY <1>2 DEF TypeOK
        <4> QED BY <4>1, <4>2, <4>3
      <3> QED BY <3>1 DEF ReplyInv, AnswerInv
    <2> QED BY <1>2, <2>1, <2>2 DEF AnswerInv
  <1>12. RepliesInOrder'
    <2>1. ASSUME NEW q \in Peers, NEW i \in 1..Len(sent[q]), sent[q][i].event = 0,
                 sent'[q][i] = sent[q][i], Answers(q, i)' = Answers(q, i), Len(sent[q]) \in Nat
          PROVE  Cardinality(Answers(q, i))' <= Len(asked[q])
                 /\ Right(q, Cardinality(Answers(q, i))', sent'[q][i].reply)
      <3>1. i \in Answers(q, Len(sent[q]))
        BY <2>1 DEF Answers
      <3> QED BY <2>1, <3>1 DEF ReplyInv, RepliesInOrder, Right
    <2> SUFFICES ASSUME NEW q \in Peers, NEW i \in Answers(q, Len(sent[q]))'
                 PROVE  Cardinality(Answers(q, i))' <= Len(asked[q])
                        /\ Right(q, Cardinality(Answers(q, i))', sent'[q][i].reply)
      BY <1>2 DEF RepliesInOrder, Right
    <2>2. i \in 1..Len(sent'[q]) /\ sent'[q][i].event = 0 /\ Len(sent[q]) \in Nat
      <3>1. q = p \/ sent'[q] = sent[q]
        BY <1>1
      <3>2. i \in 1..Len(sent[q]) \/ i = n + 1
        BY <1>1, <3>1 DEF Answers
      <3>3. Len(sent[q]) \in Nat
        BY DEF TypeOK
      <3> QED BY <1>1, <3>1, <3>2, <3>3 DEF Answers
    <2>3. CASE q = p /\ i = n + 1
      BY <1>1, <1>3, <1>7, <1>9, <2>3
    <2>4. CASE q = p /\ i # n + 1
      <3>1. i \in 1..n
        BY <1>1, <2>2, <2>4
      <3>2. Answers(q, i)' = Answers(q, i)
        BY <1>1, <2>4, <3>1 DEF Answers
      <3> QED BY <1>1, <2>1, <2>2, <2>4, <3>1, <3>2
    <2>5. CASE q # p
      <3>1. Answers(q, i)' = Answers(q, i) /\ sent'[q] = sent[q]
        BY <1>1, <2>5 DEF Answers
      <3> QED BY <2>1, <2>2, <3>1
    <2> QED BY <2>3, <2>4, <2>5
  <1> QED BY <1>10, <1>11, <1>12 DEF ReplyInv

-----------------------------------------------------------------------------
(* Every step keeps the invariant.                                         *)

\* Peers that come, go, read and write, and Serve, leave the bus alone.
LEMMA EdgesKeep ==
    ASSUME IInv, NEW p \in Peers, ReadLine(p) \/ Leave(p) \/ Accept(p) \/ ScanEnds(p)
    PROVE  IInv'
  <1>1. /\ UNCHANGED <<inbox, at, command, subscribed, sent, asked, busVars, publish, events>>
        /\ \A q \in Peers : /\ conn[q] = "closed" => conn'[q] = "closed"
                            /\ peer[q] = "gone" => peer'[q] = "gone"
    BY DEF ReadLine, Leave, Accept, ScanEnds, HandlerReturns, IInv, TypeOK
  <1>2. TypeOK /\ TypeOK' /\ BusInv /\ ReplyInv
    BY EdgesType DEF IInv
  <1>3. JoinStep /\ NoNewEvents /\ NoNewReplies
    <2>1. \A q \in Peers : Len(sent[q]) \in Nat
      BY <1>2 DEF TypeOK
    <2> QED BY <1>1, <1>2, <2>1 DEF JoinStep, Joined, Joining, NoNewEvents, NoNewReplies, BusInv, JoinInv
  <1>4. BusInv'
    BY <1>1, <1>2, <1>3, QuietBus
  <1>5. ReplyInv'
    BY <1>1, <1>2, <1>3, QuietReply DEF Broken
  <1> QED BY <1>2, <1>4, <1>5 DEF IInv

LEMMA ServeKeeps ==
    ASSUME IInv, CloseListener \/ ServeReturns \/ UNCHANGED vars
    PROVE  IInv'
  <1>1. /\ UNCHANGED <<peer, inbox, at, command, subscribed, sent, asked, busVars, publish, events>>
        /\ \A q \in Peers : conn[q] = "closed" => conn'[q] = "closed"
    BY DEF CloseListener, ServeReturns, vars, connVars, IInv, TypeOK
  <1>2. TypeOK /\ TypeOK' /\ BusInv /\ ReplyInv
    <2>1. CASE UNCHANGED vars
      BY <2>1 DEF IInv, vars, connVars, busVars, TypeOK
    <2> QED BY <2>1, ServeType DEF IInv
  <1>3. JoinStep /\ NoNewEvents /\ NoNewReplies
    <2>1. \A q \in Peers : Len(sent[q]) \in Nat
      BY <1>2 DEF TypeOK
    <2> QED BY <1>1, <1>2, <2>1 DEF JoinStep, Joined, Joining, NoNewEvents, NoNewReplies, BusInv, JoinInv
  <1>4. BusInv'
    BY <1>1, <1>2, <1>3, QuietBus
  <1>5. ReplyInv'
    BY <1>1, <1>2, <1>3, QuietReply DEF Broken
  <1> QED BY <1>2, <1>4, <1>5 DEF IInv

\* The handler takes a command, or the peer sends one.
LEMMA CommandKeeps ==
    ASSUME IInv, NEW p \in Peers, Send(p) \/ Scan(p)
    PROVE  IInv'
  <1>1. UNCHANGED <<conn, subscribed, sent, busVars, publish, events>>
    BY DEF Send, Scan
  <1>2. TypeOK /\ TypeOK' /\ BusInv /\ ReplyInv
    BY EdgesType, HandlerType DEF IInv
  <1>3. JoinStep
    <2>1. CASE Send(p)
      BY <1>2, <2>1 DEF Send, JoinStep, Joined, Joining, BusInv, JoinInv
    <2>2. CASE Scan(p)
      <3>1. /\ at[p] = "scan" /\ conn[p] = "open"
            /\ at'[p] = "reply" => command'[p].cmd = "huge" \/ subscribed[p]
            /\ at'[p] = "dispatch" => command'[p].cmd # "huge" /\ ~subscribed[p]
            /\ at'[p] \in {"reply", "dispatch"}
            /\ \A q \in Peers \ {p} : at'[q] = at[q] /\ command'[q] = command[q]
        BY <1>2, <2>2 DEF Scan, TypeOK
      <3>2. ASSUME NEW q \in Peers
            PROVE  /\ Joined(q) => Joined(q)'
                   /\ (subscribed[q] \/ Joining(q))' => subscribed[q] \/ Joining(q)
                   /\ at'[q] = "dispatch" => ~subscribed'[q] /\ command'[q].cmd # "huge"
        <4>1. CASE q = p
          BY <1>1, <3>1, <4>1 DEF Joined, Joining
        <4>2. CASE q # p
          BY <1>1, <1>2, <3>1, <4>2 DEF Joined, Joining, BusInv, JoinInv
        <4> QED BY <4>1, <4>2
      <3> QED BY <3>2 DEF JoinStep
    <2> QED BY <2>1, <2>2
  <1>4. NoNewEvents
    BY <1>1 DEF NoNewEvents
  <1>5. BusInv'
    BY <1>1, <1>2, <1>3, <1>4, QuietBus
  <1>6. ReplyInv'
    BY <1>2, SendReply, ScanReply
  <1> QED BY <1>2, <1>5, <1>6 DEF IInv

\* A dispatched command publishes, or subscribes.
LEMMA DispatchKeeps ==
    ASSUME IInv, NEW p \in Peers, DispatchCall(p) \/ DispatchSubscribe(p)
    PROVE  IInv'
  <1>1. /\ UNCHANGED <<peer, conn, inbox, command, subscribed, sent, asked>>
        /\ at[p] = "dispatch" /\ at'[p] = "reply"
        /\ \A q \in Peers \ {p} : at'[q] = at[q]
    BY DEF DispatchCall, DispatchSubscribe, IInv, TypeOK
  <1>2. TypeOK /\ TypeOK' /\ BusInv /\ ReplyInv
    BY HandlerType DEF IInv
  <1>3. NoNewEvents /\ NoNewReplies
    <2>1. \A q \in Peers : Len(sent[q]) \in Nat
      BY <1>2 DEF TypeOK
    <2> QED BY <1>1, <2>1 DEF NoNewEvents, NoNewReplies
  <1>4. ReplyInv'
    BY <1>1, <1>2, <1>3, QuietReply DEF Broken
  <1>5. BusInv'
    <2>1. CASE DispatchSubscribe(p)
      BY <1>2, <2>1, SubscribeBus
    <2>2. CASE DispatchCall(p)
      <3>1. JoinStep
        <4>1. command[p].cmd = "call"
          BY <2>2 DEF DispatchCall
        <4>2. ASSUME NEW q \in Peers
              PROVE  /\ Joined(q) => Joined(q)'
                     /\ (subscribed[q] \/ Joining(q))' => subscribed[q] \/ Joining(q)
                     /\ at'[q] = "dispatch" => ~subscribed'[q] /\ command'[q].cmd # "huge"
          BY <1>1, <1>2, <4>1 DEF Joined, Joining, BusInv, JoinInv
        <4> QED BY <4>2 DEF JoinStep
      <3>2. UNCHANGED busVars /\ (PublishBegins(p, "session_state") \/ UNCHANGED <<publish, events>>)
        BY <2>2 DEF DispatchCall
      <3>3. p \in Goroutines /\ "session_state" \in Names
        BY ControlAssumption DEF Goroutines
      <3>4. CASE PublishBegins(p, "session_state")
        BY <1>1, <1>2, <3>1, <3>2, <3>3, <3>4, BeginsBus
      <3>5. CASE UNCHANGED <<publish, events>>
        BY <1>2, <1>3, <3>1, <3>2, <3>5, QuietBus
      <3> QED BY <3>2, <3>4, <3>5
    <2> QED BY <2>1, <2>2
  <1> QED BY <1>2, <1>4, <1>5 DEF IInv

LEMMA ReplyKeeps ==
    ASSUME IInv, NEW p \in Peers, Reply(p)
    PROVE  IInv'
  <1>1. /\ UNCHANGED <<busVars, publish, events, read>>
        /\ conn[p] = "open" /\ at[p] = "reply" /\ at'[p] = "scan"
        /\ \A q \in Peers \ {p} : /\ at'[q] = at[q] /\ command'[q] = command[q]
                                  /\ conn'[q] = conn[q] /\ subscribed'[q] = subscribed[q]
    BY DEF Reply, HandlerReturns, IInv, TypeOK
  <1>2. TypeOK /\ TypeOK' /\ BusInv /\ ReplyInv
    BY HandlerType DEF IInv
  <1>3. \/ /\ Write(p, [reply |-> Answer(p), event |-> 0])
           /\ subscribed'[p] = (subscribed[p] \/ command[p].cmd = "subscribe")
        \/ /\ UNCHANGED <<sent, subscribed>> /\ Broken(p)
           /\ conn'[p] = "closed" \/ Answer(p) = "rejected"
    BY <1>2 DEF Reply, HandlerReturns, TypeOK
  <1>4. ReplyInv'
    BY <1>2, <1>3, ReplyFails, ReplyWritten
  <1>5. NoNewEvents
    <2> DEFINE line == [reply |-> Answer(p), event |-> 0]
    <2>1. CASE sent' = sent
      BY <2>1 DEF NoNewEvents
    <2>2. CASE Write(p, line)
      <3>1. line \in Lines /\ line.event = 0
        BY ReplyIsLine DEF Answer, Replies
      <3> HIDE DEF line
      <3>2. /\ Len(sent[p]) \in Nat
            /\ DOMAIN sent[p] = 1..Len(sent[p]) /\ DOMAIN sent'[p] = 1..(Len(sent[p]) + 1)
            /\ \A i \in 1..Len(sent[p]) : sent'[p][i] = sent[p][i]
            /\ sent'[p][Len(sent[p]) + 1] = line
            /\ \A q \in Peers \ {p} : sent'[q] = sent[q]
        BY <1>1, <1>2, <2>2, <3>1, Written
      <3>3. ASSUME NEW q \in Peers
            PROVE  /\ \A i \in DOMAIN sent[q] : i \in DOMAIN sent'[q] /\ sent'[q][i] = sent[q][i]
                   /\ \A i \in DOMAIN sent'[q] \ DOMAIN sent[q] : sent'[q][i].event = 0
        <4>1. CASE q = p
          BY <3>1, <3>2, <4>1
        <4>2. CASE q # p
          BY <3>2, <4>2
        <4> QED BY <4>1, <4>2
      <3> QED BY <3>3 DEF NoNewEvents
    <2> QED BY <1>3, <2>1, <2>2
  <1>6. JoinStep
    <2>1. ASSUME NEW q \in Peers
          PROVE  /\ Joined(q) => Joined(q)'
                 /\ (subscribed[q] \/ Joining(q))' => subscribed[q] \/ Joining(q)
                 /\ at'[q] = "dispatch" => ~subscribed'[q] /\ command'[q].cmd # "huge"
      <3>1. CASE q # p
        BY <1>1, <1>2, <3>1 DEF Joined, Joining, BusInv, JoinInv
      <3>2. CASE q = p
        <4>1. Answer(p) = "rejected" => subscribed[p]
          BY DEF Answer
        <4>2. CASE subscribed'[p] = (subscribed[p] \/ command[p].cmd = "subscribe")
          BY <1>1, <1>2, <3>2, <4>2 DEF Joined, Joining, TypeOK
        <4>3. CASE subscribed' = subscribed /\ (conn'[p] = "closed" \/ Answer(p) = "rejected")
          BY <1>1, <1>2, <3>2, <4>1, <4>3 DEF Joined, Joining, TypeOK
        <4> QED BY <1>3, <4>2, <4>3
      <3> QED BY <3>1, <3>2
    <2> QED BY <2>1 DEF JoinStep
  <1>7. BusInv'
    BY <1>1, <1>2, <1>5, <1>6, QuietBus
  <1> QED BY <1>2, <1>4, <1>7 DEF IInv

LEMMA BusKeeps ==
    ASSUME IInv, NEW g \in Goroutines, Push(g) \/ PublishReturns(g) \/ Publish(g)
    PROVE  IInv'
  <1>1. UNCHANGED <<peer, conn, inbox, at, command, subscribed, asked>>
    BY DEF Push, PublishReturns, Publish, connVars
  <1>2. TypeOK /\ TypeOK' /\ BusInv /\ ReplyInv
    BY BusType DEF IInv, BusInv
  <1>3. CASE Push(g)
    BY <1>2, <1>3, PushBus, PushReply DEF IInv
  <1>4. CASE PublishReturns(g) \/ Publish(g)
    <2>1. sent' = sent
      BY <1>4 DEF PublishReturns, Publish, connVars
    <2>2. NoNewReplies
      <3>1. \A q \in Peers : Len(sent[q]) \in Nat
        BY <1>2 DEF TypeOK
      <3> QED BY <2>1, <3>1 DEF NoNewReplies
    <2>3. ReplyInv'
      BY <1>1, <1>2, <2>2, QuietReply DEF Broken
    <2>4. BusInv'
      <3>1. CASE PublishReturns(g)
        BY <1>2, <3>1, ReturnsBus
      <3>2. CASE Publish(g)
        <4>1. JoinStep
          BY <1>1, <1>2 DEF JoinStep, Joined, Joining, BusInv, JoinInv
        <4>2. PICK name \in Names : PublishBegins(g, name)
          BY <3>2 DEF Publish
        <4>3. UNCHANGED <<busVars, sent>>
          BY <2>1, <3>2 DEF Publish
        <4> QED BY <1>2, <4>1, <4>2, <4>3, BeginsBus
      <3> QED BY <1>4, <3>1, <3>2
    <2> QED BY <1>2, <2>3, <2>4 DEF IInv
  <1> QED BY <1>3, <1>4

LEMMA NextIInv == IInv /\ [Next]_vars => IInv'
  <1> SUFFICES ASSUME IInv, [Next]_vars PROVE IInv'
    OBVIOUS
  <1>1. ASSUME NEW p \in Peers, Send(p) \/ ReadLine(p) \/ Leave(p) \/ Accept(p) \/ Handle(p)
        PROVE  IInv'
    BY <1>1, EdgesKeep, CommandKeeps, DispatchKeeps, ReplyKeeps DEF Handle
  <1>2. ASSUME NEW g \in Goroutines, Publishing(g)
        PROVE  IInv'
    BY <1>2, BusKeeps DEF Publishing
  <1>3. ASSUME NEW g \in Publishers, Publish(g)
        PROVE  IInv'
    BY <1>3, BusKeeps DEF Goroutines
  <1>4. CASE CloseListener \/ ServeReturns \/ UNCHANGED vars
    BY <1>4, ServeKeeps
  <1> QED BY <1>1, <1>2, <1>3, <1>4 DEF Next

LEMMA AlwaysIInv == Spec => []IInv
  <1>1. Init => IInv
    BY InitType, InitBus, InitReply DEF IInv
  <1> QED BY <1>1, NextIInv, PTL DEF Spec

-----------------------------------------------------------------------------
(* The theorems.                                                           *)

\* Sockets hold no more than they have room for, and every line, filter and
\* command is one the protocol knows (proto.go:10, server.go:93).
THEOREM TypeCorrect == Spec => []TypeOK
  <1>1. IInv => TypeOK
    BY DEF IInv
  <1> QED BY <1>1, AlwaysIInv, PTL

\* Whoever publishes, dies, joins or is reaped at the same time, a live subscriber
\* gets each event it asked for exactly once, from its registration on, however
\* many Publishes run in parallel over copies of the list (events.go:69-108).
THEOREM NothingEverMissed == Spec => []NothingMissed
  <1>1. IInv => NothingMissed
    <2> SUFFICES ASSUME IInv, NEW p \in Peers, NEW e \in DOMAIN events
                 PROVE  /\ \A i, j \in Copies(p, e) : i = j
                        /\ Copies(p, e) # {} => e > joined[p] /\ events[e] \in wants[p]
                        /\ p \in subscribers \ dead /\ e > joined[p] /\ events[e] \in wants[p]
                              => Copies(p, e) # {} \/ UnderWay(e)
                        /\ joined[p] < e /\ subscribed[p] /\ p \notin subscribers => p \in dead
      BY DEF NothingMissed
    <2>1. e # 0
      BY DEF IInv, TypeOK
    <2>2. \A i, j \in Copies(p, e) : i = j
      BY <2>1 DEF IInv, BusInv, CopyInv, Copies
    <2>3. Copies(p, e) # {} => e > joined[p] /\ events[e] \in wants[p]
      BY <2>1 DEF IInv, BusInv, CopyInv, Copies
    <2>4. p \in subscribers \ dead /\ e > joined[p] /\ events[e] \in wants[p]
             => Copies(p, e) # {} \/ UnderWay(e)
      BY DEF IInv, BusInv, CopyInv, Pushing, UnderWay
    <2>5. subscribed[p] /\ p \notin subscribers => p \in dead
      BY DEF IInv, BusInv, JoinInv
    <2> QED BY <2>2, <2>3, <2>4, <2>5
  <1> QED BY <1>1, AlwaysIInv, PTL

\* An event published since a subscriber died has not been served to the end with
\* that subscriber still on the list (events.go:31), however many Publishes find
\* subscribers dead at the same time and whichever returns first.
THEOREM DeadAlwaysReaped == Spec => []DeadReaped
  <1>1. IInv => DeadReaped
    <2> SUFFICES ASSUME IInv, NEW p \in dead \intersect subscribers, NEW e \in DOMAIN events,
                        e > died[p]
                 PROVE  UnderWay(e)
      BY DEF DeadReaped
    <2>1. PICK g \in Goroutines : Pushing(g, e)
      BY DEF IInv, BusInv, ReapInv
    <2> QED BY <2>1 DEF Pushing, UnderWay
  <1> QED BY <1>1, AlwaysIInv, PTL

\* With no Publish under way none of the dead is on the list: the one that found
\* it dead removed it, as Publish's own comment says (events.go:66), and nobody's
\* copy of the list brought it back (events.go:93).
THEOREM DeadLeaveOnSameCall == Spec => []ReapedOnSameCall
  <1>1. IInv => ReapedOnSameCall
    BY DEF IInv, BusInv, ReapInv, ReapedOnSameCall
  <1> QED BY <1>1, AlwaysIInv, PTL

\* Replies come one per command, in order and as the mode of the connection asks
\* for, with any number of events written between them (server.go:110-137).
THEOREM RepliesAlwaysInOrder == Spec => []RepliesInOrder
  <1>1. IInv => RepliesInOrder
    BY DEF IInv, ReplyInv
  <1> QED BY <1>1, AlwaysIInv, PTL

=============================================================================
