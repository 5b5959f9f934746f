---------------------------- MODULE EventChannel ----------------------------
(***************************************************************************)
(* event_publisher, event_broker and event_subscriber: events published on *)
(* topics, and the subscriptions that travel the other way, over ZeroMQ.   *)
(*                                                                         *)
(* Each part has one thread, run(), that alone uses its sockets.  Other    *)
(* threads leave events and subscription changes in queues for it.  A      *)
(* subscription goes from the subscriber's socket through the broker's     *)
(* XPUB and XSUB sockets to the publisher's, which sends only what matches.*)
(*                                                                         *)
(* A prefix is the set of topics that begin with it.  ZeroMQ is external:  *)
(* it connects open sockets, passes on subscriptions, drops events when a  *)
(* pipe is full and, since linger is 0, when a socket closes.              *)
(***************************************************************************)
EXTENDS Integers, Sequences, SequencesExt

CONSTANTS
  Topics,
  TopicPrefixes,
  HighWater,   \* events a pipe holds
  MaxEvents,   \* bound on the events that are published
  MaxCalls,    \* bound on the calls of subscribe() and unsubscribe()
  MaxStarts    \* bound on the starts, of all parts together

ASSUME EventAssumption ==
  /\ TopicPrefixes \subseteq SUBSET Topics
  /\ HighWater \in Nat \ {0}
  /\ {MaxEvents, MaxCalls, MaxStarts} \subseteq Nat

Parts == {"publisher", "broker", "subscriber"}

VARIABLES
  running,        \* running_ of a part
  open,           \* parts whose run() has its sockets and has not ended
  fresh,          \* whether the subscriber's loop has yet to poll
  outgoing,       \* the publisher's outgoing_
  batch,          \* publish_pending's local `pending`
  subscriptions,  \* the subscriber's subscriptions_
  changes,        \* its subscription_changes_
  applying,       \* apply_subscription_changes' local `changes`
  known,          \* the subscriptions that a part's sockets hold
  told,           \* changes on their way to a part's socket
  ingress,        \* events on their way to the broker
  egress,         \* events on their way to the subscriber
  linked,         \* parts connected to the broker
  published,      \* history: events given to publish()
  got,            \* history: events the handler was called with
  expected,       \* history: events published when everything was set up
  excused,        \* history: events that may be lost
  forgotten,      \* history: subscriptions whose socket is gone
  calls, starts   \* history: for the bounds

control == <<running, open, starts>>
queues == <<outgoing, batch>>
wishes == <<subscriptions, changes, applying, fresh, forgotten, calls>>
network == <<known, told, ingress, egress, linked>>
history == <<published, got, expected, excused>>
vars == <<control, queues, wishes, network, history>>

Init ==
  /\ running = [p \in Parts |-> FALSE]
  /\ open = {} /\ fresh = FALSE
  /\ outgoing = <<>> /\ batch = <<>>
  /\ subscriptions = {} /\ changes = <<>> /\ applying = <<>>
  /\ known = [p \in Parts |-> {}]
  /\ told = [p \in Parts |-> <<>>]
  /\ ingress = <<>> /\ egress = <<>>
  /\ linked = {}
  /\ published = <<>> /\ got = <<>>
  /\ expected = {} /\ excused = {} /\ forgotten = {}
  /\ calls = 0 /\ starts = 0

Change(on, prefix) == [on |-> on, prefix |-> prefix]

(* What a set of subscriptions becomes by a change, and by several. *)
Applied(prefixes, change) ==
  IF change.on THEN prefixes \cup {change.prefix} ELSE prefixes \ {change.prefix}

AllApplied(prefixes, cs) == FoldLeft(Applied, prefixes, cs)

Changes(on, prefixes) == SetToSeq({Change(on, p) : p \in prefixes})

Matches(topic, prefixes) == \E p \in prefixes : topic \in p

Live == open = Parts /\ \A p \in Parts : running[p]

(* No subscription change is under way. *)
Settled ==
  /\ Live /\ linked = {"publisher", "subscriber"}
  /\ applying \o changes = <<>>
  /\ \A p \in Parts : told[p] = <<>>

Unheard == {published[n] : n \in 1..Len(published)} \ {got[n] : n \in 1..Len(got)}

-----------------------------------------------------------------------------
(* The parts' owners, and the threads that publish and subscribe *)

(* event_publisher::publish *)
Publish(topic) ==
  LET event == [topic |-> topic, n |-> Len(published) + 1]
  IN  /\ Len(published) < MaxEvents
      /\ outgoing' = Append(outgoing, event)
      /\ published' = Append(published, event)
      /\ expected' = IF Settled /\ Matches(topic, known["publisher"])
                     THEN expected \cup {event} ELSE expected
      /\ UNCHANGED <<control, batch, wishes, network, got, excused>>

(* event_subscriber::subscribe: a prefix that is subscribed changes nothing. *)
Subscribe(prefix) ==
  /\ calls < MaxCalls
  /\ calls' = calls + 1
  /\ subscriptions' = subscriptions \cup {prefix}
  /\ changes' = IF prefix \in subscriptions THEN changes
                ELSE Append(changes, Change(TRUE, prefix))
  /\ forgotten' = IF prefix \in subscriptions THEN forgotten ELSE forgotten \ {prefix}
  /\ UNCHANGED <<control, queues, applying, fresh, network, history>>

(* event_subscriber::unsubscribe.  What was published is no longer due.    *)
Unsubscribe(prefix) ==
  /\ calls < MaxCalls
  /\ calls' = calls + 1
  /\ subscriptions' = subscriptions \ {prefix}
  /\ changes' = IF prefix \in subscriptions THEN Append(changes, Change(FALSE, prefix))
                ELSE changes
  /\ forgotten' = forgotten \ {prefix}
  /\ excused' = excused \cup {e \in Unheard : e.topic \in prefix}
  /\ UNCHANGED <<control, queues, applying, fresh, network, published, got, expected>>

(* stop(): run() will end. *)
Stop(p) ==
  /\ p \in open /\ running[p]
  /\ running' = [running EXCEPT ![p] = FALSE]
  /\ excused' = excused \cup Unheard
  /\ UNCHANGED <<open, starts, queues, wishes, network, published, got, expected>>

(* start() of a part that is stopped; after a failure, with the stop()     *)
(* before it that only joins the thread.  It returns when run() has its    *)
(* sockets.  When bind() or connect() throws it changes nothing.           *)
Start(p) ==
  /\ p \notin open /\ starts < MaxStarts
  /\ starts' = starts + 1
  /\ running' = [running EXCEPT ![p] = TRUE]
  /\ open' = open \cup {p}

-----------------------------------------------------------------------------
(* event_publisher::run *)

PublisherStart ==
  /\ Start("publisher")
  /\ UNCHANGED <<queues, wishes, network, history>>

(* Variant of TakePending: the queue is taken from its end. *)
TakePendingReversed ==
  /\ "publisher" \in open /\ running["publisher"]
  /\ batch = <<>> /\ outgoing # <<>>
  /\ batch' = Reverse(outgoing) /\ outgoing' = <<>>
  /\ UNCHANGED <<control, wishes, network, history>>

(* publish_pending takes over the queue. *)
TakePending ==
  /\ "publisher" \in open /\ running["publisher"]
  /\ batch = <<>> /\ outgoing # <<>>
  /\ batch' = outgoing /\ outgoing' = <<>>
  /\ UNCHANGED <<control, wishes, network, history>>

(* Variant of SendEvent: sends the first event of the queue only. *)
SendFirst ==
  LET event == Head(batch)
      wanted == Matches(event.topic, known["publisher"])
      full == Len(ingress) = HighWater
  IN  /\ batch # <<>>
      /\ batch' = <<>>
      /\ ingress' = IF wanted /\ ~full THEN Append(ingress, event) ELSE ingress
      /\ excused' = IF full THEN excused \cup {event} ELSE excused
      /\ UNCHANGED <<control, outgoing, wishes, known, told, egress, linked,
                     published, got, expected>>

(* publish_pending sends an event.  The socket drops it if nobody that is  *)
(* connected asked for its topic, or if the pipe is full.                  *)
SendEvent ==
  LET event == Head(batch)
      wanted == Matches(event.topic, known["publisher"])
      full == Len(ingress) = HighWater
  IN  /\ batch # <<>>
      /\ batch' = Tail(batch)
      /\ ingress' = IF wanted /\ ~full THEN Append(ingress, event) ELSE ingress
      /\ excused' = IF full THEN excused \cup {event} ELSE excused
      /\ UNCHANGED <<control, outgoing, wishes, known, told, egress, linked,
                     published, got, expected>>

-----------------------------------------------------------------------------
(* event_subscriber::run *)

(* start(): apply_subscription_changes runs for the first time before it   *)
(* returns.                                                                *)
SubscriberStart ==
  /\ Start("subscriber")
  /\ known' = [known EXCEPT !["subscriber"] = AllApplied({}, changes)]
  /\ changes' = <<>> /\ fresh' = TRUE
  /\ UNCHANGED <<queues, subscriptions, applying, forgotten, calls,
                 told, ingress, egress, linked, history>>

(* apply_subscription_changes takes over the queue. *)
TakeChanges ==
  /\ "subscriber" \in open /\ running["subscriber"] /\ fresh
  /\ applying' = changes /\ changes' = <<>>
  /\ fresh' = FALSE
  /\ UNCHANGED <<control, queues, subscriptions, forgotten, calls, network, history>>

(* apply_subscription_changes sets one option of the socket, which tells   *)
(* the broker when it is connected.                                        *)
ApplyChange ==
  LET change == Head(applying)
  IN  /\ applying # <<>>
      /\ applying' = Tail(applying)
      /\ known' = [known EXCEPT !["subscriber"] = Applied(@, change)]
      /\ told' = IF "subscriber" \in linked /\ Applied(known["subscriber"], change) # known["subscriber"]
                 THEN [told EXCEPT !["broker"] = Append(@, change)] ELSE told
      /\ UNCHANGED <<control, queues, subscriptions, changes, fresh, forgotten, calls,
                     ingress, egress, linked, history>>

Polling == "subscriber" \in open /\ ~fresh /\ applying = <<>>

(* poll() finds an event; the socket passes on what it is subscribed to.   *)
(* An exception of the handler is logged.                                  *)
Receive ==
  LET event == Head(egress)
  IN  /\ Polling /\ egress # <<>>
      /\ egress' = Tail(egress)
      /\ got' = IF Matches(event.topic, known["subscriber"]) THEN Append(got, event) ELSE got
      /\ fresh' = TRUE
      /\ UNCHANGED <<control, queues, subscriptions, changes, applying, forgotten, calls,
                     known, told, ingress, linked, published, expected, excused>>

(* poll() returns after kPollInterval. *)
PollTimeout ==
  /\ Polling /\ egress = <<>>
  /\ fresh' = TRUE
  /\ UNCHANGED <<control, queues, subscriptions, changes, applying, forgotten, calls,
                 network, history>>

-----------------------------------------------------------------------------
(* event_broker::run *)

BrokerStart ==
  /\ Start("broker")
  /\ UNCHANGED <<queues, wishes, network, history>>

(* forward(&xsub, &xpub): all frames of one event.  The XPUB socket drops  *)
(* it when the subscriber did not ask for it or its pipe is full.          *)
ForwardEvent ==
  IF ingress = <<>> THEN UNCHANGED <<ingress, egress, excused>>
  ELSE LET event == Head(ingress)
           wanted == "subscriber" \in linked /\ Matches(event.topic, known["broker"])
           full == Len(egress) = HighWater
       IN  /\ ingress' = Tail(ingress)
           /\ egress' = IF wanted /\ ~full THEN Append(egress, event) ELSE egress
           /\ excused' = IF full THEN excused \cup {event} ELSE excused

(* Variant of ForwardSubscription: forwards no message that unsubscribes. *)
ForwardSubscribes ==
  IF told["broker"] = <<>> THEN UNCHANGED <<known, told>>
  ELSE LET change == Head(told["broker"])
       IN  /\ known' = [known EXCEPT !["broker"] = Applied(@, change)]
           /\ told' = [told EXCEPT
                !["broker"] = Tail(@),
                !["publisher"] = IF "publisher" \in linked /\ change.on THEN Append(@, change) ELSE @]

(* forward(&xpub, &xsub): one subscription change, which the XSUB socket   *)
(* passes on to the publisher when it is connected.                        *)
ForwardSubscription ==
  IF told["broker"] = <<>> THEN UNCHANGED <<known, told>>
  ELSE LET change == Head(told["broker"])
       IN  /\ known' = [known EXCEPT !["broker"] = Applied(@, change)]
           /\ told' = [told EXCEPT
                !["broker"] = Tail(@),
                !["publisher"] = IF "publisher" \in linked THEN Append(@, change) ELSE @]

(* One turn of the loop: what poll() found on both sockets is forwarded. *)
BrokerTurn ==
  /\ "broker" \in open /\ running["broker"]
  /\ ForwardEvent
  /\ ForwardSubscription
  /\ UNCHANGED <<control, queues, wishes, linked, published, got, expected>>

-----------------------------------------------------------------------------
(* The end of run() *)

(* The sockets' destructors, with linger 0.  Of the events in its pipe a   *)
(* publisher has transferred some; the subscriber reads what reached it.   *)
(* The XPUB socket unsubscribes for a subscriber that is gone.             *)
CloseSockets(p) ==
  CASE p = "publisher" ->
         /\ \E kept \in 0..Len(ingress) : ingress' = SubSeq(ingress, 1, kept)
         /\ known' = [known EXCEPT !["publisher"] = {}]
         /\ told' = [told EXCEPT !["publisher"] = <<>>]
         /\ linked' = linked \ {p}
         /\ UNCHANGED <<egress, applying, fresh, forgotten>>
    [] p = "subscriber" ->
         /\ known' = [known EXCEPT !["subscriber"] = {}]
         /\ egress' = <<>>
         /\ applying' = <<>> /\ fresh' = FALSE
         /\ forgotten' = subscriptions \ AllApplied({}, changes)
         /\ told' = [told EXCEPT !["broker"] = IF p \in linked
              THEN @ \o Changes(FALSE, AllApplied(known["broker"], @)) ELSE @]
         /\ linked' = linked \ {p}
         /\ UNCHANGED ingress
    [] p = "broker" ->
         /\ ingress' = <<>>
         /\ \E kept \in 0..Len(egress) : egress' = SubSeq(egress, 1, kept)
         /\ known' = [known EXCEPT !["broker"] = {}, !["publisher"] = {}]
         /\ told' = [q \in Parts |-> <<>>]
         /\ linked' = {}
         /\ UNCHANGED <<applying, fresh, forgotten>>

(* The loop sees that running_ is false, and stop() can join the thread.   *)
EndLoop(p) ==
  /\ p \in open /\ ~running[p]
  /\ p = "publisher" => batch = <<>>
  /\ p = "subscriber" => applying = <<>>
  /\ CloseSockets(p)
  /\ open' = open \ {p}
  /\ UNCHANGED <<running, starts, queues, subscriptions, changes, calls, history>>

(* A call of ZeroMQ throws, and run() ends by itself.  (A start() without  *)
(* a stop() would now assign to a joinable thread_, and terminate.)        *)
Fail(p) ==
  /\ p \in open /\ running[p]
  /\ CloseSockets(p)
  /\ running' = [running EXCEPT ![p] = FALSE]
  /\ open' = open \ {p}
  /\ batch' = IF p = "publisher" THEN <<>> ELSE batch
  /\ excused' = excused \cup Unheard
  /\ UNCHANGED <<starts, outgoing, subscriptions, changes, calls,
                 published, got, expected>>

-----------------------------------------------------------------------------
(* ZeroMQ *)

(* The publisher connects, and is told the subscriptions of the XSUB socket. *)
ConnectPublisher ==
  /\ {"publisher", "broker"} \subseteq open /\ "publisher" \notin linked
  /\ linked' = linked \cup {"publisher"}
  /\ told' = [told EXCEPT !["publisher"] = Changes(TRUE, known["broker"])]
  /\ UNCHANGED <<control, queues, wishes, known, ingress, egress, history>>

(* The subscriber connects, and tells its subscriptions to the XPUB socket. *)
ConnectSubscriber ==
  /\ {"subscriber", "broker"} \subseteq open /\ "subscriber" \notin linked
  /\ linked' = linked \cup {"subscriber"}
  /\ told' = [told EXCEPT !["broker"] = @ \o Changes(TRUE, known["subscriber"])]
  /\ UNCHANGED <<control, queues, wishes, known, ingress, egress, history>>

(* The publisher's socket takes a change. *)
TellPublisher ==
  /\ told["publisher"] # <<>> /\ "publisher" \in open
  /\ known' = [known EXCEPT !["publisher"] = Applied(@, Head(told["publisher"]))]
  /\ told' = [told EXCEPT !["publisher"] = Tail(@)]
  /\ UNCHANGED <<control, queues, wishes, ingress, egress, linked, history>>

-----------------------------------------------------------------------------

Owner ==
  \/ PublisherStart \/ BrokerStart \/ SubscriberStart
  \/ \E p \in Parts : Stop(p) \/ Fail(p)
  \/ \E t \in Topics : Publish(t)
  \/ \E p \in TopicPrefixes : Subscribe(p) \/ Unsubscribe(p)

PublisherStep == TakePending \/ SendEvent
SubscriberStep == TakeChanges \/ ApplyChange \/ Receive \/ PollTimeout

Next ==
  \/ Owner
  \/ PublisherStep \/ SubscriberStep \/ BrokerTurn
  \/ \E p \in Parts : EndLoop(p)
  \/ ConnectPublisher \/ ConnectSubscriber \/ TellPublisher

Spec == Init /\ [][Next]_vars

(* The threads run, and ZeroMQ connects sockets and moves subscriptions. *)
FairSpec ==
  /\ Spec
  /\ WF_vars(PublisherStep) /\ WF_vars(SubscriberStep) /\ WF_vars(BrokerTurn)
  /\ WF_vars(ConnectPublisher) /\ WF_vars(ConnectSubscriber)
  /\ WF_vars(TellPublisher)

-----------------------------------------------------------------------------
(* Properties *)

(* The handler sees events in the order of publish(), none of them twice,  *)
(* also when parts stop, fail and start again.                             *)
HeardInOrder == \A i, j \in 1..Len(got) : i < j => got[i].n < got[j].n

(* When the parts run, the subscriptions asked for reach the publisher's   *)
(* socket through the broker, and those given up leave it, whatever calls  *)
(* of subscribe() and unsubscribe() come while the threads pass on others. *)
(* The exception is a subscription of an earlier run: start() after stop() *)
(* does not make it again, and subscribe() ignores it since it is still in *)
(* subscriptions_.                                                         *)
SubscriptionsPropagate == <>[]Live => <>[](known["publisher"] = subscriptions \ forgotten)

(* An event published when a subscription to its topic had reached the     *)
(* publisher's socket is handled by the subscriber, unless a pipe is full, *)
(* a part stops or fails, or the subscription is given up before.          *)
ExpectedIsHeard ==
  \A t \in Topics : \A n \in 1..MaxEvents :
    LET event == [topic |-> t, n |-> n]
    IN  event \in expected ~> (event \in excused \/ event \notin Unheard)

=============================================================================
