------------------------- MODULE EventChannelProofs -------------------------
(***************************************************************************)
(* Events are handled in the order of publish(), for every set of topics   *)
(* and every number of events, subscriptions and restarts.                 *)
(*                                                                         *)
(* An event passes through outgoing_, publish_pending's local queue, the   *)
(* pipe to the broker, the pipe to the subscriber and the handler.  The    *)
(* invariant: each of these is in order, all of one comes before all of    *)
(* those behind it, and none holds what was not published yet.             *)
(***************************************************************************)
EXTENDS EventChannel, TLAPS

Events == [topic : Topics, n : Nat]

Rising(s) == \A i, j \in 1..Len(s) : i < j => s[i].n < s[j].n

Before(s, t) == \A i \in 1..Len(s), j \in 1..Len(t) : s[i].n < t[j].n

UpTo(s, last) == \A i \in 1..Len(s) : s[i].n <= last

EventTypes ==
  /\ outgoing \in Seq(Events) /\ batch \in Seq(Events)
  /\ ingress \in Seq(Events) /\ egress \in Seq(Events) /\ got \in Seq(Events)
  /\ Len(published) \in Nat

InLine ==
  /\ Rising(got) /\ Rising(egress) /\ Rising(ingress) /\ Rising(batch) /\ Rising(outgoing)
  /\ Before(got, egress) /\ Before(got, ingress) /\ Before(got, batch) /\ Before(got, outgoing)
  /\ Before(egress, ingress) /\ Before(egress, batch) /\ Before(egress, outgoing)
  /\ Before(ingress, batch) /\ Before(ingress, outgoing)
  /\ Before(batch, outgoing)

Past ==
  /\ UpTo(got, Len(published)) /\ UpTo(egress, Len(published)) /\ UpTo(ingress, Len(published))
  /\ UpTo(batch, Len(published)) /\ UpTo(outgoing, Len(published))

EventInv == EventTypes /\ published \in Seq(Events) /\ InLine /\ Past

-----------------------------------------------------------------------------
(* Sequences of events *)

(* s2 is a stretch of s: what is left of it when events were taken from    *)
(* its front or lost.                                                      *)
Stretch(s2, s) ==
  \E d \in Nat : \A i \in 1..Len(s2) : i + d \in 1..Len(s) /\ s2[i] = s[i + d]

(* A sequence is a stretch of itself; so are its tail, its first part and  *)
(* the empty sequence.                                                     *)
LEMMA StretchForms ==
  ASSUME NEW s \in Seq(Events)
  PROVE  /\ Stretch(s, s) /\ Stretch(<<>>, s)
         /\ s # <<>> => Tail(s) \in Seq(Events) /\ Stretch(Tail(s), s)
         /\ \A k \in 0..Len(s) : SubSeq(s, 1, k) \in Seq(Events) /\ Stretch(SubSeq(s, 1, k), s)
<1>1. Len(s) \in Nat /\ \A i \in 1..Len(s) : i + 0 \in 1..Len(s) /\ s[i] = s[i + 0]
  OBVIOUS
<1>2. Stretch(s, s)
  BY <1>1 DEF Stretch
<1>3. Stretch(<<>>, s)
  <2>1. 0 \in Nat /\ \A i \in 1..Len(<<>>) : i + 0 \in 1..Len(s) /\ (<<>>)[i] = s[i + 0]
    OBVIOUS
  <2> QED BY <2>1 DEF Stretch
<1>4. ASSUME s # <<>> PROVE Tail(s) \in Seq(Events) /\ Stretch(Tail(s), s)
  <2>1. Tail(s) \in Seq(Events) /\ 1 \in Nat
        /\ \A i \in 1..Len(Tail(s)) : i + 1 \in 1..Len(s) /\ Tail(s)[i] = s[i + 1]
    BY <1>4
  <2> QED BY <2>1 DEF Stretch
<1>5. ASSUME NEW k \in 0..Len(s)
      PROVE  SubSeq(s, 1, k) \in Seq(Events) /\ Stretch(SubSeq(s, 1, k), s)
  <2>1. SubSeq(s, 1, k) \in Seq(Events) /\ 0 \in Nat
        /\ \A i \in 1..Len(SubSeq(s, 1, k)) : i + 0 \in 1..Len(s) /\ SubSeq(s, 1, k)[i] = s[i + 0]
    BY <1>1
  <2> QED BY <2>1 DEF Stretch
<1> QED BY <1>2, <1>3, <1>4, <1>5

(* A stretch keeps the order, within itself and with others. *)
LEMMA StretchOrder ==
  ASSUME NEW s \in Seq(Events), NEW s2 \in Seq(Events), Stretch(s2, s)
  PROVE  /\ Rising(s) => Rising(s2)
         /\ \A last : UpTo(s, last) => UpTo(s2, last)
         /\ \A t : Before(s, t) => Before(s2, t)
         /\ \A t : Before(t, s) => Before(t, s2)
<1>1. PICK d \in Nat : \A i \in 1..Len(s2) : i + d \in 1..Len(s) /\ s2[i] = s[i + d]
  BY DEF Stretch
<1>2. ASSUME Rising(s) PROVE Rising(s2)
  <2> SUFFICES ASSUME NEW i \in 1..Len(s2), NEW j \in 1..Len(s2), i < j
               PROVE  s2[i].n < s2[j].n
    BY DEF Rising
  <2>1. i + d \in 1..Len(s) /\ j + d \in 1..Len(s) /\ s2[i] = s[i + d] /\ s2[j] = s[j + d]
    BY <1>1
  <2>2. i + d < j + d
    OBVIOUS
  <2> QED BY <1>2, <2>1, <2>2 DEF Rising
<1>3. ASSUME NEW last, UpTo(s, last) PROVE UpTo(s2, last)
  BY <1>1, <1>3, Zenon DEF UpTo
<1>4. ASSUME NEW t, Before(s, t) PROVE Before(s2, t)
  BY <1>1, <1>4, Zenon DEF Before
<1>5. ASSUME NEW t, Before(t, s) PROVE Before(t, s2)
  BY <1>1, <1>5, Zenon DEF Before
<1> QED BY <1>2, <1>3, <1>4, <1>5

(* The first event of t is appended to s, which comes before t. *)
LEMMA PassOn ==
  ASSUME NEW s \in Seq(Events), NEW t \in Seq(Events), t # <<>>,
         Rising(s), Rising(t), Before(s, t)
  PROVE  LET moved == Append(s, Head(t)) IN
         /\ moved \in Seq(Events) /\ Rising(moved) /\ Before(moved, Tail(t))
         /\ \A u : Before(u, s) /\ Before(u, t) => Before(u, moved)
         /\ \A u : Before(s, u) /\ Before(t, u) => Before(moved, u)
         /\ \A last : UpTo(s, last) /\ UpTo(t, last) => UpTo(moved, last)
<1> DEFINE moved == Append(s, Head(t))
<1>1. /\ Len(s) \in Nat /\ 1 \in 1..Len(t) /\ Head(t) = t[1] /\ t[1] \in Events
      /\ moved \in Seq(Events) /\ Len(moved) = Len(s) + 1 /\ moved[Len(s) + 1] = t[1]
      /\ \A i \in 1..Len(s) : moved[i] = s[i]
  OBVIOUS
<1>2. \A i \in 1..Len(moved) : i \in 1..Len(s) \/ i = Len(s) + 1
  BY <1>1
<1>3. \A i \in 1..Len(s) : s[i].n < t[1].n
  BY <1>1, Zenon DEF Before
<1>4. Rising(moved)
  <2> SUFFICES ASSUME NEW i \in 1..Len(moved), NEW j \in 1..Len(moved), i < j
               PROVE  moved[i].n < moved[j].n
    BY DEF Rising
  <2>1. i \in 1..Len(s)
    BY <1>1, <1>2
  <2>2. CASE j \in 1..Len(s)
    BY <1>1, <2>1, <2>2 DEF Rising
  <2>3. CASE j = Len(s) + 1
    BY <1>1, <1>3, <2>1, <2>3
  <2> QED BY <1>2, <2>2, <2>3
<1>5. Before(moved, Tail(t))
  <2> SUFFICES ASSUME NEW i \in 1..Len(moved), NEW j \in 1..Len(Tail(t))
               PROVE  moved[i].n < Tail(t)[j].n
    BY DEF Before
  <2>1. j + 1 \in 1..Len(t) /\ Tail(t)[j] = t[j + 1] /\ 1 < j + 1
    OBVIOUS
  <2>2. t[1].n < t[j + 1].n
    BY <1>1, <2>1 DEF Rising
  <2>3. CASE i \in 1..Len(s)
    BY <1>1, <2>1, <2>3 DEF Before
  <2>4. CASE i = Len(s) + 1
    BY <1>1, <2>1, <2>2, <2>4
  <2> QED BY <1>2, <2>3, <2>4
<1>6. ASSUME NEW u, Before(u, s), Before(u, t) PROVE Before(u, moved)
  BY <1>1, <1>2, <1>6, Zenon DEF Before
<1>7. ASSUME NEW u, Before(s, u), Before(t, u) PROVE Before(moved, u)
  BY <1>1, <1>2, <1>7, Zenon DEF Before
<1>8. ASSUME NEW last, UpTo(s, last), UpTo(t, last) PROVE UpTo(moved, last)
  BY <1>1, <1>2, <1>8, Zenon DEF UpTo
<1> QED BY <1>1, <1>4, <1>5, <1>6, <1>7, <1>8

-----------------------------------------------------------------------------
(* Steps *)

(* Events are taken from the front or lost, and nothing else.              *)
Loses ==
  /\ Len(published') = Len(published) /\ got' = got
  /\ outgoing' \in Seq(Events) /\ Stretch(outgoing', outgoing)
  /\ batch' \in Seq(Events) /\ Stretch(batch', batch)
  /\ ingress' \in Seq(Events) /\ Stretch(ingress', ingress)
  /\ egress' \in Seq(Events) /\ Stretch(egress', egress)

(* An event is passed on along the way. *)
Sends ==
  /\ batch # <<>> /\ batch' = Tail(batch) /\ ingress' = Append(ingress, Head(batch))
  /\ UNCHANGED <<published, got, egress, outgoing>>

Forwards ==
  /\ ingress # <<>> /\ ingress' = Tail(ingress) /\ egress' = Append(egress, Head(ingress))
  /\ UNCHANGED <<published, got, batch, outgoing>>

Handles ==
  /\ egress # <<>> /\ egress' = Tail(egress) /\ got' = Append(got, Head(egress))
  /\ UNCHANGED <<published, ingress, batch, outgoing>>

(* What the end of run() leaves in the pipes. *)
LEMMA CloseLoses ==
  ASSUME EventTypes, NEW p \in Parts, CloseSockets(p)
  PROVE  /\ ingress' \in Seq(Events) /\ Stretch(ingress', ingress)
         /\ egress' \in Seq(Events) /\ Stretch(egress', egress)
<1>1. ingress \in Seq(Events) /\ egress \in Seq(Events) /\ <<>> \in Seq(Events)
  BY DEF EventTypes
<1>2. \/ /\ \E kept \in 0..Len(ingress) : ingress' = SubSeq(ingress, 1, kept)
         /\ egress' = egress
      \/ egress' = <<>> /\ ingress' = ingress
      \/ /\ ingress' = <<>>
         /\ \E kept \in 0..Len(egress) : egress' = SubSeq(egress, 1, kept)
  BY DEF CloseSockets, Parts
<1> QED BY <1>1, <1>2, StretchForms, Zenon

(* What a step does to the events. *)
LEMMA StepKinds ==
  ASSUME EventTypes, [Next]_vars
  PROVE  \/ Loses \/ Sends \/ Forwards \/ Handles \/ TakePending
         \/ \E t \in Topics : Publish(t)
<1> USE DEF vars, control, queues, wishes, network, history
<1>1. /\ outgoing \in Seq(Events) /\ batch \in Seq(Events) /\ <<>> \in Seq(Events)
      /\ ingress \in Seq(Events) /\ egress \in Seq(Events)
  BY DEF EventTypes
<1>2. ASSUME UNCHANGED <<queues, ingress, egress, published, got>> PROVE Loses
  BY <1>1, <1>2, StretchForms, Zenon DEF Loses
<1>3. ASSUME \E p \in Parts : Stop(p) PROVE Loses
  BY <1>2, <1>3, Zenon DEF Stop
<1>4. ASSUME NEW p \in Parts, EndLoop(p) PROVE Loses
  <2>1. UNCHANGED <<outgoing, batch, published, got>> /\ CloseSockets(p)
    BY <1>4, Zenon DEF EndLoop
  <2> QED BY <1>1, <2>1, CloseLoses, StretchForms, Zenon DEF Loses
<1>5. ASSUME NEW p \in Parts, Fail(p) PROVE Loses
  <2>1. UNCHANGED <<outgoing, published, got>> /\ CloseSockets(p) /\ (batch' = <<>> \/ batch' = batch)
    BY <1>5, Zenon DEF Fail
  <2> QED BY <1>1, <2>1, CloseLoses, StretchForms, Zenon DEF Loses
<1>6. ASSUME PublisherStart \/ BrokerStart \/ SubscriberStart PROVE Loses
  BY <1>2, <1>6, Zenon DEF PublisherStart, BrokerStart, SubscriberStart
<1>7. ASSUME \E p \in TopicPrefixes : Subscribe(p) \/ Unsubscribe(p) PROVE Loses
  BY <1>2, <1>7, Zenon DEF Subscribe, Unsubscribe
<1>8. ASSUME TakeChanges \/ ApplyChange \/ PollTimeout PROVE Loses
  BY <1>2, <1>8, Zenon DEF TakeChanges, ApplyChange, PollTimeout
<1>9. ASSUME ConnectPublisher \/ ConnectSubscriber \/ TellPublisher PROVE Loses
  BY <1>2, <1>9, Zenon DEF ConnectPublisher, ConnectSubscriber, TellPublisher
<1>10. ASSUME SendEvent PROVE Sends \/ Loses
  <2>1. /\ batch # <<>> /\ batch' = Tail(batch)
        /\ ingress' = Append(ingress, Head(batch)) \/ ingress' = ingress
        /\ UNCHANGED <<published, got, egress, outgoing>>
    BY <1>10, Zenon DEF SendEvent
  <2> QED BY <1>1, <2>1, StretchForms, Zenon DEF Sends, Loses
<1>11. ASSUME BrokerTurn PROVE Forwards \/ Loses
  <2>1. UNCHANGED <<published, got, batch, outgoing>> /\ ForwardEvent
    BY <1>11, Zenon DEF BrokerTurn
  <2>2. \/ UNCHANGED <<ingress, egress>>
        \/ /\ ingress # <<>> /\ ingress' = Tail(ingress)
           /\ egress' = Append(egress, Head(ingress)) \/ egress' = egress
    BY <2>1, Zenon DEF ForwardEvent
  <2> QED BY <1>1, <2>1, <2>2, StretchForms, Zenon DEF Forwards, Loses
<1>12. ASSUME Receive PROVE Handles \/ Loses
  <2>1. /\ egress # <<>> /\ egress' = Tail(egress)
        /\ got' = Append(got, Head(egress)) \/ got' = got
        /\ UNCHANGED <<published, ingress, batch, outgoing>>
    BY <1>12, Zenon DEF Receive
  <2> QED BY <1>1, <2>1, StretchForms, Zenon DEF Handles, Loses
<1>13. CASE UNCHANGED vars
  BY <1>2, <1>13, Zenon
<1> QED
  BY <1>3, <1>4, <1>5, <1>6, <1>7, <1>8, <1>9, <1>10, <1>11, <1>12, <1>13, Zenon
  DEF Next, Owner, PublisherStep, SubscriberStep

(* Losing events keeps the line. *)
LEMMA LosesInLine ==
  ASSUME EventInv, Loses
  PROVE  EventTypes' /\ InLine' /\ Past'
<1>1. /\ outgoing \in Seq(Events) /\ batch \in Seq(Events) /\ ingress \in Seq(Events)
      /\ egress \in Seq(Events) /\ got \in Seq(Events) /\ Len(published) \in Nat
      /\ InLine /\ Past
  BY DEF EventInv, EventTypes
<1>2. EventTypes'
  BY <1>1, Zenon DEF Loses, EventTypes
<1>3. InLine'
  <2>1. Rising(got') /\ Rising(egress') /\ Rising(ingress') /\ Rising(batch') /\ Rising(outgoing')
    BY <1>1, StretchOrder, Zenon DEF InLine, Loses
  <2>2. Before(got', egress') /\ Before(got', ingress') /\ Before(got', batch') /\ Before(got', outgoing')
    BY <1>1, StretchOrder, Zenon DEF InLine, Loses
  <2>3. Before(egress', ingress') /\ Before(egress', batch') /\ Before(egress', outgoing')
    <3>1. Before(egress', ingress) /\ Before(egress', batch) /\ Before(egress', outgoing)
      BY <1>1, StretchOrder, Zenon DEF InLine, Loses
    <3> QED BY <3>1, <1>1, StretchOrder, Zenon DEF Loses
  <2>4. Before(ingress', batch') /\ Before(ingress', outgoing')
    <3>1. Before(ingress', batch) /\ Before(ingress', outgoing)
      BY <1>1, StretchOrder, Zenon DEF InLine, Loses
    <3> QED BY <3>1, <1>1, StretchOrder, Zenon DEF Loses
  <2>5. Before(batch', outgoing')
    <3>1. Before(batch', outgoing)
      BY <1>1, StretchOrder, Zenon DEF InLine, Loses
    <3> QED BY <3>1, <1>1, StretchOrder, Zenon DEF Loses
  <2> QED BY <2>1, <2>2, <2>3, <2>4, <2>5, Zenon DEF InLine
<1>4. Past'
  BY <1>1, StretchOrder, Zenon DEF Past, Loses
<1> QED BY <1>2, <1>3, <1>4

(* An event sent to the broker stays in line. *)
LEMMA SendsInLine ==
  ASSUME EventInv, Sends
  PROVE  EventTypes' /\ InLine' /\ Past'
<1>1. /\ outgoing \in Seq(Events) /\ batch \in Seq(Events) /\ ingress \in Seq(Events)
      /\ egress \in Seq(Events) /\ got \in Seq(Events) /\ Len(published) \in Nat
      /\ InLine /\ Past
  BY DEF EventInv, EventTypes
<1>2. /\ batch # <<>> /\ batch' = Tail(batch) /\ ingress' = Append(ingress, Head(batch))
      /\ published' = published /\ got' = got /\ egress' = egress /\ outgoing' = outgoing
  BY DEF Sends
<1>3. Rising(ingress) /\ Rising(batch) /\ Before(ingress, batch)
  BY <1>1 DEF InLine
<1>4. /\ ingress' \in Seq(Events) /\ Rising(ingress') /\ Before(ingress', batch')
      /\ \A u : Before(u, ingress) /\ Before(u, batch) => Before(u, ingress')
      /\ \A u : Before(ingress, u) /\ Before(batch, u) => Before(ingress', u)
      /\ \A last : UpTo(ingress, last) /\ UpTo(batch, last) => UpTo(ingress', last)
  BY <1>1, <1>2, <1>3, PassOn
<1>5. batch' \in Seq(Events) /\ Stretch(batch', batch)
  BY <1>1, <1>2, StretchForms
<1>6. /\ Rising(batch')
      /\ \A last : UpTo(batch, last) => UpTo(batch', last)
      /\ \A t : Before(batch, t) => Before(batch', t)
      /\ \A t : Before(t, batch) => Before(t, batch')
  BY <1>1, <1>3, <1>5, StretchOrder
<1>7. EventTypes'
  BY <1>1, <1>2, <1>4, <1>5, Zenon DEF EventTypes
<1>8. InLine'
  BY <1>1, <1>2, <1>4, <1>6, Zenon DEF InLine
<1>9. Past'
  BY <1>1, <1>2, <1>4, <1>6, Zenon DEF Past
<1> QED BY <1>7, <1>8, <1>9

(* An event forwarded to the subscriber stays in line. *)
LEMMA ForwardsInLine ==
  ASSUME EventInv, Forwards
  PROVE  EventTypes' /\ InLine' /\ Past'
<1>1. /\ outgoing \in Seq(Events) /\ batch \in Seq(Events) /\ ingress \in Seq(Events)
      /\ egress \in Seq(Events) /\ got \in Seq(Events) /\ Len(published) \in Nat
      /\ InLine /\ Past
  BY DEF EventInv, EventTypes
<1>2. /\ ingress # <<>> /\ ingress' = Tail(ingress) /\ egress' = Append(egress, Head(ingress))
      /\ published' = published /\ got' = got /\ batch' = batch /\ outgoing' = outgoing
  BY DEF Forwards
<1>3. Rising(egress) /\ Rising(ingress) /\ Before(egress, ingress)
  BY <1>1 DEF InLine
<1>4. /\ egress' \in Seq(Events) /\ Rising(egress') /\ Before(egress', ingress')
      /\ \A u : Before(u, egress) /\ Before(u, ingress) => Before(u, egress')
      /\ \A u : Before(egress, u) /\ Before(ingress, u) => Before(egress', u)
      /\ \A last : UpTo(egress, last) /\ UpTo(ingress, last) => UpTo(egress', last)
  BY <1>1, <1>2, <1>3, PassOn
<1>5. ingress' \in Seq(Events) /\ Stretch(ingress', ingress)
  BY <1>1, <1>2, StretchForms
<1>6. /\ Rising(ingress')
      /\ \A last : UpTo(ingress, last) => UpTo(ingress', last)
      /\ \A t : Before(ingress, t) => Before(ingress', t)
      /\ \A t : Before(t, ingress) => Before(t, ingress')
  BY <1>1, <1>3, <1>5, StretchOrder
<1>7. EventTypes'
  BY <1>1, <1>2, <1>4, <1>5, Zenon DEF EventTypes
<1>8. InLine'
  BY <1>1, <1>2, <1>4, <1>6, Zenon DEF InLine
<1>9. Past'
  BY <1>1, <1>2, <1>4, <1>6, Zenon DEF Past
<1> QED BY <1>7, <1>8, <1>9

(* An event handled is the next in line. *)
LEMMA HandlesInLine ==
  ASSUME EventInv, Handles
  PROVE  EventTypes' /\ InLine' /\ Past'
<1>1. /\ outgoing \in Seq(Events) /\ batch \in Seq(Events) /\ ingress \in Seq(Events)
      /\ egress \in Seq(Events) /\ got \in Seq(Events) /\ Len(published) \in Nat
      /\ InLine /\ Past
  BY DEF EventInv, EventTypes
<1>2. /\ egress # <<>> /\ egress' = Tail(egress) /\ got' = Append(got, Head(egress))
      /\ published' = published /\ ingress' = ingress /\ batch' = batch /\ outgoing' = outgoing
  BY DEF Handles
<1>3. Rising(got) /\ Rising(egress) /\ Before(got, egress)
  BY <1>1 DEF InLine
<1>4. /\ got' \in Seq(Events) /\ Rising(got') /\ Before(got', egress')
      /\ \A u : Before(u, got) /\ Before(u, egress) => Before(u, got')
      /\ \A u : Before(got, u) /\ Before(egress, u) => Before(got', u)
      /\ \A last : UpTo(got, last) /\ UpTo(egress, last) => UpTo(got', last)
  BY <1>1, <1>2, <1>3, PassOn
<1>5. egress' \in Seq(Events) /\ Stretch(egress', egress)
  BY <1>1, <1>2, StretchForms
<1>6. /\ Rising(egress')
      /\ \A last : UpTo(egress, last) => UpTo(egress', last)
      /\ \A t : Before(egress, t) => Before(egress', t)
      /\ \A t : Before(t, egress) => Before(t, egress')
  BY <1>1, <1>3, <1>5, StretchOrder
<1>7. EventTypes'
  BY <1>1, <1>2, <1>4, <1>5, Zenon DEF EventTypes
<1>8. InLine'
  BY <1>1, <1>2, <1>4, <1>6, Zenon DEF InLine
<1>9. Past'
  BY <1>1, <1>2, <1>4, <1>6, Zenon DEF Past
<1> QED BY <1>7, <1>8, <1>9

(* publish_pending finds its local queue empty and takes over the other. *)
LEMMA TakesInLine ==
  ASSUME EventInv, TakePending
  PROVE  EventTypes' /\ InLine' /\ Past'
<1>1. /\ outgoing \in Seq(Events) /\ batch \in Seq(Events) /\ ingress \in Seq(Events)
      /\ egress \in Seq(Events) /\ got \in Seq(Events) /\ Len(published) \in Nat
      /\ InLine /\ Past
  BY DEF EventInv, EventTypes
<1>2. /\ batch' = outgoing /\ outgoing' = <<>>
      /\ published' = published /\ got' = got /\ ingress' = ingress /\ egress' = egress
  BY DEF TakePending, network, history
<1>3. /\ <<>> \in Seq(Events) /\ Rising(<<>>)
      /\ \A last : UpTo(<<>>, last)
      /\ \A t : Before(t, <<>>)
  BY DEF Rising, UpTo, Before
<1>4. EventTypes'
  BY <1>1, <1>2, <1>3, Zenon DEF EventTypes
<1>5. InLine'
  BY <1>1, <1>2, <1>3, Zenon DEF InLine
<1>6. Past'
  BY <1>1, <1>2, <1>3, Zenon DEF Past
<1> QED BY <1>4, <1>5, <1>6

(* A new event is the last in line. *)
LEMMA PublishInLine ==
  ASSUME EventInv, NEW t \in Topics, Publish(t)
  PROVE  EventInv'
<1> DEFINE event == [topic |-> t, n |-> Len(published) + 1]
<1>1. /\ outgoing \in Seq(Events) /\ batch \in Seq(Events) /\ ingress \in Seq(Events)
      /\ egress \in Seq(Events) /\ got \in Seq(Events) /\ Len(published) \in Nat
      /\ published \in Seq(Events) /\ InLine /\ Past
  BY DEF EventInv, EventTypes
<1>2. /\ outgoing' = Append(outgoing, event) /\ published' = Append(published, event)
      /\ batch' = batch /\ got' = got /\ ingress' = ingress /\ egress' = egress
  BY DEF Publish, network
<1>3. event \in Events /\ event.n = Len(published) + 1
  BY <1>1 DEF Events
<1> HIDE DEF event
<1>4. /\ outgoing' \in Seq(Events) /\ Len(outgoing) \in Nat /\ Len(outgoing') = Len(outgoing) + 1
      /\ outgoing'[Len(outgoing) + 1] = event
      /\ \A i \in 1..Len(outgoing) : outgoing'[i] = outgoing[i]
  BY <1>1, <1>2, <1>3
<1>5. \A i \in 1..Len(outgoing') : i \in 1..Len(outgoing) \/ i = Len(outgoing) + 1
  BY <1>4
<1>6. published' \in Seq(Events) /\ Len(published') = Len(published) + 1 /\ Len(published') \in Nat
  BY <1>1, <1>2, <1>3
<1>7. ASSUME NEW s \in Seq(Events), UpTo(s, Len(published))
      PROVE  UpTo(s, Len(published')) /\ \A i \in 1..Len(s) : s[i].n < event.n
  <2> SUFFICES ASSUME NEW i \in 1..Len(s)
               PROVE  s[i].n <= Len(published') /\ s[i].n < event.n
    BY DEF UpTo
  <2>1. s[i] \in Events /\ s[i].n <= Len(published)
    BY <1>7 DEF UpTo
  <2>2. s[i].n \in Nat
    BY <2>1 DEF Events
  <2> QED BY <1>1, <1>3, <1>6, <2>1, <2>2
<1>8. ASSUME NEW s \in Seq(Events), UpTo(s, Len(published)), Before(s, outgoing)
      PROVE  Before(s, outgoing')
  <2>1. \A i \in 1..Len(s) : s[i].n < event.n
    BY <1>7, <1>8
  <2> QED BY <1>4, <1>5, <1>8, <2>1, Zenon DEF Before
<1>9. Rising(outgoing')
  <2> SUFFICES ASSUME NEW i \in 1..Len(outgoing'), NEW j \in 1..Len(outgoing'), i < j
               PROVE  outgoing'[i].n < outgoing'[j].n
    BY DEF Rising
  <2>1. i \in 1..Len(outgoing)
    BY <1>4, <1>5
  <2>2. CASE j \in 1..Len(outgoing)
    BY <1>1, <1>4, <2>1, <2>2 DEF InLine, Rising
  <2>3. CASE j = Len(outgoing) + 1
    <3>1. outgoing[i].n < event.n
      BY <1>1, <1>7, <2>1 DEF Past
    <3> QED BY <1>4, <2>1, <2>3, <3>1
  <2> QED BY <1>5, <2>2, <2>3
<1>10. UpTo(outgoing', Len(published'))
  <2>1. UpTo(outgoing, Len(published'))
    BY <1>1, <1>7 DEF Past
  <2>2. event.n <= Len(published')
    BY <1>3, <1>6
  <2> QED BY <1>4, <1>5, <2>1, <2>2, Zenon DEF UpTo
<1>11. EventTypes'
  BY <1>1, <1>2, <1>4, <1>6, Zenon DEF EventTypes
<1>12. InLine'
  BY <1>1, <1>2, <1>8, <1>9, Zenon DEF InLine, Past
<1>13. Past'
  BY <1>1, <1>2, <1>7, <1>10, Zenon DEF Past
<1> QED BY <1>6, <1>11, <1>12, <1>13 DEF EventInv

(* Only publish() adds to what was published. *)
LEMMA PublishedStep ==
  ASSUME EventInv, [Next]_vars
  PROVE  published' = published \/ \E t \in Topics : Publish(t)
<1> USE DEF vars, history
<1>1. ASSUME Owner PROVE published' = published \/ \E t \in Topics : Publish(t)
  BY <1>1, Zenon DEF Owner, PublisherStart, BrokerStart, SubscriberStart, Stop, Fail, Subscribe,
     Unsubscribe
<1>2. ASSUME PublisherStep \/ SubscriberStep \/ BrokerTurn PROVE published' = published
  BY <1>2, Zenon DEF PublisherStep, SubscriberStep, TakePending, SendEvent, TakeChanges, ApplyChange,
     Receive, PollTimeout, BrokerTurn
<1>3. ASSUME NEW p \in Parts, EndLoop(p) PROVE published' = published
  BY <1>3, Zenon DEF EndLoop
<1>4. ASSUME ConnectPublisher \/ ConnectSubscriber \/ TellPublisher PROVE published' = published
  BY <1>4, Zenon DEF ConnectPublisher, ConnectSubscriber, TellPublisher
<1> QED BY <1>1, <1>2, <1>3, <1>4, Zenon DEF Next

(* No event is published before the start. *)
LEMMA EventInit == Init => EventInv
<1> SUFFICES ASSUME Init PROVE EventInv
  OBVIOUS
<1>1. outgoing = <<>> /\ batch = <<>> /\ ingress = <<>> /\ egress = <<>> /\ got = <<>> /\ published = <<>>
  BY DEF Init
<1>2. /\ <<>> \in Seq(Events) /\ Len(<<>>) \in Nat /\ Rising(<<>>) /\ Before(<<>>, <<>>)
      /\ UpTo(<<>>, Len(<<>>))
  BY DEF Rising, Before, UpTo
<1> QED BY <1>1, <1>2, Zenon DEF EventInv, EventTypes, InLine, Past

(* Every step keeps the events in line. *)
LEMMA EventStep == EventInv /\ [Next]_vars => EventInv'
<1> SUFFICES ASSUME EventInv, [Next]_vars PROVE EventInv'
  OBVIOUS
<1>1. CASE \E t \in Topics : Publish(t)
  BY <1>1, PublishInLine
<1>2. CASE ~\E t \in Topics : Publish(t)
  <2>1. published \in Seq(Events) /\ EventTypes /\ published' = published
    BY <1>2, PublishedStep DEF EventInv
  <2>2. EventTypes' /\ InLine' /\ Past'
    BY <1>2, <2>1, StepKinds, LosesInLine, SendsInLine, ForwardsInLine, HandlesInLine, TakesInLine
  <2> QED BY <2>1, <2>2, Zenon DEF EventInv
<1> QED BY <1>1, <1>2

(* event_subscriber's handler sees events in the order in which publish()  *)
(* was called with them and none of them twice, whatever is lost in        *)
(* between, whichever part stops, fails and starts again, and whatever     *)
(* subscriptions come and go.                                              *)
THEOREM EventsHeardInOrder == Spec => []HeardInOrder
<1>1. EventInv => HeardInOrder
  BY DEF EventInv, InLine, Rising, HeardInOrder
<1> QED BY <1>1, EventInit, EventStep, PTL DEF Spec

=============================================================================
