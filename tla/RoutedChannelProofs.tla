------------------------ MODULE RoutedChannelProofs ------------------------
(***************************************************************************)
(* What RoutedChannel checks on a small instance, proved for any dealers   *)
(* and pipes of any size.                                                  *)
(***************************************************************************)
EXTENDS RoutedChannel, SequenceTheorems, TLAPS

Messages == [to : Ends, n : Nat, reply : BOOLEAN]
Places == {"none", "open", "loop", "send", "poll", "ended", "joined"}

TypeOK ==
  /\ running \in [Ends -> BOOLEAN]
  /\ thread \in [Ends -> Places]
  /\ stopping \in [Ends -> {"no", "joining", "done"}]
  /\ outgoing \in [Ends -> Seq(Messages)] /\ batch \in [Ends -> Seq(Messages)]
  /\ open \in SUBSET Ends
  /\ up \in [Dealers -> Seq(Messages)] /\ down \in [Dealers -> Seq(Messages)]
  /\ link \in [Dealers -> {"none", "up", "down"}]
  /\ sent \in [Ends -> Seq(Messages)]
  /\ heard \in [Dealers -> Seq(Messages)] /\ got \in [Dealers -> Seq(Messages)]
  /\ dropped \in SUBSET Messages

(* A socket is open while run() loops, a batch exists while it is sent,    *)
(* and a router that is up only loses a dealer that has closed.            *)
Lifecycle ==
  /\ \A e \in Ends : e \in open <=> thread[e] \in {"loop", "send", "poll"}
  /\ \A e \in Ends : thread[e] # "send" => batch[e] = <<>>
  /\ \A d \in Dealers : link[d] # "none" => thread[d] \notin {"none", "open"}
  /\ \A d \in Dealers : link[d] = "down" => Closed(d) \/ Closed(Router)

(* An answer waits for a dealer that the router has met, and if it was     *)
(* dropped that dealer has closed.                                         *)
Answering ==
  /\ \A i \in 1..Len(batch[Router]) :
       batch[Router][i].reply => link[batch[Router][i].to] # "none"
  /\ \A i \in 1..Len(outgoing[Router]) :
       outgoing[Router][i].reply => link[outgoing[Router][i].to] # "none"
  /\ \A m \in dropped : m.reply => Closed(m.to)

(* What a dealer gave to send() and the router has or will have handled. *)
Passed(d) == heard[d] \o up[d]
Behind(d) == batch[d] \o outgoing[d]

FromDealer(d) ==
  /\ IsPrefix(Passed(d), sent[d])
  /\ ~Closed(d) => Passed(d) \o Behind(d) = sent[d]

FromDealers == \A d \in Dealers : FromDealer(d)

(* The messages that have left the router's queues. *)
Handled == Len(sent[Router]) - Len(batch[Router]) - Len(outgoing[Router])

(* The router's messages are numbered, and what waits is the last of them. *)
Queued ==
  /\ \A i \in 1..Len(sent[Router]) : sent[Router][i].n = i /\ sent[Router][i].to \in Dealers
  /\ Handled >= 0
  /\ \A i \in 1..Len(batch[Router]) : batch[Router][i] = sent[Router][Handled + i]
  /\ \A i \in 1..Len(outgoing[Router]) :
       outgoing[Router][i] = sent[Router][Handled + Len(batch[Router]) + i]
  /\ \A m \in dropped : m.n \in 1..Handled /\ m = sent[Router][m.n]

(* The n-th message of the router is one for d that could be routed. *)
For(d, n) == sent[Router][n].to = d /\ sent[Router][n] \notin dropped

Genuine(d) ==
  \A i \in 1..Len(Arrived(d)) :
    LET n == Arrived(d)[i].n
    IN  n \in 1..Handled /\ Arrived(d)[i] = sent[Router][n] /\ For(d, n)

InOrder(d) ==
  \A i, j \in 1..Len(Arrived(d)) : i < j => Arrived(d)[i].n < Arrived(d)[j].n

(* While both are up, all that could be routed has arrived. *)
Complete(d) ==
  ~Closed(d) /\ ~Closed(Router) =>
    \A n \in 1..Handled :
      For(d, n) => \E i \in 1..Len(Arrived(d)) : Arrived(d)[i] = sent[Router][n]

(* Nothing is missing before a message that d handled or will handle. *)
NoGap(d) ==
  \A i \in 1..Len(Arrived(d)) : ~Closed(d) \/ i <= Len(got[d]) =>
    \A n \in 1..Arrived(d)[i].n :
      For(d, n) => \E j \in 1..i : Arrived(d)[j] = sent[Router][n]

ToDealers == \A d \in Dealers : Genuine(d) /\ InOrder(d) /\ Complete(d) /\ NoGap(d)

ChannelInv == TypeOK /\ Lifecycle /\ Answering /\ FromDealers /\ Queued /\ ToDealers

-----------------------------------------------------------------------------
(* Types *)

(* The router is no dealer. *)
LEMMA EndFacts ==
  /\ Router \in Ends /\ Dealers \subseteq Ends /\ Router \notin Dealers
  /\ \A e \in Ends : e # Router => e \in Dealers
BY Zenon, ChannelAssumption DEF Ends

(* The fields of a message given to send(). *)
LEMMA MessageType ==
  ASSUME TypeOK, NEW from \in Ends, NEW to \in Ends, NEW reply \in BOOLEAN
  PROVE  /\ Message(from, to, reply) \in Messages
         /\ Message(from, to, reply).to = to
         /\ Message(from, to, reply).n = Len(sent[from]) + 1
         /\ Message(from, to, reply).reply = reply
<1>1. Len(sent[from]) \in Nat
  BY Zenon, LenProperties DEF TypeOK
<1>. QED
  BY <1>1 DEF Messages, Message

(* A sequence of one. *)
LEMMA Singleton ==
  ASSUME NEW S, NEW x \in S
  PROVE  <<x>> \in Seq(S) /\ Len(<<x>>) = 1 /\ <<x>>[1] = x
OBVIOUS

(* A sequence is its head and its tail. *)
LEMMA HeadAndTail ==
  ASSUME NEW S, NEW s \in Seq(S), s # <<>>
  PROVE  s = <<Head(s)>> \o Tail(s)
<1>1. /\ Head(s) \in S /\ Tail(s) \in Seq(S) /\ Len(Tail(s)) = Len(s) - 1
      /\ \A i \in 1..Len(Tail(s)) : Tail(s)[i] = s[i + 1]
  BY Zenon, HeadTailProperties
<1>2. <<Head(s)>> \in Seq(S) /\ Len(<<Head(s)>>) = 1 /\ <<Head(s)>>[1] = s[1]
  BY <1>1, Singleton
<1>3. /\ <<Head(s)>> \o Tail(s) \in Seq(S)
      /\ Len(<<Head(s)>> \o Tail(s)) = 1 + Len(Tail(s))
      /\ \A i \in 1..1 + Len(Tail(s)) : (<<Head(s)>> \o Tail(s))[i] =
           IF i <= 1 THEN <<Head(s)>>[i] ELSE Tail(s)[i - 1]
  BY <1>1, <1>2, ConcatProperties
<1>4. Len(s) \in Nat /\ Len(s) > 0
  BY LenProperties, EmptySeq
<1>5. Len(<<Head(s)>> \o Tail(s)) = Len(s)
  BY <1>1, <1>3, <1>4
<1>6. ASSUME NEW i \in 1..Len(s) PROVE s[i] = (<<Head(s)>> \o Tail(s))[i]
  <2>1. i \in 1..1 + Len(Tail(s)) /\ (i = 1 \/ (i > 1 /\ i - 1 \in 1..Len(Tail(s)) /\ (i - 1) + 1 = i))
    BY <1>1, <1>4
  <2>. QED
    BY <1>1, <1>2, <1>3, <2>1
<1>. QED
  BY Zenon, <1>3, <1>5, <1>6, SeqEqual

(* Moving the head of one sequence to the end of the one before it. *)
LEMMA MoveHead ==
  ASSUME NEW S, NEW g \in Seq(S), NEW w \in Seq(S), w # <<>>
  PROVE  Append(g, Head(w)) \o Tail(w) = g \o w
<1>1. Head(w) \in S /\ Tail(w) \in Seq(S)
  BY Zenon, HeadTailProperties
<1>2. Append(g, Head(w)) = g \o <<Head(w)>>
  BY Zenon, <1>1, AppendIsConcat
<1>3. w = <<Head(w)>> \o Tail(w)
  BY Zenon, HeadAndTail
<1>4. <<Head(w)>> \in Seq(S)
  BY Zenon, <1>1, Singleton
<1>5. \A u, t \in Seq(S) : (g \o u) \o t = g \o (u \o t)
  BY SMTT(30), ConcatAssociative
<1>6. (g \o <<Head(w)>>) \o Tail(w) = g \o (<<Head(w)>> \o Tail(w))
  BY <1>1, <1>4, <1>5, Zenon
<1>. QED
  BY <1>2, <1>3, <1>6, Zenon

(* Appending to the second of two sequences. *)
LEMMA ConcatAppend ==
  ASSUME NEW S, NEW g \in Seq(S), NEW w \in Seq(S), NEW x \in S
  PROVE  g \o Append(w, x) = Append(g \o w, x)
<1>1. <<x>> \in Seq(S) /\ g \o w \in Seq(S)
  BY Zenon, Singleton, ConcatProperties
<1>2. Append(w, x) = w \o <<x>> /\ Append(g \o w, x) = (g \o w) \o <<x>>
  BY Zenon, <1>1, AppendIsConcat
<1>3. (g \o w) \o <<x>> = g \o (w \o <<x>>)
  BY <1>1, ConcatAssociative
<1>. QED
  BY <1>2, <1>3, Zenon

(* The first k of a sequence. *)
LEMMA FirstPart ==
  ASSUME NEW S, NEW s \in Seq(S), NEW k \in 0..Len(s)
  PROVE  /\ SubSeq(s, 1, k) \in Seq(S)
         /\ Len(SubSeq(s, 1, k)) = k
         /\ \A i \in 1..k : SubSeq(s, 1, k)[i] = s[i]
<1>1. Len(s) \in Nat /\ \A i \in 1..k : s[i] \in S
  BY LenProperties, ElementOfSeq
<1>2. k \in Int /\ 1 \in Int
  BY <1>1
<1>3. /\ SubSeq(s, 1, k) \in Seq(S)
      /\ Len(SubSeq(s, 1, k)) = IF 1 <= k THEN k - 1 + 1 ELSE 0
      /\ \A i \in 1..k - 1 + 1 : SubSeq(s, 1, k)[i] = s[1 + i - 1]
  BY <1>1, <1>2, SubSeqProperties
<1>. QED
  BY <1>1, <1>3

(* Closing a socket keeps a first part of what the pipes hold. *)
LEMMA CloseEffect ==
  ASSUME TypeOK, NEW e \in Ends, CloseSocket(e)
  PROVE  /\ open' = open \ {e}
         /\ link' \in [Dealers -> {"none", "up", "down"}]
         /\ \A d \in Dealers : link'[d] # link[d] => e = Router /\ link[d] = "up" /\ link'[d] = "down"
         /\ up' \in [Dealers -> Seq(Messages)] /\ down' \in [Dealers -> Seq(Messages)]
         /\ \A d \in Dealers : d # e => up'[d] = up[d]
         /\ \A d \in Dealers : \E k \in 0..Len(up[d]) : up'[d] = SubSeq(up[d], 1, k)
         /\ \A d \in Dealers : e \notin {d, Router} => down'[d] = down[d]
         /\ \A d \in Dealers : \E k \in 0..Len(down[d]) : down'[d] = SubSeq(down[d], 1, k)
<1>0. \A d \in Dealers : /\ up[d] \in Seq(Messages) /\ Len(up[d]) \in Nat
                         /\ down[d] \in Seq(Messages) /\ Len(down[d]) \in Nat
                         /\ up[d] = SubSeq(up[d], 1, Len(up[d]))
                         /\ down[d] = SubSeq(down[d], 1, Len(down[d]))
                         /\ SubSeq(down[d], 1, 0) = <<>>
  BY SMTT(30), LenProperties, SubSeqFull, SubSeqEmpty DEF TypeOK
<1>1. CASE e = Router
  <2>1. PICK kept \in [Dealers -> 0..HighWater] :
          /\ \A d \in Dealers : kept[d] <= Len(down[d])
          /\ down' = [d \in Dealers |-> SubSeq(down[d], 1, kept[d])]
    BY Zenon, <1>1 DEF CloseSocket
  <2>2. \A d \in Dealers : kept[d] \in 0..Len(down[d]) /\ down'[d] = SubSeq(down[d], 1, kept[d])
    BY SMTT(30), <1>0, <2>1, ChannelAssumption
  <2>3. \A d \in Dealers : SubSeq(down[d], 1, kept[d]) \in Seq(Messages)
    BY Zenon, <1>0, <2>2, FirstPart
  <2>4. down' \in [Dealers -> Seq(Messages)]
    BY Zenon, <2>1, <2>3
  <2>5. open' = open \ {e} /\ up' = up
        /\ link' = [d \in Dealers |-> IF link[d] = "up" THEN "down" ELSE link[d]]
    BY Zenon, <1>1 DEF CloseSocket
  <2>6. link' \in [Dealers -> {"none", "up", "down"}]
    BY Zenon, <2>5 DEF TypeOK
  <2>7. \A d \in Dealers : link'[d] # link[d] => link[d] = "up" /\ link'[d] = "down"
    BY Zenon, <2>5
  <2>8. up' \in [Dealers -> Seq(Messages)]
    BY Zenon, <2>5 DEF TypeOK
  <2>9. \A d \in Dealers : \E k \in 0..Len(up[d]) : up'[d] = SubSeq(up[d], 1, k)
    BY <2>5, <1>0
  <2>. QED
    BY ZenonT(40), <1>1, <2>2, <2>4, <2>5, <2>6, <2>7, <2>8, <2>9
<1>2. CASE e # Router
  <2>0. e \in Dealers
    BY Zenon, <1>2, EndFacts
  <2>1. PICK kept \in 0..Len(up[e]) : up' = [up EXCEPT ![e] = SubSeq(@, 1, kept)]
    BY Zenon, <1>2 DEF CloseSocket
  <2>2. open' = open \ {e} /\ down' = [down EXCEPT ![e] = <<>>] /\ link' = link
    BY Zenon, <1>2 DEF CloseSocket
  <2>3. SubSeq(up[e], 1, kept) \in Seq(Messages) /\ <<>> \in Seq(Messages)
    BY Zenon, <2>0, <1>0, FirstPart, EmptySeq
  <2>4. up' \in [Dealers -> Seq(Messages)] /\ down' \in [Dealers -> Seq(Messages)]
    BY Zenon, <2>1, <2>2, <2>3 DEF TypeOK
  <2>5. \A d \in Dealers : /\ up'[d] = IF d = e THEN SubSeq(up[e], 1, kept) ELSE up[d]
                           /\ down'[d] = IF d = e THEN <<>> ELSE down[d]
    BY Zenon, <2>1, <2>2 DEF TypeOK
  <2>6. ASSUME NEW d \in Dealers
        PROVE  \E k \in 0..Len(up[d]) : up'[d] = SubSeq(up[d], 1, k)
    <3>1. CASE d = e
      BY Zenon, <2>5, <3>1
    <3>2. CASE d # e
      BY <2>5, <1>0, <3>2
    <3>. QED
      BY Zenon, <3>1, <3>2
  <2>7. ASSUME NEW d \in Dealers
        PROVE  \E k \in 0..Len(down[d]) : down'[d] = SubSeq(down[d], 1, k)
    <3>1. CASE d = e
      <4>1. down'[d] = <<>>
        BY Zenon, <2>5, <3>1
      <4>2. SubSeq(down[d], 1, 0) = <<>> /\ 0 \in 0..Len(down[d])
        BY <1>0
      <4>. QED
        BY Zenon, <4>1, <4>2
    <3>2. CASE d # e
      BY <2>5, <1>0, <3>2
    <3>. QED
      BY Zenon, <3>1, <3>2
  <2>8. link' \in [Dealers -> {"none", "up", "down"}]
    BY Zenon, <2>2 DEF TypeOK
  <2>. QED
    BY Zenon, <1>2, <2>2, <2>4, <2>5, <2>6, <2>7, <2>8
<1>. QED
  BY Zenon, <1>1, <1>2

(* send() keeps the types. *)
LEMMA SendTypes ==
  ASSUME TypeOK, NEW e \in Ends, NEW to \in Ends, Send(e, to)
  PROVE  TypeOK'
<1>1. Message(e, to, FALSE) \in Messages
  BY Zenon, MessageType
<1>2. /\ Append(outgoing[e], Message(e, to, FALSE)) \in Seq(Messages)
      /\ Append(sent[e], Message(e, to, FALSE)) \in Seq(Messages)
  BY Zenon, <1>1, AppendProperties DEF TypeOK
<1>3. /\ outgoing' = [outgoing EXCEPT ![e] = Append(outgoing[e], Message(e, to, FALSE))]
      /\ sent' = [sent EXCEPT ![e] = Append(sent[e], Message(e, to, FALSE))]
      /\ UNCHANGED <<control, batch, network, heard, got, dropped>>
  BY Zenon DEF Send
<1>. QED
  BY Zenon, <1>2, <1>3 DEF TypeOK, control, network

(* The router receiving a message keeps the types. *)
LEMMA ReceiveTypes ==
  ASSUME TypeOK, NEW d \in Dealers, RouterReceive(d)
  PROVE  TypeOK'
<1>0. Router \in Ends /\ d \in Ends
  BY Zenon, EndFacts
<1>1. Message(Router, d, TRUE) \in Messages
  BY Zenon, <1>0, MessageType
<1>2. PICK answers \in {<<>>, <<Message(Router, d, TRUE)>>} :
        /\ outgoing' = [outgoing EXCEPT ![Router] = @ \o answers]
        /\ sent' = [sent EXCEPT ![Router] = @ \o answers]
  BY Zenon DEF RouterReceive
<1>3. answers \in Seq(Messages)
  <2>1. <<>> \in Seq(Messages)
    BY Zenon, EmptySeq
  <2>2. <<Message(Router, d, TRUE)>> \in Seq(Messages)
    BY Zenon, <1>1, Singleton
  <2>. QED
    BY Zenon, <2>1, <2>2
<1>4. /\ outgoing[Router] \o answers \in Seq(Messages)
      /\ sent[Router] \o answers \in Seq(Messages)
  BY Zenon, <1>0, <1>3, ConcatProperties DEF TypeOK
<1>5. outgoing' \in [Ends -> Seq(Messages)] /\ sent' \in [Ends -> Seq(Messages)]
  BY Zenon, <1>0, <1>2, <1>4 DEF TypeOK
<1>6. up[d] \in Seq(Messages) /\ up[d] # <<>> /\ heard[d] \in Seq(Messages)
  BY Zenon DEF TypeOK, RouterReceive
<1>7. Append(heard[d], Head(up[d])) \in Seq(Messages) /\ Tail(up[d]) \in Seq(Messages)
  BY Zenon, <1>6, HeadTailProperties, AppendProperties
<1>8. heard' \in [Dealers -> Seq(Messages)] /\ up' \in [Dealers -> Seq(Messages)]
  BY Zenon, <1>7 DEF TypeOK, RouterReceive
<1>9. thread' \in [Ends -> Places]
  BY Zenon DEF TypeOK, RouterReceive, Goto, Places
<1>. QED
  BY Zenon, <1>5, <1>8, <1>9 DEF TypeOK, RouterReceive

(* Steps of an end on its own state keep the types. *)
LEMMA OwnTypes ==
  ASSUME TypeOK, NEW e \in Ends,
         \/ Start(e) \/ Stop(e) \/ Join(e) \/ Open(e) \/ OpenFails(e)
         \/ TakePending(e) \/ SentAll(e) \/ PollTimeout(e)
  PROVE  TypeOK'
<1>0. \A p \in Places : [thread EXCEPT ![e] = p] \in [Ends -> Places]
  BY Zenon DEF TypeOK
<1>1. {"open", "loop", "send", "poll", "ended", "joined"} \subseteq Places
  BY Zenon DEF Places
<1>2. CASE Start(e)
  BY Zenon, <1>0, <1>1, <1>2 DEF Start, Goto, TypeOK, queues, network, history
<1>3. CASE Stop(e)
  BY Zenon, <1>3 DEF Stop, TypeOK, queues, network, history
<1>4. CASE Join(e)
  BY Zenon, <1>0, <1>1, <1>4 DEF Join, Goto, TypeOK, queues, network, history
<1>5. CASE Open(e)
  BY Zenon, <1>0, <1>1, <1>5 DEF Open, Goto, TypeOK, queues, history
<1>6. CASE OpenFails(e)
  BY Zenon, <1>0, <1>1, <1>6 DEF OpenFails, Goto, TypeOK, queues, network, history
<1>7. CASE TakePending(e)
  <2>1. <<>> \in Seq(Messages)
    BY Zenon, EmptySeq
  <2>. QED
    BY Zenon, <1>0, <1>1, <1>7, <2>1 DEF TakePending, Goto, TypeOK, network, history
<1>8. CASE SentAll(e)
  BY Zenon, <1>0, <1>1, <1>8 DEF SentAll, Goto, TypeOK, queues, network, history
<1>9. CASE PollTimeout(e)
  BY Zenon, <1>0, <1>1, <1>9 DEF PollTimeout, Goto, TypeOK, queues, network, history
<1>. QED
  BY Zenon, <1>2, <1>3, <1>4, <1>5, <1>6, <1>7, <1>8, <1>9

(* The end of run() keeps the types. *)
LEMMA EndTypes ==
  ASSUME TypeOK, NEW e \in Ends, EndLoop(e) \/ Fail(e)
  PROVE  TypeOK'
<1>1. CloseSocket(e)
  BY Zenon DEF EndLoop, Fail
<1>2. /\ open' = open \ {e}
      /\ link' \in [Dealers -> {"none", "up", "down"}]
      /\ up' \in [Dealers -> Seq(Messages)] /\ down' \in [Dealers -> Seq(Messages)]
  BY Zenon, <1>1, CloseEffect
<1>3. thread' \in [Ends -> Places]
  BY Zenon DEF EndLoop, Fail, Goto, TypeOK, Places
<1>4. running' \in [Ends -> BOOLEAN] /\ UNCHANGED <<stopping, outgoing, history>>
  BY Zenon DEF EndLoop, Fail, TypeOK, queues
<1>5. <<>> \in Seq(Messages)
  BY Zenon, EmptySeq
<1>6. batch' \in [Ends -> Seq(Messages)]
  BY Zenon, <1>5 DEF EndLoop, Fail, TypeOK, queues
<1>. QED
  BY Zenon, <1>2, <1>3, <1>4, <1>6 DEF TypeOK, history

(* Moving messages and ZeroMQ's steps keep the types. *)
LEMMA MoveTypes ==
  ASSUME TypeOK,
         \/ RouterSend \/ RouterDrop
         \/ \E d \in Dealers : \/ DealerSend(d) \/ DealerReceive(d)
                               \/ Connect(d) \/ Disconnect(d)
  PROVE  TypeOK'
<1>0. Router \in Ends /\ Dealers \subseteq Ends
  BY Zenon, EndFacts
<1>1. CASE RouterSend \/ RouterDrop
  <2>1. batch[Router] \in Seq(Messages) /\ batch[Router] # <<>>
    BY Zenon, <1>0, <1>1 DEF TypeOK, RouterSend, RouterDrop
  <2>2. Head(batch[Router]) \in Messages /\ Tail(batch[Router]) \in Seq(Messages)
    BY Zenon, <2>1, HeadTailProperties
  <2>3. \A d \in Dealers : Append(down[d], Head(batch[Router])) \in Seq(Messages)
    BY Zenon, <2>2, AppendProperties DEF TypeOK
  <2>4. CASE RouterSend
    BY ZenonT(40), <1>0, <2>2, <2>3, <2>4 DEF RouterSend, TypeOK, control, history
  <2>5. CASE RouterDrop
    BY Zenon, <1>0, <2>2, <2>5 DEF RouterDrop, TypeOK, control, network
  <2>. QED
    BY Zenon, <1>1, <2>4, <2>5
<1>2. ASSUME NEW d \in Dealers, DealerSend(d) PROVE TypeOK'
  <2>1. batch[d] \in Seq(Messages) /\ batch[d] # <<>>
    BY Zenon, <1>0, <1>2 DEF TypeOK, DealerSend
  <2>2. Append(up[d], Head(batch[d])) \in Seq(Messages) /\ Tail(batch[d]) \in Seq(Messages)
    BY Zenon, <2>1, HeadTailProperties, AppendProperties DEF TypeOK
  <2>. QED
    BY Zenon, <1>0, <1>2, <2>2 DEF DealerSend, TypeOK, control, history
<1>3. ASSUME NEW d \in Dealers, DealerReceive(d) PROVE TypeOK'
  <2>1. down[d] \in Seq(Messages) /\ down[d] # <<>>
    BY Zenon, <1>3 DEF TypeOK, DealerReceive
  <2>2. Append(got[d], Head(down[d])) \in Seq(Messages) /\ Tail(down[d]) \in Seq(Messages)
    BY Zenon, <2>1, HeadTailProperties, AppendProperties DEF TypeOK
  <2>3. thread' \in [Ends -> Places]
    BY Zenon, <1>3 DEF DealerReceive, Goto, TypeOK, Places
  <2>. QED
    BY Zenon, <1>3, <2>2, <2>3 DEF DealerReceive, TypeOK, queues
<1>4. ASSUME NEW d \in Dealers, Connect(d) PROVE TypeOK'
  BY Zenon, <1>4 DEF Connect, TypeOK, control, queues, history
<1>5. ASSUME NEW d \in Dealers, Disconnect(d) PROVE TypeOK'
  <2>1. <<>> \in Seq(Messages)
    BY Zenon, EmptySeq
  <2>. QED
    BY Zenon, <1>5, <2>1 DEF Disconnect, TypeOK, control, queues, history
<1>. QED
  BY Zenon, <1>1, <1>2, <1>3, <1>4, <1>5

(* The steps, one by one. *)
LEMMA Steps ==
  ASSUME Next
  PROVE  \/ \E e \in Ends, to \in Ends : Send(e, to)
         \/ \E e \in Ends : \/ Start(e) \/ Stop(e) \/ Join(e) \/ Open(e) \/ OpenFails(e)
                            \/ TakePending(e) \/ SentAll(e) \/ PollTimeout(e)
         \/ \E e \in Ends : EndLoop(e) \/ Fail(e)
         \/ RouterSend \/ RouterDrop
         \/ \E d \in Dealers : \/ DealerSend(d) \/ DealerReceive(d)
                               \/ Connect(d) \/ Disconnect(d)
         \/ \E d \in Dealers : RouterReceive(d)
BY Zenon, EndFacts DEF Next, Owner, RouterStep, DealerStep, Step

(* Every step keeps the types. *)
LEMMA StepTypes ==
  ASSUME TypeOK, [Next]_vars
  PROVE  TypeOK'
<1>1. CASE UNCHANGED vars
  BY Zenon, <1>1 DEF TypeOK, vars, control, queues, network, history
<1>2. CASE Next
  BY Zenon, <1>2, Steps, SendTypes, OwnTypes, EndTypes, MoveTypes, ReceiveTypes
<1>. QED
  BY Zenon, <1>1, <1>2

-----------------------------------------------------------------------------
(* The threads, their sockets and the dealers' connections *)

(* Steps of an end on its own state keep its lifecycle. *)
LEMMA OwnLifecycle ==
  ASSUME TypeOK, Lifecycle, NEW e \in Ends,
         \/ Start(e) \/ Stop(e) \/ Join(e) \/ Open(e) \/ OpenFails(e)
         \/ TakePending(e) \/ SentAll(e) \/ PollTimeout(e)
  PROVE  Lifecycle'
<1>0. Router \in Ends /\ Dealers \subseteq Ends /\ thread \in [Ends -> Places]
  BY Zenon, EndFacts DEF TypeOK
<1>. USE <1>0 DEF Lifecycle, Closed
<1>2. CASE Start(e)
  BY Zenon, <1>2 DEF Start, Goto, queues, network
<1>3. CASE Stop(e)
  BY Zenon, <1>3 DEF Stop, queues, network
<1>4. CASE Join(e)
  BY Zenon, <1>4 DEF Join, Goto, queues, network
<1>5. CASE Open(e)
  BY Zenon, <1>5 DEF Open, Goto, queues
<1>6. CASE OpenFails(e)
  BY Zenon, <1>6 DEF OpenFails, Goto, queues, network
<1>7. CASE TakePending(e)
  BY Zenon, <1>7 DEF TakePending, Goto, network, TypeOK
<1>8. CASE SentAll(e)
  BY Zenon, <1>8 DEF SentAll, Goto, queues, network
<1>9. CASE PollTimeout(e)
  BY Zenon, <1>9 DEF PollTimeout, Goto, queues, network
<1>. QED
  BY Zenon, <1>2, <1>3, <1>4, <1>5, <1>6, <1>7, <1>8, <1>9

(* The end of run() keeps the lifecycle. *)
LEMMA EndLifecycle ==
  ASSUME TypeOK, Lifecycle, NEW e \in Ends, EndLoop(e) \/ Fail(e)
  PROVE  Lifecycle'
<1>0. Router \in Ends /\ Dealers \subseteq Ends /\ thread \in [Ends -> Places]
  BY Zenon, EndFacts DEF TypeOK
<1>1. CloseSocket(e) /\ thread' = [thread EXCEPT ![e] = "ended"]
  BY Zenon DEF EndLoop, Fail, Goto
<1>2. /\ open' = open \ {e}
      /\ \A d \in Dealers : link'[d] # link[d] => e = Router /\ link[d] = "up" /\ link'[d] = "down"
  BY Zenon, <1>1, CloseEffect
<1>3. \A x \in Ends : thread'[x] = IF x = e THEN "ended" ELSE thread[x]
  BY Zenon, <1>0, <1>1
<1>4. \A x \in Ends : batch'[x] = batch[x] \/ batch'[x] = <<>>
  BY Zenon DEF EndLoop, Fail, queues, TypeOK
<1>5. batch'[e] = <<>>
  BY Zenon DEF EndLoop, Fail, queues, TypeOK, Lifecycle
<1>6. \A x \in Ends : x \in open' <=> thread'[x] \in {"loop", "send", "poll"}
  BY Zenon, <1>2, <1>3 DEF Lifecycle
<1>7. \A x \in Ends : thread'[x] # "send" => batch'[x] = <<>>
  BY Zenon, <1>3, <1>4, <1>5 DEF Lifecycle
<1>8. \A d \in Dealers : link'[d] # "none" => thread'[d] \notin {"none", "open"}
  BY Zenon, <1>0, <1>2, <1>3 DEF Lifecycle
<1>9. \A d \in Dealers : link'[d] = "down" => Closed(d)' \/ Closed(Router)'
  BY Zenon, <1>0, <1>2, <1>3 DEF Lifecycle, Closed
<1>. QED
  BY Zenon, <1>6, <1>7, <1>8, <1>9 DEF Lifecycle

(* Moving messages and ZeroMQ's steps keep the lifecycle. *)
LEMMA MoveLifecycle ==
  ASSUME TypeOK, Lifecycle,
         \/ RouterSend \/ RouterDrop
         \/ \E d \in Dealers : \/ DealerSend(d) \/ DealerReceive(d)
                               \/ Connect(d) \/ Disconnect(d) \/ RouterReceive(d)
  PROVE  Lifecycle'
<1>0. Router \in Ends /\ Dealers \subseteq Ends /\ thread \in [Ends -> Places]
  BY Zenon, EndFacts DEF TypeOK
<1>. USE <1>0 DEF Lifecycle, Closed
<1>1. CASE RouterSend
  BY Zenon, <1>1 DEF RouterSend, TypeOK, control
<1>2. CASE RouterDrop
  BY Zenon, <1>2 DEF RouterDrop, TypeOK, control, network
<1>3. ASSUME NEW d \in Dealers, DealerSend(d) PROVE Lifecycle'
  BY Zenon, <1>3 DEF DealerSend, TypeOK, control
<1>4. ASSUME NEW d \in Dealers, DealerReceive(d) PROVE Lifecycle'
  BY Zenon, <1>4 DEF DealerReceive, Goto, queues
<1>5. ASSUME NEW d \in Dealers, Connect(d) PROVE Lifecycle'
  BY Zenon, <1>5 DEF Connect, TypeOK, control, queues
<1>6. ASSUME NEW d \in Dealers, Disconnect(d) PROVE Lifecycle'
  BY Zenon, <1>6 DEF Disconnect, TypeOK, control, queues, Places
<1>7. ASSUME NEW d \in Dealers, RouterReceive(d) PROVE Lifecycle'
  BY Zenon, <1>7 DEF RouterReceive, Goto
<1>. QED
  BY Zenon, <1>1, <1>2, <1>3, <1>4, <1>5, <1>6, <1>7

(* Every step keeps the lifecycle. *)
LEMMA StepLifecycle ==
  ASSUME TypeOK, Lifecycle, [Next]_vars
  PROVE  Lifecycle'
<1>1. CASE UNCHANGED vars
  BY Zenon, <1>1 DEF Lifecycle, Closed, vars, control, queues, network
<1>2. ASSUME NEW e \in Ends, NEW to \in Ends, Send(e, to) PROVE Lifecycle'
  BY Zenon, <1>2 DEF Lifecycle, Closed, Send, control, network
<1>3. CASE Next
  BY Zenon, <1>2, <1>3, Steps, OwnLifecycle, EndLifecycle, MoveLifecycle
<1>. QED
  BY Zenon, <1>1, <1>3

(* What every step leaves true: a closed end stays closed, and a dealer    *)
(* that the router has met stays known.                                    *)
LEMMA OneWay ==
  ASSUME TypeOK, Lifecycle, [Next]_vars
  PROVE  /\ \A e \in Ends : Closed(e) => Closed(e)'
         /\ \A d \in Dealers : link[d] # "none" => link'[d] # "none"
<1>0. Router \in Ends /\ Dealers \subseteq Ends /\ thread \in [Ends -> Places]
  BY Zenon, EndFacts DEF TypeOK
<1>1. CASE UNCHANGED vars
  BY Zenon, <1>1 DEF Closed, vars, control, network
<1>2. ASSUME NEW e \in Ends, NEW to \in Ends, Send(e, to)
      PROVE  thread' = thread /\ link' = link
  BY Zenon, <1>2 DEF Send, control, network
<1>3. ASSUME NEW e \in Ends,
             \/ Start(e) \/ Stop(e) \/ Join(e) \/ Open(e) \/ OpenFails(e)
             \/ TakePending(e) \/ SentAll(e) \/ PollTimeout(e)
      PROVE  /\ link' = link
             /\ \A x \in Ends : Closed(x) => Closed(x)'
  BY Zenon, <1>0, <1>3 DEF Start, Stop, Join, Open, OpenFails, TakePending, SentAll, PollTimeout,
                    Goto, Closed, network
<1>4. ASSUME NEW e \in Ends, EndLoop(e) \/ Fail(e)
      PROVE  /\ \A x \in Ends : Closed(x) => Closed(x)'
             /\ \A d \in Dealers : link[d] # "none" => link'[d] # "none"
  <2>1. CloseSocket(e) /\ thread' = [thread EXCEPT ![e] = "ended"]
    BY Zenon, <1>4 DEF EndLoop, Fail, Goto
  <2>2. \A d \in Dealers : link[d] # "none" => link'[d] # "none"
    BY Zenon, <2>1, CloseEffect
  <2>. QED
    BY Zenon, <1>0, <2>1, <2>2 DEF Closed
<1>5. CASE RouterSend \/ RouterDrop
  BY Zenon, <1>5 DEF RouterSend, RouterDrop, Closed, control, network
<1>6. ASSUME NEW d \in Dealers,
             \/ DealerSend(d) \/ DealerReceive(d) \/ Connect(d)
             \/ Disconnect(d) \/ RouterReceive(d)
      PROVE  /\ \A x \in Ends : Closed(x) => Closed(x)'
             /\ \A x \in Dealers : link[x] # "none" => link'[x] # "none"
  BY Zenon, <1>0, <1>6 DEF DealerSend, DealerReceive, Connect, Disconnect, RouterReceive, Goto,
                    Closed, control, TypeOK
<1>7. CASE Next
  <2>1. ASSUME thread' = thread, link' = link
        PROVE  /\ \A e \in Ends : Closed(e) => Closed(e)'
               /\ \A d \in Dealers : link[d] # "none" => link'[d] # "none"
    BY Zenon, <2>1 DEF Closed
  <2>. QED
    BY Zenon, <1>2, <1>3, <1>4, <1>5, <1>6, <1>7, <2>1, Steps
<1>. QED
  BY Zenon, <1>1, <1>7

-----------------------------------------------------------------------------
(* The router's queues: what a step does to them *)

Keeps ==
  /\ batch'[Router] = batch[Router] /\ outgoing'[Router] = outgoing[Router]
  /\ sent'[Router] = sent[Router] /\ dropped' = dropped

Enqueues ==
  \E m \in Messages :
    /\ m.n = Len(sent[Router]) + 1 /\ m.to \in Dealers
    /\ m.reply => link[m.to] # "none"
    /\ outgoing'[Router] = Append(outgoing[Router], m)
    /\ sent'[Router] = Append(sent[Router], m)
    /\ batch'[Router] = batch[Router] /\ dropped' = dropped

Takes ==
  /\ batch[Router] = <<>> /\ batch'[Router] = outgoing[Router]
  /\ outgoing'[Router] = <<>> /\ sent'[Router] = sent[Router] /\ dropped' = dropped

Removes ==
  /\ batch[Router] # <<>> /\ batch'[Router] = Tail(batch[Router])
  /\ outgoing'[Router] = outgoing[Router] /\ sent'[Router] = sent[Router]
  /\ \/ dropped' = dropped
     \/ /\ dropped' = dropped \cup {Head(batch[Router])}
        /\ ~Closed(Router) /\ link[Head(batch[Router]).to] # "up"

(* send() leaves the router's queues alone or adds to outgoing_. *)
LEMMA SendQueues ==
  ASSUME TypeOK, NEW e \in Ends, NEW to \in Ends, Send(e, to)
  PROVE  Keeps \/ Enqueues
<1>0. Router \in Ends
  BY Zenon, EndFacts
<1>1. CASE e = Router
  <2>1. to # Router
    BY Zenon, <1>1 DEF Send
  <2>2. to \in Dealers
    BY Zenon, <2>1, EndFacts
  <2>. DEFINE m == Message(Router, to, FALSE)
  <2>3. m \in Messages /\ m.to = to /\ m.n = Len(sent[Router]) + 1 /\ m.reply = FALSE
    BY Zenon, <1>0, MessageType
  <2>4. /\ outgoing' = [outgoing EXCEPT ![Router] = Append(outgoing[Router], m)]
        /\ sent' = [sent EXCEPT ![Router] = Append(sent[Router], m)]
        /\ batch' = batch /\ dropped' = dropped
    BY Zenon, <1>1 DEF Send
  <2>5. outgoing'[Router] = Append(outgoing[Router], m) /\ sent'[Router] = Append(sent[Router], m)
    BY Zenon, <1>0, <2>4 DEF TypeOK
  <2>. HIDE DEF m
  <2>. QED
    BY Zenon, <2>2, <2>3, <2>4, <2>5 DEF Enqueues
<1>2. CASE e # Router
  BY Zenon, <1>0, <1>2 DEF Send, Keeps, TypeOK
<1>. QED
  BY Zenon, <1>1, <1>2

(* So does the handler of a message, which may answer. *)
LEMMA ReceiveQueues ==
  ASSUME TypeOK, NEW d \in Dealers, RouterReceive(d)
  PROVE  Keeps \/ Enqueues
<1>0. Router \in Ends /\ d \in Ends
  BY Zenon, EndFacts
<1>. DEFINE m == Message(Router, d, TRUE)
<1>1. m \in Messages /\ m.to = d /\ m.n = Len(sent[Router]) + 1
  BY Zenon, <1>0, MessageType
<1>2. batch' = batch /\ dropped' = dropped /\ link[d] # "none"
  BY Zenon DEF RouterReceive
<1>3. PICK answers \in {<<>>, <<m>>} :
        /\ outgoing' = [outgoing EXCEPT ![Router] = @ \o answers]
        /\ sent' = [sent EXCEPT ![Router] = @ \o answers]
  BY Zenon DEF RouterReceive
<1>. HIDE DEF m
<1>4. outgoing[Router] \in Seq(Messages) /\ sent[Router] \in Seq(Messages)
  BY Zenon, <1>0 DEF TypeOK
<1>5. outgoing'[Router] = outgoing[Router] \o answers /\ sent'[Router] = sent[Router] \o answers
  BY Zenon, <1>0, <1>3 DEF TypeOK
<1>6. CASE answers = <<>>
  <2>1. outgoing[Router] \o answers = outgoing[Router] /\ sent[Router] \o answers = sent[Router]
    BY Zenon, <1>4, <1>6, ConcatEmptySeq
  <2>. QED
    BY Zenon, <1>2, <1>5, <2>1 DEF Keeps
<1>7. CASE answers = <<m>>
  <2>1. /\ outgoing[Router] \o answers = Append(outgoing[Router], m)
        /\ sent[Router] \o answers = Append(sent[Router], m)
    BY Zenon, <1>1, <1>4, <1>7, AppendIsConcat
  <2>. QED
    BY Zenon, <1>1, <1>2, <1>5, <2>1 DEF Enqueues
<1>. QED
  BY Zenon, <1>3, <1>6, <1>7

(* What a step does to the router's queues. *)
LEMMA StepQueues ==
  ASSUME TypeOK, Lifecycle, [Next]_vars
  PROVE  Keeps \/ Enqueues \/ Takes \/ (Removes /\ (RouterSend \/ RouterDrop))
<1>0. Router \in Ends /\ Dealers \subseteq Ends /\ Router \notin Dealers
  BY Zenon, EndFacts
<1>1. CASE UNCHANGED vars
  BY Zenon, <1>1 DEF Keeps, vars, queues, history
<1>2. ASSUME NEW e \in Ends,
             \/ Start(e) \/ Stop(e) \/ Join(e) \/ Open(e) \/ OpenFails(e)
             \/ SentAll(e) \/ PollTimeout(e)
      PROVE  Keeps
  BY Zenon, <1>2 DEF Start, Stop, Join, Open, OpenFails, SentAll, PollTimeout, Keeps, queues, history
<1>3. ASSUME NEW e \in Ends, TakePending(e) PROVE Keeps \/ Takes
  <2>1. CASE e = Router
    BY Zenon, <1>0, <1>3, <2>1 DEF TakePending, Takes, history, TypeOK, Lifecycle
  <2>2. CASE e # Router
    BY Zenon, <1>0, <1>3, <2>2 DEF TakePending, Keeps, history, TypeOK
  <2>. QED
    BY Zenon, <2>1, <2>2
<1>4. ASSUME NEW e \in Ends, EndLoop(e) PROVE Keeps
  BY Zenon, <1>4 DEF EndLoop, Keeps, queues, history
<1>5. ASSUME NEW e \in Ends, Fail(e) PROVE Keeps
  <2>1. outgoing' = outgoing /\ sent' = sent /\ dropped' = dropped
    BY Zenon, <1>5 DEF Fail, history
  <2>2. batch'[Router] = batch[Router]
    BY Zenon, <1>0, <1>5 DEF Fail, TypeOK, Lifecycle
  <2>. QED
    BY Zenon, <2>1, <2>2 DEF Keeps
<1>6. ASSUME RouterSend PROVE Removes
  BY Zenon, <1>0, <1>6 DEF RouterSend, Removes, TypeOK, history
<1>7. ASSUME RouterDrop PROVE Removes
  BY Zenon, <1>0, <1>7 DEF RouterDrop, Removes, Routable, Closed, TypeOK
<1>8. ASSUME NEW d \in Dealers,
             \/ DealerSend(d) \/ DealerReceive(d) \/ Connect(d) \/ Disconnect(d)
      PROVE  Keeps
  <2>1. d # Router
    BY Zenon, <1>0
  <2>2. CASE DealerSend(d)
    BY Zenon, <2>1, <2>2, <1>0 DEF DealerSend, Keeps, TypeOK, history
  <2>3. CASE DealerReceive(d) \/ Connect(d) \/ Disconnect(d)
    BY Zenon, <2>3 DEF DealerReceive, Connect, Disconnect, Keeps, queues, history
  <2>. QED
    BY Zenon, <1>8, <2>2, <2>3
<1>9. CASE Next
  BY Zenon, <1>2, <1>3, <1>4, <1>5, <1>6, <1>7, <1>8, <1>9, Steps, SendQueues, ReceiveQueues
<1>. QED
  BY Zenon, <1>1, <1>9

(* The lengths of the router's queues add up to what it was given. *)
LEMMA QueueFacts ==
  ASSUME TypeOK, Queued
  PROVE  /\ sent[Router] \in Seq(Messages) /\ Len(sent[Router]) \in Nat
         /\ batch[Router] \in Seq(Messages) /\ Len(batch[Router]) \in Nat
         /\ outgoing[Router] \in Seq(Messages) /\ Len(outgoing[Router]) \in Nat
         /\ Handled \in Nat
         /\ Handled + Len(batch[Router]) + Len(outgoing[Router]) = Len(sent[Router])
<1>1. /\ sent[Router] \in Seq(Messages) /\ Len(sent[Router]) \in Nat
      /\ batch[Router] \in Seq(Messages) /\ Len(batch[Router]) \in Nat
      /\ outgoing[Router] \in Seq(Messages) /\ Len(outgoing[Router]) \in Nat
  BY Zenon, EndFacts, LenProperties DEF TypeOK
<1>2. Handled >= 0
  BY Zenon DEF Queued
<1>3. Handled = Len(sent[Router]) - Len(batch[Router]) - Len(outgoing[Router])
  BY Zenon DEF Handled
<1>4. /\ Handled \in Int
      /\ Handled + Len(batch[Router]) + Len(outgoing[Router]) = Len(sent[Router])
  BY <1>1, <1>3
<1>5. Handled \in Nat
  BY <1>2, <1>4
<1>. QED
  BY Zenon, <1>1, <1>4, <1>5

(* Places in three stretches laid end to end are places in the whole: what *)
(* the router has handled, what its loop has taken and what is still queued. *)
LEMMA Stretches ==
  \A h, b, o, s \in Nat :
    h + b + o = s => /\ \A i \in 1..b : h + i \in 1..s
                     /\ \A i \in 1..o : h + b + i \in 1..s
                     /\ 1..h \subseteq 1..s
  OBVIOUS

(* Every step keeps answers routable. *)
LEMMA StepAnswering ==
  ASSUME TypeOK, TypeOK', Lifecycle, Answering, Queued, [Next]_vars
  PROVE  Answering'
<1>0. Router \in Ends /\ Dealers \subseteq Ends
  BY Zenon, EndFacts
<1>. DEFINE B == batch[Router]
            O == outgoing[Router]
            Met(q) == \A i \in 1..Len(q) : q[i].reply => link'[q[i].to] # "none"
<1>1. B \in Seq(Messages) /\ O \in Seq(Messages) /\ Len(B) \in Nat /\ Len(O) \in Nat
  BY Zenon, <1>0, LenProperties DEF TypeOK
<1>2. /\ \A e \in Ends : Closed(e) => Closed(e)'
      /\ \A d \in Dealers : link[d] # "none" => link'[d] # "none"
  BY Zenon, OneWay
<1>3. /\ \A i \in 1..Len(B) : B[i].to \in Dealers
      /\ \A i \in 1..Len(O) : O[i].to \in Dealers
      /\ \A m \in dropped : m.to \in Dealers
  <2>1. sent[Router] \in Seq(Messages) /\ Len(sent[Router]) \in Nat
    BY Zenon, <1>0, LenProperties DEF TypeOK
  <2>2. Handled \in Nat /\ Handled + Len(B) + Len(O) = Len(sent[Router])
    BY Zenon, QueueFacts
  <2>3. /\ \A i \in 1..Len(B) : Handled + i \in 1..Len(sent[Router])
        /\ \A i \in 1..Len(O) : Handled + Len(B) + i \in 1..Len(sent[Router])
        /\ 1..Handled \subseteq 1..Len(sent[Router])
    BY Zenon, <1>1, <2>1, <2>2, Stretches
  <2>. QED
    BY Zenon, <2>3 DEF Queued
<1>4. Met(B) /\ Met(O)
  BY Zenon, <1>2, <1>3 DEF Answering
<1>5. \A m \in dropped : m.reply => Closed(m.to)'
  BY Zenon, <1>0, <1>2, <1>3 DEF Answering
<1>6. ASSUME Met(batch'[Router]), Met(outgoing'[Router]),
             \A m \in dropped' : m.reply => Closed(m.to)'
      PROVE  Answering'
  BY Zenon, <1>6 DEF Answering
<1>7. CASE Keeps
  BY Zenon, <1>4, <1>5, <1>6, <1>7 DEF Keeps
<1>8. CASE Enqueues
  <2>1. PICK m \in Messages :
          /\ m.n = Len(sent[Router]) + 1 /\ m.to \in Dealers
          /\ m.reply => link[m.to] # "none"
          /\ outgoing'[Router] = Append(O, m)
          /\ batch'[Router] = B /\ dropped' = dropped
    BY Zenon, <1>8 DEF Enqueues
  <2>2. /\ Len(Append(O, m)) = Len(O) + 1
        /\ \A i \in 1..Len(O) : Append(O, m)[i] = O[i]
        /\ Append(O, m)[Len(O) + 1] = m
    BY <1>1, AppendProperties
  <2>3. \A i \in 1..Len(O) + 1 : i \in 1..Len(O) \/ i = Len(O) + 1
    BY <1>1
  <2>4. Met(Append(O, m))
    BY SMTT(30), <1>2, <1>4, <2>1, <2>2, <2>3
  <2>. QED
    BY Zenon, <1>4, <1>5, <1>6, <2>1, <2>4
<1>9. CASE Takes
  <2>1. Met(<<>>)
    BY EmptySeq
  <2>. QED
    BY Zenon, <1>4, <1>5, <1>6, <1>9, <2>1 DEF Takes
<1>10. CASE Removes
  <2>1. B # <<>> /\ batch'[Router] = Tail(B) /\ outgoing'[Router] = O
    BY Zenon, <1>10 DEF Removes
  <2>2. /\ Len(Tail(B)) = Len(B) - 1 /\ Len(B) > 0
        /\ \A i \in 1..Len(Tail(B)) : Tail(B)[i] = B[i + 1]
    BY SMTT(30), <1>1, <2>1, HeadTailProperties, EmptySeq
  <2>3. \A i \in 1..Len(B) - 1 : i + 1 \in 1..Len(B)
    BY <1>1
  <2>4. Met(Tail(B))
    BY Zenon, <1>4, <2>2, <2>3
  <2>5. Head(B) = B[1] /\ 1 \in 1..Len(B)
    BY SMTT(30), <1>1, <2>1, <2>2
  <2>6. CASE dropped' = dropped
    BY Zenon, <1>4, <1>5, <1>6, <2>1, <2>4, <2>6
  <2>7. CASE dropped' = dropped \cup {Head(B)} /\ ~Closed(Router) /\ link[Head(B).to] # "up"
    <3>1. ASSUME NEW m, m = B[1], m.reply PROVE Closed(m.to)'
      <4>1. m.to \in Dealers /\ link[m.to] # "none" /\ link[m.to] # "up"
        BY Zenon, <1>3, <2>5, <2>7, <3>1 DEF Answering
      <4>2. link[m.to] = "down"
        BY Zenon, <4>1 DEF TypeOK
      <4>3. Closed(m.to)
        BY Zenon, <2>7, <4>1, <4>2 DEF Lifecycle
      <4>. QED
        BY Zenon, <1>0, <1>2, <4>1, <4>3
    <3>2. \A m \in dropped' : m.reply => Closed(m.to)'
      BY Zenon, <1>5, <2>5, <2>7, <3>1
    <3>. QED
      BY Zenon, <1>4, <1>6, <2>1, <2>4, <3>2
  <2>. QED
    BY Zenon, <1>10, <2>6, <2>7 DEF Removes
<1>. QED
  BY Zenon, <1>7, <1>8, <1>9, <1>10, StepQueues

(* Positions in three sequences that follow each other. *)
LEMMA FirstPlace ==
  ASSUME NEW s \in Nat, NEW h \in Nat, NEW b \in Nat, NEW o \in Nat, h + b + o = s,
         NEW i \in 1..h
  PROVE  i \in 1..s /\ i \in 1..h + 1
OBVIOUS

(* Places of the batch among all messages. *)
LEMMA MiddlePlace ==
  ASSUME NEW s \in Nat, NEW h \in Nat, NEW b \in Nat, NEW o \in Nat, h + b + o = s,
         NEW i \in 1..b
  PROVE  h + i \in 1..s
OBVIOUS

(* Places of outgoing_ among all messages. *)
LEMMA LastPlace ==
  ASSUME NEW s \in Nat, NEW h \in Nat, NEW b \in Nat, NEW o \in Nat, h + b + o = s,
         NEW i \in 1..o
  PROVE  h + b + i \in 1..s
OBVIOUS

(* The place after the last. *)
LEMMA NextPlace == \A h, b, o \in Int : h + b + (o + 1) = h + b + o + 1
OBVIOUS

(* The number handled when the batch loses one. *)
LEMMA ShiftLength == \A s, b, o \in Int : s - (b - 1) - o = s - b - o + 1
OBVIOUS

(* The place in outgoing_ when the batch loses one. *)
LEMMA ShiftPlace == \A h, b, i \in Int : h + 1 + (b - 1) + i = h + b + i
OBVIOUS

(* The numbers up to k + 1. *)
LEMMA OneMore ==
  ASSUME NEW k \in Nat
  PROVE  /\ \A i \in 1..k + 1 : i \in 1..k \/ i = k + 1
         /\ \A i \in 1..k : i \in 1..k + 1
         /\ k + 1 \in 1..k + 1 /\ k \leq k + 1
OBVIOUS

(* The history only grows. *)
Extends == Len(sent[Router]) <= Len(sent'[Router])
           /\ \A i \in 1..Len(sent[Router]) : sent'[Router][i] = sent[Router][i]

(* Steps that leave the router's queues alone keep them numbered. *)
LEMMA KeepsQueued ==
  ASSUME TypeOK, Queued, Keeps
  PROVE  Queued' /\ Extends /\ Handled' = Handled
<1>1. Len(sent[Router]) <= Len(sent[Router])
  BY QueueFacts
<1>2. Extends /\ Handled' = Handled
  BY Zenon, <1>1 DEF Handled, Keeps, Extends
<1>. QED
  BY Zenon, <1>2 DEF Queued, Keeps

(* So does a message that joins outgoing_. *)
LEMMA EnqueuesQueued ==
  ASSUME TypeOK, Queued, Enqueues
  PROVE  Queued' /\ Extends /\ Handled' = Handled
<1>. DEFINE S == sent[Router]
            B == batch[Router]
            O == outgoing[Router]
<1>0. S \in Seq(Messages) /\ B \in Seq(Messages) /\ O \in Seq(Messages)
  BY Zenon, QueueFacts
<1>1. /\ Len(S) \in Nat /\ Len(B) \in Nat /\ Len(O) \in Nat /\ Handled \in Nat
      /\ Handled + Len(B) + Len(O) = Len(S)
  BY Zenon, QueueFacts
<1>2. PICK m \in Messages :
        /\ m.n = Len(S) + 1 /\ m.to \in Dealers
        /\ outgoing'[Router] = Append(O, m) /\ sent'[Router] = Append(S, m)
        /\ batch'[Router] = B /\ dropped' = dropped
  BY Zenon DEF Enqueues
<1>3. /\ Len(Append(O, m)) = Len(O) + 1 /\ Append(O, m)[Len(O) + 1] = m
      /\ \A i \in 1..Len(O) : Append(O, m)[i] = O[i]
      /\ Len(Append(S, m)) = Len(S) + 1 /\ Append(S, m)[Len(S) + 1] = m
      /\ \A i \in 1..Len(S) : Append(S, m)[i] = S[i]
  BY SMTT(30), <1>0, AppendProperties
<1>4. Handled' = Handled
  BY SMTT(30), <1>1, <1>2, <1>3 DEF Handled
<1>5. Extends
  BY SMTT(30), <1>1, <1>2, <1>3 DEF Extends
<1>6. ASSUME NEW i \in 1..Len(sent'[Router])
      PROVE  sent'[Router][i].n = i /\ sent'[Router][i].to \in Dealers
  <2>1. i \in 1..Len(S) \/ i = Len(S) + 1
    BY SMTT(30), <1>1, <1>2, <1>3
  <2>. QED
    BY SMTT(30), <1>2, <1>3, <2>1 DEF Queued
<1>7. ASSUME NEW i \in 1..Len(B)
      PROVE  batch'[Router][i] = sent'[Router][Handled' + i]
  <2>1. Handled + i \in 1..Len(S)
    BY Zenon, <1>1, MiddlePlace
  <2>. QED
    BY Zenon, <1>2, <1>3, <1>4, <2>1 DEF Queued
<1>8. ASSUME NEW i \in 1..Len(outgoing'[Router])
      PROVE  outgoing'[Router][i] = sent'[Router][Handled' + Len(B) + i]
  <2>1. CASE i \in 1..Len(O)
    <3>1. Handled + Len(B) + i \in 1..Len(S)
      BY ZenonT(40), <1>1, <2>1, LastPlace
    <3>. QED
      BY Zenon, <1>2, <1>3, <1>4, <2>1, <3>1 DEF Queued
  <2>2. CASE i = Len(O) + 1
    <3>1. Handled \in Int /\ Len(B) \in Int /\ Len(O) \in Int
      BY <1>1
    <3>2. Handled + Len(B) + (Len(O) + 1) = Handled + Len(B) + Len(O) + 1
      BY <3>1, NextPlace, Zenon
    <3>3. Handled + Len(B) + i = Len(S) + 1
      BY <1>1, <2>2, <3>2, ZenonT(40)
    <3>. QED
      BY Zenon, <1>2, <1>3, <1>4, <2>2, <3>3
  <2>. QED
    BY ZenonT(40), <1>1, <1>2, <1>3, <2>1, <2>2, OneMore
<1>9. ASSUME NEW w \in dropped'
      PROVE  w.n \in 1..Handled' /\ w = sent'[Router][w.n]
  <2>1. w.n \in 1..Handled /\ w = S[w.n]
    BY Zenon, <1>2 DEF Queued
  <2>2. w.n \in 1..Len(S)
    BY Zenon, <1>1, <2>1, FirstPlace
  <2>. QED
    BY Zenon, <1>2, <1>3, <1>4, <2>1, <2>2
<1>10. Handled' >= 0
  BY <1>1, <1>4
<1>. QED
  BY ZenonT(40), <1>2, <1>4, <1>5, <1>6, <1>7, <1>8, <1>9, <1>10 DEF Queued

(* So does send_pending taking over outgoing_. *)
LEMMA TakesQueued ==
  ASSUME TypeOK, Queued, Takes
  PROVE  Queued' /\ Extends /\ Handled' = Handled
<1>. DEFINE S == sent[Router]
            O == outgoing[Router]
<1>1. /\ Len(S) \in Nat /\ Len(O) \in Nat /\ Handled \in Nat
      /\ batch[Router] = <<>> /\ Len(<<>>) = 0
      /\ batch'[Router] = O /\ outgoing'[Router] = <<>> /\ sent'[Router] = S /\ dropped' = dropped
  BY Zenon, QueueFacts, EmptySeq DEF Takes
<1>2. Handled' = Handled
  BY <1>1 DEF Handled
<1>3. Extends
  BY <1>1 DEF Extends
<1>4. \A i \in 1..Len(O) : O[i] = S[Handled + 0 + i] /\ Handled + 0 + i = Handled + i
  BY <1>1 DEF Queued
<1>5. /\ \A i \in 1..Len(S) : S[i].n = i /\ S[i].to \in Dealers
      /\ \A m \in dropped : m.n \in 1..Handled /\ m = S[m.n]
      /\ Handled >= 0
  BY Zenon DEF Queued
<1>. QED
  BY SMTT(30), <1>1, <1>2, <1>3, <1>4, <1>5 DEF Queued

(* So does a message that leaves the batch, which is the next in order. *)
LEMMA RemovesQueued ==
  ASSUME TypeOK, Queued, Removes
  PROVE  /\ Queued' /\ Extends /\ Handled' = Handled + 1
         /\ Handled + 1 \in 1..Len(sent[Router])
         /\ Head(batch[Router]) = sent[Router][Handled + 1]
<1>. DEFINE S == sent[Router]
            B == batch[Router]
            O == outgoing[Router]
<1>0. S \in Seq(Messages) /\ B \in Seq(Messages) /\ O \in Seq(Messages)
  BY Zenon, QueueFacts
<1>1. /\ Len(S) \in Nat /\ Len(B) \in Nat /\ Len(O) \in Nat /\ Handled \in Nat
      /\ Handled + Len(B) + Len(O) = Len(S)
  BY Zenon, QueueFacts
<1>2. /\ B # <<>> /\ batch'[Router] = Tail(B) /\ outgoing'[Router] = O /\ sent'[Router] = S
      /\ dropped' \subseteq dropped \cup {Head(B)}
  BY Zenon DEF Removes
<1>3. /\ Len(Tail(B)) = Len(B) - 1 /\ Len(B) > 0 /\ Head(B) = B[1]
      /\ \A i \in 1..Len(Tail(B)) : Tail(B)[i] = B[i + 1]
  BY SMTT(30), <1>0, <1>2, HeadTailProperties, EmptySeq
<1>4. Handled' = Handled + 1
  <2>1. Len(S) - (Len(B) - 1) - Len(O) = Len(S) - Len(B) - Len(O) + 1
    <3>1. Len(S) \in Int /\ Len(B) \in Int /\ Len(O) \in Int
      BY <1>1
    <3>. QED
      BY <3>1, ShiftLength, Zenon
  <2>. QED
    BY <1>2, <1>3, <2>1, Zenon DEF Handled
<1>5. Extends
  BY <1>1, <1>2 DEF Extends
<1>6. Handled + 1 \in 1..Len(S) /\ 1 \in 1..Len(B)
  BY <1>1, <1>3
<1>7. Head(B) = S[Handled + 1] /\ Head(B).n = Handled + 1
  BY Zenon, <1>3, <1>6 DEF Queued
<1>8. ASSUME NEW i \in 1..Len(batch'[Router])
      PROVE  batch'[Router][i] = sent'[Router][Handled' + i]
  <2>1. i + 1 \in 1..Len(B) /\ Handled + (i + 1) = Handled + 1 + i
    BY SMTT(30), <1>1, <1>2, <1>3
  <2>2. B[i + 1] = S[Handled + (i + 1)]
    BY Zenon, <2>1 DEF Queued
  <2>. QED
    BY Zenon, <1>2, <1>3, <1>4, <2>1, <2>2
<1>9. ASSUME NEW i \in 1..Len(O)
      PROVE  O[i] = S[Handled' + Len(batch'[Router]) + i]
  <2>1. Handled + 1 + (Len(B) - 1) + i = Handled + Len(B) + i
    <3>1. i \in Int /\ Handled \in Int /\ Len(B) \in Int
      BY <1>1
    <3>. QED
      BY <3>1, ShiftPlace, Zenon
  <2>. QED
    BY SMTT(30), <1>2, <1>3, <1>4, <2>1 DEF Queued
<1>10. ASSUME NEW w \in dropped'
       PROVE  w.n \in 1..Handled' /\ w = S[w.n]
  <2>1. CASE w \in dropped
    <3>1. w.n \in 1..Handled /\ w = S[w.n]
      BY Zenon, <2>1 DEF Queued
    <3>. QED
      BY <1>1, <1>4, <3>1
  <2>2. CASE w = Head(B)
    <3>1. Handled + 1 \in 1..Handled'
      BY <1>1, <1>4
    <3>. QED
      BY Zenon, <1>7, <2>2, <3>1
  <2>. QED
    BY Zenon, <1>2, <2>1, <2>2
<1>11. Handled' >= 0 /\ \A i \in 1..Len(S) : S[i].n = i /\ S[i].to \in Dealers
  BY <1>1, <1>4 DEF Queued
<1>. QED
  BY Zenon, <1>2, <1>4, <1>5, <1>6, <1>7, <1>8, <1>9, <1>10, <1>11 DEF Queued

-----------------------------------------------------------------------------
(* What has arrived at a dealer: what a step does to it *)

Shrinks(d) ==
  /\ Len(Arrived(d)') <= Len(Arrived(d))
  /\ \A i \in 1..Len(Arrived(d)') : Arrived(d)'[i] = Arrived(d)[i]
  /\ ~Closed(d)' /\ ~Closed(Router)' => Len(Arrived(d)') = Len(Arrived(d))
  /\ Closed(d) => got'[d] = got[d]

(* What has arrived are messages. *)
LEMMA ArrivedType ==
  ASSUME TypeOK, NEW d \in Dealers
  PROVE  Arrived(d) \in Seq(Messages) /\ Len(Arrived(d)) \in Nat
<1>1. Arrived(d) \in Seq(Messages)
  BY Zenon, ConcatProperties DEF TypeOK, Arrived
<1>. QED
  BY Zenon, <1>1, LenProperties

(* Nothing arrives at a dealer that is left alone. *)
LEMMA SameShrinks ==
  ASSUME TypeOK, NEW d \in Dealers, got'[d] = got[d], down'[d] = down[d]
  PROVE  Shrinks(d)
<1>1. Arrived(d)' = Arrived(d)
  BY Zenon DEF Arrived
<1>2. Len(Arrived(d)) <= Len(Arrived(d))
  BY ArrivedType
<1>. QED
  BY Zenon, <1>1, <1>2 DEF Shrinks

(* A close may cut off the end of what is in the pipe. *)
LEMMA PartShrinks ==
  ASSUME TypeOK, NEW d \in Dealers, got'[d] = got[d],
         NEW k \in 0..Len(down[d]), down'[d] = SubSeq(down[d], 1, k),
         Closed(d)' \/ Closed(Router)'
  PROVE  Shrinks(d)
<1>. DEFINE g == got[d]
            w == down[d]
            v == SubSeq(w, 1, k)
<1>1. g \in Seq(Messages) /\ w \in Seq(Messages) /\ Len(g) \in Nat /\ Len(w) \in Nat
  BY Zenon, LenProperties DEF TypeOK
<1>2. v \in Seq(Messages) /\ Len(v) = k /\ \A i \in 1..k : v[i] = w[i]
  BY Zenon, <1>1, FirstPart
<1>8. k \in Nat /\ k <= Len(w)
  BY <1>1
<1>9. Arrived(d)' = g \o v /\ Arrived(d) = g \o w
  BY Zenon DEF Arrived
<1>. HIDE DEF g, w, v
<1>3. /\ Len(g \o w) = Len(g) + Len(w)
      /\ \A i \in 1..Len(g) + Len(w) : (g \o w)[i] = IF i <= Len(g) THEN g[i] ELSE w[i - Len(g)]
  BY Zenon, <1>1, ConcatProperties
<1>4. /\ Len(g \o v) = Len(g) + k
      /\ \A i \in 1..Len(g) + k : (g \o v)[i] = IF i <= Len(g) THEN g[i] ELSE v[i - Len(g)]
  BY Zenon, <1>1, <1>2, ConcatProperties
<1>5. Len(g \o v) <= Len(g \o w)
  BY SMTT(30), <1>1, <1>3, <1>4, <1>8
<1>6. ASSUME NEW i \in 1..Len(g \o v) PROVE (g \o v)[i] = (g \o w)[i]
  <2>1. i \in 1..Len(g) + k /\ i \in 1..Len(g) + Len(w)
    BY <1>1, <1>4, <1>8
  <2>2. i <= Len(g) \/ i - Len(g) \in 1..k
    BY <1>1, <1>8, <2>1
  <2>. QED
    BY Zenon, <1>2, <1>3, <1>4, <2>1, <2>2
<1>7. Closed(d) => got'[d] = got[d]
  BY Zenon
<1>. QED
  BY Zenon, <1>5, <1>6, <1>7, <1>9 DEF Shrinks

(* A dealer that receives takes from its own pipe. *)
LEMMA ReceiveShrinks ==
  ASSUME TypeOK, NEW d \in Dealers, DealerReceive(d)
  PROVE  \A x \in Dealers : Shrinks(x)
<1>1. /\ thread[d] = "poll" /\ down[d] # <<>>
      /\ got' = [got EXCEPT ![d] = Append(got[d], Head(down[d]))]
      /\ down' = [down EXCEPT ![d] = Tail(down[d])]
  BY Zenon DEF DealerReceive
<1>2. ASSUME NEW x \in Dealers, x # d PROVE Shrinks(x)
  <2>1. got'[x] = got[x] /\ down'[x] = down[x]
    BY Zenon, <1>1, <1>2 DEF TypeOK
  <2>. QED
    BY Zenon, <2>1, SameShrinks
<1>3. Shrinks(d)
  <2>0. got[d] \in Seq(Messages) /\ down[d] \in Seq(Messages)
    BY Zenon DEF TypeOK
  <2>1. got'[d] = Append(got[d], Head(down[d])) /\ down'[d] = Tail(down[d])
    BY Zenon, <1>1 DEF TypeOK
  <2>2. Append(got[d], Head(down[d])) \o Tail(down[d]) = got[d] \o down[d]
    BY Zenon, <1>1, <2>0, MoveHead
  <2>3. Arrived(d)' = Arrived(d)
    BY Zenon, <2>1, <2>2 DEF Arrived
  <2>4. ~Closed(d) /\ Len(Arrived(d)) <= Len(Arrived(d))
    BY <1>1, ArrivedType DEF Closed
  <2>. QED
    BY Zenon, <2>3, <2>4 DEF Shrinks
<1>. QED
  BY Zenon, <1>2, <1>3

(* The end of a run() adds nothing to the pipes. *)
LEMMA EndShrinks ==
  ASSUME TypeOK, NEW e \in Ends, EndLoop(e) \/ Fail(e), NEW d \in Dealers
  PROVE  Shrinks(d)
<1>1. CloseSocket(e) /\ thread' = [thread EXCEPT ![e] = "ended"] /\ got' = got
  BY Zenon DEF EndLoop, Fail, Goto, history
<1>2. thread'[e] = "ended"
  BY Zenon, <1>1 DEF TypeOK
<1>3. /\ e \notin {d, Router} => down'[d] = down[d]
      /\ \E k \in 0..Len(down[d]) : down'[d] = SubSeq(down[d], 1, k)
  BY Zenon, <1>1, CloseEffect
<1>4. CASE e \notin {d, Router}
  BY Zenon, <1>1, <1>3, <1>4, SameShrinks
<1>5. CASE e \in {d, Router}
  <2>1. Closed(d)' \/ Closed(Router)'
    BY Zenon, <1>2, <1>5 DEF Closed
  <2>. QED
    BY Zenon, <1>1, <1>3, <2>1, PartShrinks
<1>. QED
  BY Zenon, <1>4, <1>5

(* A disconnect adds nothing to the pipes. *)
LEMMA DisconnectShrinks ==
  ASSUME TypeOK, Lifecycle, NEW d \in Dealers, Disconnect(d), NEW x \in Dealers
  PROVE  Shrinks(x)
<1>1. /\ d \notin open /\ link[d] = "up" /\ down' = [down EXCEPT ![d] = <<>>]
      /\ got' = got /\ thread' = thread
  BY Zenon DEF Disconnect, control, history
<1>2. CASE x # d
  <2>1. got'[x] = got[x] /\ down'[x] = down[x]
    BY Zenon, <1>1, <1>2 DEF TypeOK
  <2>. QED
    BY Zenon, <2>1, SameShrinks
<1>3. CASE x = d
  <2>1. d \in Ends
    BY Zenon, EndFacts
  <2>2. Closed(d)'
    BY Zenon, <1>1, <2>1 DEF Lifecycle, TypeOK, Places, Closed
  <2>3. down[d] \in Seq(Messages) /\ Len(down[d]) \in Nat
    BY Zenon, LenProperties DEF TypeOK
  <2>4. 0 \in 0..Len(down[d])
    BY <2>3
  <2>5. SubSeq(down[d], 1, 0) = <<>>
    BY SubSeqEmpty
  <2>6. down'[d] = SubSeq(down[d], 1, 0)
    BY Zenon, <1>1, <2>5 DEF TypeOK
  <2>. QED
    BY Zenon, <1>1, <1>3, <2>2, <2>4, <2>6, PartShrinks
<1>. QED
  BY Zenon, <1>2, <1>3

(* Only the router's send makes a message arrive. *)
LEMMA StepArrived ==
  ASSUME TypeOK, Lifecycle, [Next]_vars, ~RouterSend, NEW d \in Dealers
  PROVE  Shrinks(d)
<1>1. ASSUME got' = got, down' = down PROVE Shrinks(d)
  BY Zenon, <1>1, SameShrinks
<1>2. CASE UNCHANGED vars
  BY Zenon, <1>1, <1>2 DEF vars, network, history
<1>3. ASSUME NEW e \in Ends,
             \/ Start(e) \/ Stop(e) \/ Join(e) \/ Open(e) \/ OpenFails(e)
             \/ TakePending(e) \/ SentAll(e) \/ PollTimeout(e)
             \/ \E to \in Ends : Send(e, to)
      PROVE  got' = got /\ down' = down
  BY Zenon, <1>3 DEF Start, Stop, Join, Open, OpenFails, TakePending, SentAll, PollTimeout, Send,
              network, history
<1>4. ASSUME NEW x \in Dealers, DealerSend(x) \/ Connect(x) \/ RouterReceive(x)
      PROVE  got' = got /\ down' = down
  BY Zenon, <1>4 DEF DealerSend, Connect, RouterReceive, history
<1>5. CASE RouterDrop
  BY Zenon, <1>1, <1>5 DEF RouterDrop, network
<1>6. CASE Next
  BY Zenon, <1>1, <1>3, <1>4, <1>5, <1>6, Steps, ReceiveShrinks, EndShrinks, DisconnectShrinks
<1>. QED
  BY Zenon, <1>2, <1>6

(* Every step keeps the router's queues numbered. *)
LEMMA StepQueued ==
  ASSUME TypeOK, Lifecycle, Queued, [Next]_vars
  PROVE  Queued'
BY Zenon, StepQueues, KeepsQueued, EnqueuesQueued, TakesQueued, RemovesQueued

-----------------------------------------------------------------------------
(* The messages from the router *)

(* The router's earlier messages stay what they were, and what it is done  *)
(* with since is not for d.                                                *)
Steady(d) ==
  /\ 1..Handled \subseteq 1..Handled'
  /\ \A n \in 1..Handled : sent'[Router][n] = sent[Router][n] /\ (For(d, n)' <=> For(d, n))
  /\ \A n \in 1..Handled' : For(d, n)' => n \in 1..Handled

(* A dealer for which nothing new is handled keeps what is said of its     *)
(* messages.                                                               *)
LEMMA SteadyDealer ==
  ASSUME TypeOK, TypeOK', Queued, NEW d \in Dealers, Steady(d), Shrinks(d),
         Closed(d) => Closed(d)', Closed(Router) => Closed(Router)',
         Genuine(d), InOrder(d), Complete(d), NoGap(d)
  PROVE  (Genuine(d) /\ InOrder(d) /\ Complete(d) /\ NoGap(d))'
<1>. DEFINE A == Arrived(d)
<1>0. Len(A) \in Nat /\ Len(A') \in Nat
  <2>1. ASSUME TypeOK PROVE Len(Arrived(d)) \in Nat
    BY Zenon, ArrivedType
  <2>2. Len(Arrived(d)') \in Nat
    <3>1. (got[d] \o down[d])' \in Seq(Messages)
      BY Zenon, ConcatProperties DEF TypeOK
    <3>. QED
      BY Zenon, <3>1, LenProperties DEF Arrived
  <2>. QED
    BY Zenon, <2>1, <2>2
<1>1. /\ Len(A') <= Len(A)
      /\ \A i \in 1..Len(A') : A'[i] = A[i]
      /\ ~Closed(d)' /\ ~Closed(Router)' => Len(A') = Len(A)
      /\ Closed(d) => got'[d] = got[d]
  BY Zenon DEF Shrinks
<1>2. \A i \in 1..Len(A') : i \in 1..Len(A)
  BY <1>0, <1>1
<1>3. Genuine(d)'
  BY <1>1, <1>2 DEF Genuine, Steady
<1>4. InOrder(d)'
  BY Zenon, <1>1, <1>2 DEF InOrder
<1>5. Complete(d)'
  BY Zenon, <1>1, <1>2 DEF Complete, Steady
<1>6. NoGap(d)'
  <2>. SUFFICES ASSUME NEW i \in 1..Len(A'), ~Closed(d)' \/ i <= Len(got'[d]),
                       NEW n \in 1..A'[i].n, For(d, n)'
                PROVE  \E j \in 1..i : A'[j] = sent'[Router][n]
    BY Zenon DEF NoGap
  <2>1. i \in 1..Len(A) /\ A'[i] = A[i] /\ (~Closed(d) \/ i <= Len(got[d]))
    BY Zenon, <1>1, <1>2
  <2>2. n \in 1..Handled
    <3>1. A[i].n \in 1..Handled
      BY Zenon, <2>1 DEF Genuine
    <3>2. Handled \in Nat
      BY Zenon, QueueFacts
    <3>. QED
      BY SMTT(30), <2>1, <3>1, <3>2
  <2>3. For(d, n) /\ sent'[Router][n] = sent[Router][n]
    BY Zenon, <2>2 DEF Steady
  <2>4. PICK j \in 1..i : A[j] = sent[Router][n]
    BY Zenon, <2>1, <2>3 DEF NoGap
  <2>5. j \in 1..Len(A')
    BY <1>0
  <2>. QED
    BY Zenon, <1>1, <2>3, <2>4, <2>5
<1>. QED
  BY Zenon, <1>3, <1>4, <1>5, <1>6

(* Steps that handle no message are steady for every dealer. *)
LEMMA QuietSteady ==
  ASSUME TypeOK, TypeOK', Queued, Extends, Handled' = Handled, dropped' = dropped, NEW d \in Dealers
  PROVE  Steady(d)
<1>1. \A n \in 1..Handled : n \in 1..Len(sent[Router])
  BY Zenon, QueueFacts, FirstPlace
<1>2. \A n \in 1..Handled : sent'[Router][n] = sent[Router][n]
  BY Zenon, <1>1 DEF Extends
<1>3. \A n \in 1..Handled : For(d, n)' <=> For(d, n)
  BY Zenon, <1>2 DEF For
<1>. QED
  BY Zenon, <1>2, <1>3 DEF Steady

(* The message at the head of the batch, when it leaves. *)
LEMMA HeadFacts ==
  ASSUME TypeOK, Queued, Removes
  PROVE  /\ Handled \in Nat /\ Handled' = Handled + 1
         /\ Head(batch[Router]) = sent[Router][Handled + 1]
         /\ Head(batch[Router]).n = Handled + 1
         /\ Head(batch[Router]).to \in Dealers
         /\ sent'[Router] = sent[Router]
         /\ \A n \in 1..Handled : sent[Router][n] # Head(batch[Router])
         /\ Head(batch[Router]) \notin dropped
         /\ 1..Handled \subseteq 1..Handled'
         /\ \A n \in 1..Handled' : n \in 1..Handled \/ n = Handled + 1
<1>1. /\ Handled' = Handled + 1 /\ Handled + 1 \in 1..Len(sent[Router])
      /\ Head(batch[Router]) = sent[Router][Handled + 1]
  BY Zenon, RemovesQueued
<1>2. Handled \in Nat
  BY Zenon, QueueFacts
<1>3. Head(batch[Router]).n = Handled + 1 /\ Head(batch[Router]).to \in Dealers
  BY Zenon, <1>1 DEF Queued
<1>4. \A n \in 1..Handled : n \in 1..Len(sent[Router])
  BY Zenon, QueueFacts, FirstPlace
<1>5. \A n \in 1..Handled : n # Handled + 1
  BY <1>2
<1>6. \A n \in 1..Handled : sent[Router][n].n = n
  BY Zenon, <1>4 DEF Queued
<1>7. \A n \in 1..Handled : sent[Router][n] # Head(batch[Router])
  BY Zenon, <1>3, <1>5, <1>6
<1>8. Head(batch[Router]) \notin dropped
  BY Zenon, <1>3, <1>5 DEF Queued
<1>9. sent'[Router] = sent[Router]
  BY Zenon DEF Removes
<1>10. 1..Handled \subseteq 1..Handled' /\ \A n \in 1..Handled' : n \in 1..Handled \/ n = Handled + 1
  BY Zenon, <1>1, <1>2, OneMore
<1>. QED
  BY Zenon, <1>1, <1>2, <1>3, <1>7, <1>8, <1>9, <1>10

(* So is a message that is dropped. *)
LEMMA DropSteady ==
  ASSUME TypeOK, Queued, Removes, RouterDrop, NEW d \in Dealers
  PROVE  Steady(d)
<1>1. dropped' = dropped \cup {Head(batch[Router])}
  BY Zenon DEF RouterDrop
<1>2. \A n \in 1..Handled : sent'[Router][n] = sent[Router][n] /\ (For(d, n)' <=> For(d, n))
  BY Zenon, <1>1, HeadFacts DEF For
<1>3. ASSUME NEW n, n = Handled + 1 PROVE ~For(d, n)'
  BY Zenon, <1>1, <1>3, HeadFacts DEF For
<1>4. 1..Handled \subseteq 1..Handled' /\ \A n \in 1..Handled' : n \in 1..Handled \/ n = Handled + 1
  BY Zenon, HeadFacts
<1>. QED
  BY Zenon, <1>2, <1>3, <1>4 DEF Steady

(* A message reaches the pipe to its dealer. *)
LEMMA SendArrives ==
  ASSUME TypeOK, Queued, Removes, RouterSend, NEW d \in Dealers, d = Head(batch[Router]).to
  PROVE  /\ Arrived(d)' = Append(Arrived(d), Head(batch[Router]))
         /\ Head(batch[Router]) \in Messages
<1>. DEFINE m == Head(batch[Router])
<1>1. batch[Router] \in Seq(Messages) /\ batch[Router] # <<>>
  BY Zenon, QueueFacts DEF Removes
<1>2. m \in Messages
  BY Zenon, <1>1, HeadTailProperties
<1>3. down' = [down EXCEPT ![m.to] = Append(down[m.to], m)] /\ got' = got
  BY Zenon DEF RouterSend, history
<1>4. down'[d] = Append(down[d], m)
  BY Zenon, <1>3 DEF TypeOK
<1>5. got[d] \in Seq(Messages) /\ down[d] \in Seq(Messages)
  BY Zenon DEF TypeOK
<1>. HIDE DEF m
<1>6. got[d] \o Append(down[d], m) = Append(got[d] \o down[d], m)
  <2>1. \A g, w \in Seq(Messages) : g \o Append(w, m) = Append(g \o w, m)
    BY <1>2, ConcatAppend
  <2>. QED
    BY <1>5, <2>1, Zenon
<1>. QED
  BY ZenonT(40), <1>2, <1>3, <1>4, <1>6 DEF Arrived, m

(* The dealer that the router sends to gets the next of its messages. *)
LEMMA SendDealer ==
  ASSUME TypeOK, Queued, Removes, RouterSend, NEW d \in Dealers, d = Head(batch[Router]).to,
         Genuine(d), InOrder(d), Complete(d), NoGap(d)
  PROVE  (Genuine(d) /\ InOrder(d) /\ Complete(d) /\ NoGap(d))'
<1>. DEFINE A == Arrived(d)
            m == Head(batch[Router])
            S == sent[Router]
<1>0. A \in Seq(Messages) /\ Len(A) \in Nat /\ m \in Messages /\ Arrived(d)' = Append(A, m)
  BY Zenon, ArrivedType, SendArrives
<1>1. /\ Handled \in Nat /\ Handled' = Handled + 1 /\ m = S[Handled + 1] /\ m.n = Handled + 1
      /\ m \notin dropped /\ sent'[Router] = S
      /\ 1..Handled \subseteq 1..Handled'
      /\ \A n \in 1..Handled' : n \in 1..Handled \/ n = Handled + 1
  BY Zenon, HeadFacts
<1>2. /\ dropped' = dropped /\ thread' = thread /\ got' = got /\ thread[Router] = "send"
  BY Zenon DEF RouterSend, control, history
<1>3. /\ \A n : For(d, n)' <=> For(d, n)
      /\ Closed(d)' <=> Closed(d)
      /\ Closed(Router)' <=> Closed(Router)
      /\ ~Closed(Router)
  BY Zenon, <1>1, <1>2 DEF For, Closed
<1>4. For(d, Handled + 1)
  BY Zenon, <1>1 DEF For
<1>5. /\ Len(Append(A, m)) = Len(A) + 1 /\ Append(A, m)[Len(A) + 1] = m
      /\ \A i \in 1..Len(A) : Append(A, m)[i] = A[i]
  BY SMTT(30), <1>0, AppendProperties
<1>6. /\ \A i \in 1..Len(A) + 1 : i \in 1..Len(A) \/ i = Len(A) + 1
      /\ \A i \in 1..Len(A) : i \in 1..Len(A) + 1
      /\ Len(A) + 1 \in 1..Len(A) + 1
  BY Zenon, <1>0, OneMore
<1>7. Handled + 1 \in 1..Handled'
  BY <1>1
<1>. HIDE DEF A, m, S
<1>. DEFINE C == Append(A, m)
<1>8. Arrived(d)' = C /\ Len(C) = Len(A) + 1 /\ C[Len(A) + 1] = m /\ \A i \in 1..Len(A) : C[i] = A[i]
  BY Zenon, <1>0, <1>5
<1>. HIDE DEF C
<1>9. Genuine(d)'
  <2>1. ASSUME NEW i \in 1..Len(A) + 1
        PROVE  C[i].n \in 1..Handled' /\ C[i] = S[C[i].n] /\ For(d, C[i].n)
    <3>1. CASE i \in 1..Len(A)
      BY Zenon, <1>1, <1>8, <3>1 DEF Genuine, A, S
    <3>2. CASE i = Len(A) + 1
      BY Zenon, <1>1, <1>4, <1>7, <1>8, <3>2
    <3>. QED
      BY Zenon, <1>6, <3>1, <3>2
  <2>. QED
    BY Zenon, <1>1, <1>3, <1>8, <2>1 DEF Genuine
<1>10. InOrder(d)'
  <2>1. ASSUME NEW i \in 1..Len(A) + 1, NEW j \in 1..Len(A) + 1, i < j
        PROVE  C[i].n < C[j].n
    <3>1. i \in 1..Len(A)
      BY SMTT(30), <1>0, <2>1
    <3>2. A[i].n \in 1..Handled
      BY Zenon, <3>1 DEF Genuine, A
    <3>3. CASE j \in 1..Len(A)
      BY Zenon, <1>8, <2>1, <3>1, <3>3 DEF InOrder, A
    <3>4. CASE j = Len(A) + 1
      BY SMTT(30), <1>1, <1>8, <3>1, <3>2, <3>4
    <3>. QED
      BY Zenon, <1>6, <3>3, <3>4
  <2>. QED
    BY Zenon, <1>8, <2>1 DEF InOrder
<1>11. ASSUME ~Closed(d), NEW n \in 1..Handled', For(d, n)
       PROVE  \E i \in 1..Len(A) + 1 : C[i] = S[n]
  <2>1. CASE n \in 1..Handled
    <3>1. PICK i \in 1..Len(A) : A[i] = S[n]
      BY Zenon, <1>3, <1>11, <2>1 DEF Complete, A, S
    <3>. QED
      BY Zenon, <1>6, <1>8, <3>1
  <2>2. CASE n = Handled + 1
    BY Zenon, <1>1, <1>6, <1>8, <2>2
  <2>. QED
    BY Zenon, <1>1, <1>11, <2>1, <2>2
<1>12. Complete(d)'
  BY Zenon, <1>1, <1>3, <1>8, <1>11 DEF Complete
<1>13. NoGap(d)'
  <2>. SUFFICES ASSUME NEW i \in 1..Len(A) + 1, ~Closed(d) \/ i <= Len(got[d]),
                       NEW n \in 1..C[i].n, For(d, n)
                PROVE  \E j \in 1..i : C[j] = S[n]
    BY SMTT(30), <1>1, <1>2, <1>3, <1>8 DEF NoGap
  <2>1. CASE i \in 1..Len(A)
    <3>1. PICK j \in 1..i : A[j] = S[n]
      BY Zenon, <1>8, <2>1 DEF NoGap, A, S
    <3>2. j \in 1..Len(A)
      BY SMTT(30), <1>0, <2>1
    <3>. QED
      BY Zenon, <1>8, <3>1, <3>2
  <2>2. CASE i = Len(A) + 1
    <3>1. ~Closed(d)
      <4>1. Len(got[d]) \in Nat /\ Len(down[d]) \in Nat /\ Len(A) = Len(got[d]) + Len(down[d])
        BY SMTT(30), LenProperties, ConcatProperties DEF TypeOK, A, Arrived
      <4>2. \A g, w \in Nat : ~(g + w + 1 <= g)
        OBVIOUS
      <4>3. ~(Len(got[d]) + Len(down[d]) + 1 <= Len(got[d]))
        BY <4>1, <4>2, Zenon
      <4>. QED
        BY <2>2, <4>1, <4>3, ZenonT(40)
    <3>2. n \in 1..Handled'
      BY Zenon, <1>1, <1>8, <2>2
    <3>. QED
      BY Zenon, <1>11, <2>2, <3>1, <3>2
  <2>. QED
    BY Zenon, <1>6, <2>1, <2>2
<1>. QED
  BY Zenon, <1>9, <1>10, <1>12, <1>13

(* Every step keeps what is said of the messages to the dealers. *)
LEMMA StepToDealers ==
  ASSUME TypeOK, TypeOK', Lifecycle, Queued, ToDealers, [Next]_vars
  PROVE  ToDealers'
<1>. SUFFICES ASSUME NEW d \in Dealers
              PROVE  (Genuine(d) /\ InOrder(d) /\ Complete(d) /\ NoGap(d))'
  BY Zenon DEF ToDealers
<1>0. Genuine(d) /\ InOrder(d) /\ Complete(d) /\ NoGap(d)
  BY Zenon DEF ToDealers
<1>1. (Closed(d) => Closed(d)') /\ (Closed(Router) => Closed(Router)')
  BY Zenon, OneWay, EndFacts
<1>2. CASE RouterSend
  <2>1. Removes
    BY Zenon, <1>2, EndFacts DEF RouterSend, Removes, TypeOK, history
  <2>2. CASE d = Head(batch[Router]).to
    BY Zenon, <1>0, <1>2, <2>1, <2>2, SendDealer
  <2>3. CASE d # Head(batch[Router]).to
    <3>1. got'[d] = got[d] /\ down'[d] = down[d] /\ dropped' = dropped
      BY Zenon, <1>2, <2>3 DEF RouterSend, TypeOK, history
    <3>2. Shrinks(d)
      BY Zenon, <3>1, SameShrinks
    <3>3. /\ sent'[Router] = sent[Router] /\ sent[Router][Handled + 1].to # d
          /\ 1..Handled \subseteq 1..Handled'
          /\ \A n \in 1..Handled' : n \in 1..Handled \/ n = Handled + 1
      BY Zenon, <2>1, <2>3, HeadFacts
    <3>4. \A n : For(d, n)' <=> For(d, n)
      BY Zenon, <3>1, <3>3 DEF For
    <3>5. ~For(d, Handled + 1)
      BY Zenon, <3>3 DEF For
    <3>6. Steady(d)
      BY Zenon, <3>3, <3>4, <3>5 DEF Steady
    <3>. QED
      BY Zenon, <1>0, <1>1, <3>2, <3>6, SteadyDealer
  <2>. QED
    BY Zenon, <2>2, <2>3
<1>3. CASE ~RouterSend
  <2>1. Shrinks(d)
    BY Zenon, <1>3, StepArrived
  <2>2. Steady(d)
    <3>1. CASE Keeps \/ Enqueues \/ Takes
      <4>1. Extends /\ Handled' = Handled
        BY Zenon, <3>1, KeepsQueued, EnqueuesQueued, TakesQueued
      <4>2. dropped' = dropped
        BY Zenon, <3>1 DEF Keeps, Enqueues, Takes
      <4>. QED
        BY Zenon, <4>1, <4>2, QuietSteady
    <3>2. CASE Removes /\ RouterDrop
      BY Zenon, <3>2, DropSteady
    <3>. QED
      BY Zenon, <1>3, <3>1, <3>2, StepQueues
  <2>. QED
    BY Zenon, <1>0, <1>1, <2>1, <2>2, SteadyDealer
<1>. QED
  BY Zenon, <1>2, <1>3

-----------------------------------------------------------------------------
(* The messages from the dealers *)

(* s is a first part of t exactly if something follows it there. *)
LEMMA PrefixRest ==
  ASSUME NEW S, NEW s \in Seq(S), NEW t \in Seq(S)
  PROVE  IsPrefix(s, t) <=> \E r \in Seq(S) : t = s \o r
<1>0. Len(s) \in Nat /\ Len(t) \in Nat /\ SubSeq(s, 1, Len(s)) = s
  BY Zenon, LenProperties, SubSeqFull
<1>1. ASSUME IsPrefix(s, t) PROVE \E r \in Seq(S) : t = s \o r
  <2>1. Len(s) <= Len(t) /\ SubSeq(t, 1, Len(s)) = s
    BY Zenon, <1>0, <1>1 DEF IsPrefix
  <2>2. 1 \in 1..Len(t) + 1 /\ Len(s) \in 1 - 1..Len(t) /\ Len(t) \in Len(s)..Len(t)
    BY <1>0, <2>1
  <2>3. SubSeq(t, 1, Len(s)) \o SubSeq(t, Len(s) + 1, Len(t)) = SubSeq(t, 1, Len(t))
    BY Zenon, <2>2, ConcatAdjacentSubSeq
  <2>4. SubSeq(t, 1, Len(t)) = t
    BY Zenon, SubSeqFull
  <2>5. SubSeq(t, Len(s) + 1, Len(t)) \in Seq(S)
    <3>1. \A i \in Len(s) + 1..Len(t) : t[i] \in S
      BY <1>0, ElementOfSeq
    <3>2. Len(s) + 1 \in Int /\ Len(t) \in Int
      BY <1>0
    <3>. QED
      BY Zenon, <3>1, <3>2, SubSeqProperties
  <2>. QED
    BY Zenon, <2>1, <2>3, <2>4, <2>5
<1>2. ASSUME NEW r \in Seq(S), t = s \o r PROVE IsPrefix(s, t)
  <2>0. Len(r) \in Nat
    BY Zenon, LenProperties
  <2>1. Len(t) = Len(s) + Len(r) /\ \A i \in 1..Len(s) + Len(r) : t[i] =
          IF i <= Len(s) THEN s[i] ELSE r[i - Len(s)]
    BY Zenon, <1>2, ConcatProperties
  <2>2. Len(s) <= Len(t) /\ Len(s) \in 0..Len(t)
    BY SMTT(30), <1>0, <2>0, <2>1
  <2>3. /\ SubSeq(t, 1, Len(s)) \in Seq(S) /\ Len(SubSeq(t, 1, Len(s))) = Len(s)
        /\ \A i \in 1..Len(s) : SubSeq(t, 1, Len(s))[i] = t[i]
    BY Zenon, <2>2, FirstPart
  <2>4. \A i \in 1..Len(s) : i \in 1..Len(s) + Len(r) /\ i <= Len(s)
    BY <1>0, <2>0
  <2>5. \A i \in 1..Len(s) : SubSeq(t, 1, Len(s))[i] = s[i]
    BY Zenon, <2>1, <2>3, <2>4
  <2>6. SubSeq(t, 1, Len(s)) = s
    BY Zenon, <2>3, <2>5, SeqEqual
  <2>. QED
    BY Zenon, <1>0, <2>2, <2>6 DEF IsPrefix
<1>. QED
  BY Zenon, <1>1, <1>2

(* Concatenation is associative. *)
LEMMA Associative ==
  \A a, b, c \in Seq(Messages) : (a \o b) \o c = a \o (b \o c)
<1>. TAKE a, b, c \in Seq(Messages)
<1>. QED
  BY ConcatAssociative

(* The head of b moves from one side to the other. *)
LEMMA MoveThrough ==
  \A p, b, o \in Seq(Messages) :
    b # <<>> => Append(p, Head(b)) \o (Tail(b) \o o) = p \o (b \o o)
<1>. SUFFICES ASSUME NEW p \in Seq(Messages), NEW b \in Seq(Messages), NEW o \in Seq(Messages),
                     b # <<>>
              PROVE  Append(p, Head(b)) \o (Tail(b) \o o) = p \o (b \o o)
  BY Zenon
<1>1. Head(b) \in Messages /\ Tail(b) \in Seq(Messages)
  BY Zenon, HeadTailProperties
<1>2. Append(p, Head(b)) \in Seq(Messages)
  BY Zenon, <1>1, AppendProperties
<1>3. Append(p, Head(b)) \o Tail(b) = p \o b
  BY Zenon, MoveHead
<1>4. (Append(p, Head(b)) \o Tail(b)) \o o = Append(p, Head(b)) \o (Tail(b) \o o)
  BY <1>1, <1>2, Associative, Zenon
<1>5. (p \o b) \o o = p \o (b \o o)
  BY Associative, Zenon
<1>. QED
  BY <1>3, <1>4, <1>5, Zenon

(* What a dealer has sent, by place, are messages. *)
LEMMA DealerTypes ==
  ASSUME TypeOK, NEW d \in Dealers
  PROVE  /\ heard[d] \in Seq(Messages) /\ up[d] \in Seq(Messages)
         /\ batch[d] \in Seq(Messages) /\ outgoing[d] \in Seq(Messages)
         /\ sent[d] \in Seq(Messages)
         /\ Passed(d) \in Seq(Messages) /\ Behind(d) \in Seq(Messages)
<1>1. /\ heard[d] \in Seq(Messages) /\ up[d] \in Seq(Messages)
      /\ batch[d] \in Seq(Messages) /\ outgoing[d] \in Seq(Messages)
      /\ sent[d] \in Seq(Messages)
  BY Zenon, EndFacts DEF TypeOK
<1>. QED
  BY Zenon, <1>1, ConcatProperties DEF Passed, Behind

(* A step that leaves a dealer's messages where they are. *)
LEMMA SameFromDealer ==
  ASSUME NEW d \in Dealers, FromDealer(d), Passed(d)' = Passed(d), sent'[d] = sent[d],
         ~Closed(d)' => ~Closed(d) /\ Behind(d)' = Behind(d)
  PROVE  FromDealer(d)'
BY Zenon DEF FromDealer

(* The dealer gives a message to send(). *)
LEMMA SendFromDealer ==
  ASSUME TypeOK, NEW d \in Dealers, FromDealer(d), NEW m \in Messages,
         heard'[d] = heard[d], up'[d] = up[d], batch'[d] = batch[d],
         outgoing'[d] = Append(outgoing[d], m), sent'[d] = Append(sent[d], m),
         thread' = thread
  PROVE  FromDealer(d)'
<1>. DEFINE P == Passed(d)
            Q == Behind(d)
            T == sent[d]
<1>1. batch[d] \in Seq(Messages) /\ outgoing[d] \in Seq(Messages)
  BY Zenon, DealerTypes
<1>2. P \in Seq(Messages) /\ Q \in Seq(Messages) /\ T \in Seq(Messages)
  BY Zenon, DealerTypes
<1>3. \A g, w \in Seq(Messages) : g \o Append(w, m) = Append(g \o w, m)
  BY SMTT(30), ConcatAppend
<1>4. P' = P /\ Q' = batch[d] \o Append(outgoing[d], m) /\ (Closed(d)' <=> Closed(d))
  BY Zenon DEF Passed, Behind, Closed
<1>5. Q' = Append(Q, m)
  BY <1>1, <1>3, <1>4, ZenonT(40) DEF Behind
<1>6. IsPrefix(P, T)
  BY Zenon DEF FromDealer
<1>7. ~Closed(d) => P \o Q = T
  BY Zenon DEF FromDealer
<1>. HIDE DEF P, Q, T
<1>8. PICK r \in Seq(Messages) : T = P \o r
  BY Zenon, <1>2, <1>6, PrefixRest
<1>9. Append(T, m) = P \o Append(r, m) /\ Append(r, m) \in Seq(Messages) /\ Append(T, m) \in Seq(Messages)
  BY Zenon, <1>2, <1>3, <1>8, AppendProperties
<1>10. IsPrefix(P, Append(T, m))
  BY Zenon, <1>2, <1>9, PrefixRest
<1>11. ~Closed(d) => P \o Append(Q, m) = Append(T, m)
  BY Zenon, <1>2, <1>3, <1>7
<1>12. Passed(d)' = P /\ Behind(d)' = Append(Q, m) /\ sent'[d] = Append(T, m)
  BY Zenon, <1>4, <1>5 DEF P, Q, T
<1>. QED
  BY Zenon, <1>4, <1>10, <1>11, <1>12 DEF FromDealer

(* The dealer's socket takes a message. *)
LEMMA PipeFromDealer ==
  ASSUME TypeOK, NEW d \in Dealers, FromDealer(d), DealerSend(d)
  PROVE  FromDealer(d)'
<1>. DEFINE h == Head(batch[d])
            b == batch[d]
            o == outgoing[d]
            P == Passed(d)
            T == sent[d]
<1>1. /\ b \in Seq(Messages) /\ o \in Seq(Messages) /\ T \in Seq(Messages) /\ P \in Seq(Messages)
      /\ heard[d] \in Seq(Messages) /\ up[d] \in Seq(Messages)
  BY Zenon, DealerTypes
<1>2. /\ b # <<>> /\ thread[d] = "send" /\ thread' = thread
      /\ up' = [up EXCEPT ![d] = Append(up[d], h)] /\ heard' = heard
      /\ batch' = [batch EXCEPT ![d] = Tail(b)] /\ outgoing' = outgoing /\ sent' = sent
  BY Zenon DEF DealerSend, control, history
<1>3. up'[d] = Append(up[d], h) /\ batch'[d] = Tail(b) /\ ~Closed(d) /\ ~Closed(d)'
  BY Zenon, <1>2, EndFacts DEF TypeOK, Closed
<1>4. h \in Messages /\ Tail(b) \in Seq(Messages) /\ Append(P, h) \in Seq(Messages)
  BY Zenon, <1>1, <1>2, HeadTailProperties, AppendProperties
<1>5. P \o (b \o o) = T
  BY Zenon, <1>3 DEF FromDealer, Behind
<1>6. Passed(d)' = heard[d] \o Append(up[d], h)
  BY Zenon, <1>2, <1>3 DEF Passed
<1>7. Passed(d)' = Append(P, h)
  <2>1. \A g, w \in Seq(Messages) : g \o Append(w, h) = Append(g \o w, h)
    BY SMTT(30), <1>4, ConcatAppend
  <2>. QED
    BY <1>1, <1>6, <2>1, ZenonT(40) DEF Passed
<1>8. Behind(d)' = Tail(b) \o o /\ sent'[d] = T
  BY Zenon, <1>2, <1>3 DEF Behind
<1>. HIDE DEF b, o, P, T
<1>9. Append(P, h) \o (Tail(b) \o o) = P \o (b \o o)
  BY <1>1, <1>2, MoveThrough, Zenon DEF b
<1>. HIDE DEF h
<1>11. Append(P, h) \o (Tail(b) \o o) = T
  BY <1>5, <1>9, ZenonT(40)
<1>12. Tail(b) \o o \in Seq(Messages)
  BY Zenon, <1>1, <1>4, ConcatProperties
<1>13. IsPrefix(Append(P, h), T)
  BY ZenonT(40), <1>1, <1>4, <1>11, <1>12, PrefixRest
<1>. QED
  BY ZenonT(40), <1>7, <1>8, <1>11, <1>13 DEF FromDealer

(* The dealer's socket closes with a first part of its pipe transferred. *)
LEMMA CloseFromDealer ==
  ASSUME TypeOK, NEW d \in Dealers, FromDealer(d), Closed(d)',
         heard'[d] = heard[d], sent'[d] = sent[d],
         NEW k \in 0..Len(up[d]), up'[d] = SubSeq(up[d], 1, k)
  PROVE  FromDealer(d)'
<1>. DEFINE g == heard[d]
            w == up[d]
            v == SubSeq(w, 1, k)
            T == sent[d]
<1>1. g \in Seq(Messages) /\ w \in Seq(Messages) /\ T \in Seq(Messages)
  BY Zenon, DealerTypes
<1>2. v \in Seq(Messages) /\ Len(v) = k /\ \A i \in 1..k : v[i] = w[i]
  BY Zenon, <1>1, FirstPart
<1>3. Len(w) \in Nat /\ k \in Nat /\ k <= Len(w)
  BY <1>1, LenProperties
<1>4. IsPrefix(v, w)
  <2>1. SubSeq(v, 1, Len(v)) = v
    BY Zenon, <1>2, SubSeqFull
  <2>. QED
    BY Zenon, <1>2, <1>3, <2>1 DEF IsPrefix
<1>5. IsPrefix(g \o w, T)
  BY Zenon DEF FromDealer, Passed
<1>6. Passed(d)' = g \o v /\ sent'[d] = T
  BY Zenon DEF Passed
<1>. HIDE DEF g, w, v, T
<1>7. PICK x \in Seq(Messages) : w = v \o x
  BY Zenon, <1>1, <1>2, <1>4, PrefixRest
<1>8. g \o w \in Seq(Messages) /\ g \o v \in Seq(Messages)
  BY Zenon, <1>1, <1>2, ConcatProperties
<1>9. PICK r \in Seq(Messages) : T = (g \o w) \o r
  BY ZenonT(40), <1>1, <1>5, <1>8, PrefixRest
<1>10. x \o r \in Seq(Messages)
  BY Zenon, ConcatProperties
<1>11. (g \o (v \o x)) \o r = (g \o v) \o (x \o r)
  <2>1. g \in Seq(Messages) /\ v \in Seq(Messages) /\ x \in Seq(Messages) /\ r \in Seq(Messages)
    BY Zenon, <1>1, <1>2
  <2>2. (g \o v) \o x = g \o (v \o x)
    BY <2>1, Associative, Zenon
  <2>3. ((g \o v) \o x) \o r = (g \o v) \o (x \o r)
    BY <1>8, <2>1, Associative, ZenonT(40)
  <2>. QED
    BY <2>2, <2>3, Zenon
<1>12. T = (g \o v) \o (x \o r)
  BY <1>7, <1>9, <1>11, Zenon
<1>13. IsPrefix(g \o v, T)
  BY Zenon, <1>1, <1>8, <1>10, <1>12, PrefixRest
<1>. QED
  BY Zenon, <1>6, <1>13 DEF FromDealer

(* Every step keeps what is said of the messages from the dealers. *)
LEMMA StepFromDealers ==
  ASSUME TypeOK, Lifecycle, FromDealers, [Next]_vars
  PROVE  FromDealers'
<1>. SUFFICES ASSUME NEW d \in Dealers PROVE FromDealer(d)'
  BY Zenon DEF FromDealers
<1>0. FromDealer(d) /\ d \in Ends /\ Router \in Ends /\ d # Router
  BY Zenon, EndFacts DEF FromDealers
<1>1. ~Closed(d)' => ~Closed(d)
  BY Zenon, <1>0, OneWay
<1>2. ASSUME heard'[d] = heard[d], up'[d] = up[d], batch'[d] = batch[d],
             outgoing'[d] = outgoing[d], sent'[d] = sent[d]
      PROVE  FromDealer(d)'
  <2>1. Passed(d)' = Passed(d) /\ Behind(d)' = Behind(d)
    BY Zenon, <1>2 DEF Passed, Behind
  <2>. QED
    BY Zenon, <1>0, <1>1, <1>2, <2>1, SameFromDealer
<1>3. CASE UNCHANGED vars
  BY Zenon, <1>2, <1>3 DEF vars, queues, network, history
<1>4. ASSUME NEW e \in Ends, NEW to \in Ends, Send(e, to) PROVE FromDealer(d)'
  <2>1. /\ outgoing' = [outgoing EXCEPT ![e] = Append(outgoing[e], Message(e, to, FALSE))]
        /\ sent' = [sent EXCEPT ![e] = Append(sent[e], Message(e, to, FALSE))]
        /\ heard' = heard /\ up' = up /\ batch' = batch /\ thread' = thread
    BY Zenon, <1>4 DEF Send, control, network
  <2>2. CASE e = d
    <3>1. Message(d, to, FALSE) \in Messages
      BY Zenon, <1>0, MessageType
    <3>2. /\ outgoing'[d] = Append(outgoing[d], Message(d, to, FALSE))
          /\ sent'[d] = Append(sent[d], Message(d, to, FALSE))
      BY Zenon, <1>0, <2>1, <2>2 DEF TypeOK
    <3>3. PICK m \in Messages : outgoing'[d] = Append(outgoing[d], m) /\ sent'[d] = Append(sent[d], m)
      BY Zenon, <3>1, <3>2
    <3>. QED
      BY ZenonT(40), <1>0, <2>1, <3>3, SendFromDealer
  <2>3. CASE e # d
    <3>1. outgoing'[d] = outgoing[d] /\ sent'[d] = sent[d]
      BY ZenonT(40), <1>0, <2>1, <2>3 DEF TypeOK
    <3>. QED
      BY Zenon, <1>2, <2>1, <3>1
  <2>. QED
    BY Zenon, <2>2, <2>3
<1>5. ASSUME NEW e \in Ends,
             \/ Start(e) \/ Stop(e) \/ Join(e) \/ Open(e) \/ OpenFails(e)
             \/ SentAll(e) \/ PollTimeout(e)
      PROVE  FromDealer(d)'
  BY Zenon, <1>2, <1>5 DEF Start, Stop, Join, Open, OpenFails, SentAll, PollTimeout, queues, network, history
<1>6. ASSUME NEW e \in Ends, TakePending(e) PROVE FromDealer(d)'
  <2>1. /\ batch' = [batch EXCEPT ![e] = outgoing[e]] /\ outgoing' = [outgoing EXCEPT ![e] = <<>>]
        /\ heard' = heard /\ up' = up /\ sent' = sent /\ thread[e] = "loop"
    BY Zenon, <1>6 DEF TakePending, network, history
  <2>2. CASE e = d
    <3>1. batch'[d] = outgoing[d] /\ outgoing'[d] = <<>> /\ batch[d] = <<>>
      BY Zenon, <1>0, <2>1, <2>2 DEF TypeOK, Lifecycle
    <3>2. outgoing[d] \o <<>> = outgoing[d] /\ <<>> \o outgoing[d] = outgoing[d]
      BY Zenon, <1>0, ConcatEmptySeq DEF TypeOK
    <3>3. Passed(d)' = Passed(d) /\ Behind(d)' = Behind(d)
      BY ZenonT(40), <2>1, <3>1, <3>2 DEF Passed, Behind
    <3>. QED
      BY Zenon, <1>0, <1>1, <2>1, <3>3, SameFromDealer
  <2>3. CASE e # d
    <3>1. outgoing'[d] = outgoing[d] /\ batch'[d] = batch[d]
      BY Zenon, <1>0, <2>1, <2>3 DEF TypeOK
    <3>. QED
      BY Zenon, <1>2, <2>1, <3>1
  <2>. QED
    BY Zenon, <2>2, <2>3
<1>7. ASSUME NEW e \in Ends, EndLoop(e) \/ Fail(e) PROVE FromDealer(d)'
  <2>1. /\ CloseSocket(e) /\ thread' = [thread EXCEPT ![e] = "ended"]
        /\ heard' = heard /\ sent' = sent /\ outgoing' = outgoing
    BY Zenon, <1>7 DEF EndLoop, Fail, Goto, queues, history
  <2>2. CASE e = d
    <3>1. PICK k \in 0..Len(up[d]) : up'[d] = SubSeq(up[d], 1, k)
      BY Zenon, <2>1, CloseEffect
    <3>2. Closed(d)'
      BY Zenon, <1>0, <2>1, <2>2 DEF Closed, TypeOK
    <3>. QED
      BY Zenon, <1>0, <2>1, <3>1, <3>2, CloseFromDealer
  <2>3. CASE e # d
    <3>1. up'[d] = up[d]
      BY Zenon, <2>1, <2>3, CloseEffect
    <3>2. batch'[d] = batch[d]
      BY Zenon, <1>0, <1>7, <2>3 DEF EndLoop, Fail, queues, TypeOK
    <3>. QED
      BY Zenon, <1>2, <2>1, <3>1, <3>2
  <2>. QED
    BY Zenon, <2>2, <2>3
<1>8. CASE RouterSend \/ RouterDrop
  <2>1. batch'[d] = batch[d]
    BY Zenon, <1>0, <1>8 DEF RouterSend, RouterDrop, TypeOK
  <2>2. heard' = heard /\ up' = up /\ outgoing' = outgoing /\ sent' = sent
    BY Zenon, <1>8 DEF RouterSend, RouterDrop, network, history
  <2>. QED
    BY Zenon, <1>2, <2>1, <2>2
<1>9. ASSUME NEW x \in Dealers, DealerSend(x) PROVE FromDealer(d)'
  <2>1. CASE x = d
    BY Zenon, <1>0, <1>9, <2>1, PipeFromDealer
  <2>2. CASE x # d
    <3>1. up'[d] = up[d] /\ batch'[d] = batch[d]
      BY Zenon, <1>0, <1>9, <2>2 DEF DealerSend, TypeOK
    <3>2. heard' = heard /\ outgoing' = outgoing /\ sent' = sent
      BY Zenon, <1>9 DEF DealerSend, history
    <3>. QED
      BY Zenon, <1>2, <3>1, <3>2
  <2>. QED
    BY Zenon, <2>1, <2>2
<1>10. ASSUME NEW x \in Dealers, DealerReceive(x) \/ Connect(x) \/ Disconnect(x)
       PROVE  FromDealer(d)'
  BY Zenon, <1>2, <1>10 DEF DealerReceive, Connect, Disconnect, queues, history
<1>11. ASSUME NEW x \in Dealers, RouterReceive(x) PROVE FromDealer(d)'
  <2>1. batch' = batch /\ outgoing'[d] = outgoing[d] /\ sent'[d] = sent[d]
    BY Zenon, <1>0, <1>11 DEF RouterReceive, TypeOK
  <2>2. /\ heard' = [heard EXCEPT ![x] = Append(heard[x], Head(up[x]))]
        /\ up' = [up EXCEPT ![x] = Tail(up[x])] /\ up[x] # <<>>
    BY Zenon, <1>11 DEF RouterReceive
  <2>3. CASE x = d
    <3>1. heard'[d] = Append(heard[d], Head(up[d])) /\ up'[d] = Tail(up[d])
      BY Zenon, <2>2, <2>3 DEF TypeOK
    <3>2. Append(heard[d], Head(up[d])) \o Tail(up[d]) = heard[d] \o up[d]
      BY ZenonT(40), <2>2, <2>3, DealerTypes, MoveHead
    <3>3. Passed(d)' = Passed(d) /\ Behind(d)' = Behind(d)
      BY ZenonT(40), <2>1, <3>1, <3>2 DEF Passed, Behind
    <3>. QED
      BY Zenon, <1>0, <1>1, <2>1, <3>3, SameFromDealer
  <2>4. CASE x # d
    <3>1. heard'[d] = heard[d] /\ up'[d] = up[d]
      BY Zenon, <2>2, <2>4 DEF TypeOK
    <3>. QED
      BY Zenon, <1>2, <2>1, <3>1
  <2>. QED
    BY Zenon, <2>3, <2>4
<1>12. CASE Next
  BY Zenon, <1>4, <1>5, <1>6, <1>7, <1>8, <1>9, <1>10, <1>11, <1>12, Steps
<1>. QED
  BY Zenon, <1>3, <1>12

-----------------------------------------------------------------------------
(* The invariant, and what follows from it *)

(* Channels that were not started satisfy the invariant. *)
LEMMA ChannelInit ==
  ASSUME Init
  PROVE  ChannelInv
<1>0. <<>> \in Seq(Messages) /\ Len(<<>>) = 0 /\ <<>> \o <<>> = <<>>
  BY Zenon, EmptySeq, ConcatEmptySeq
<1>1. TypeOK
  <2>1. "none" \in Places
    BY Zenon DEF Places
  <2>. QED
    BY Zenon, <1>0, <2>1 DEF Init, TypeOK
<1>2. Router \in Ends /\ Dealers \subseteq Ends
  BY Zenon, EndFacts
<1>3. Lifecycle
  BY Zenon, <1>2 DEF Init, Lifecycle
<1>4. batch[Router] = <<>> /\ outgoing[Router] = <<>> /\ sent[Router] = <<>> /\ dropped = {}
  BY Zenon, <1>2 DEF Init
<1>5. Answering
  BY <1>0, <1>4 DEF Answering
<1>6. Handled = 0
  <2>1. Handled = 0 - 0 - 0
    BY <1>0, <1>4, Zenon DEF Handled
  <2>. QED
    BY <2>1
<1>7. Queued
  BY <1>0, <1>4, <1>6 DEF Queued
<1>8. ASSUME NEW d \in Dealers PROVE FromDealer(d)
  <2>1. Passed(d) = <<>> /\ Behind(d) = <<>> /\ sent[d] = <<>>
    BY Zenon, <1>0, <1>2 DEF Init, Passed, Behind
  <2>2. IsPrefix(<<>>, <<>>)
    BY <1>0 DEF IsPrefix
  <2>. QED
    BY Zenon, <1>0, <2>1, <2>2 DEF FromDealer
<1>9. ASSUME NEW d \in Dealers PROVE Genuine(d) /\ InOrder(d) /\ Complete(d) /\ NoGap(d)
  <2>1. Arrived(d) = <<>> /\ Len(Arrived(d)) = 0
    BY Zenon, <1>0 DEF Init, Arrived
  <2>. QED
    BY <1>6, <2>1 DEF Genuine, InOrder, Complete, NoGap
<1>. QED
  BY Zenon, <1>1, <1>3, <1>5, <1>7, <1>8, <1>9 DEF ChannelInv, FromDealers, ToDealers

(* Every step keeps the invariant. *)
LEMMA ChannelStep ==
  ASSUME ChannelInv, [Next]_vars
  PROVE  ChannelInv'
<1>1. TypeOK'
  BY Zenon, StepTypes DEF ChannelInv
<1>2. Lifecycle'
  BY Zenon, StepLifecycle DEF ChannelInv
<1>3. Answering'
  BY Zenon, <1>1, StepAnswering DEF ChannelInv
<1>4. FromDealers'
  BY Zenon, StepFromDealers DEF ChannelInv
<1>5. Queued'
  BY Zenon, StepQueued DEF ChannelInv
<1>6. ToDealers'
  BY Zenon, <1>1, StepToDealers DEF ChannelInv
<1>. QED
  BY Zenon, <1>1, <1>2, <1>3, <1>4, <1>5, <1>6 DEF ChannelInv

(* The invariant holds throughout: run() and its socket, the queues of     *)
(* both channels and the pipes between them stay in step.                  *)
THEOREM ChannelAlways == Spec => []ChannelInv
<1>1. Init => ChannelInv
  BY Zenon, ChannelInit
<1>2. ChannelInv /\ [Next]_vars => ChannelInv'
  BY Zenon, ChannelStep
<1>. QED
  BY <1>1, <1>2, PTL DEF Spec

(* Answers are only dropped when the dealer has closed. *)
LEMMA InvAnswers ==
  ASSUME ChannelInv
  PROVE  AnswersRouted
<1>. SUFFICES ASSUME NEW m \in dropped, m.reply PROVE m.to \notin open
  BY Zenon DEF AnswersRouted
<1>1. Closed(m.to)
  BY Zenon DEF ChannelInv, Answering
<1>2. m.to \in Ends
  BY Zenon DEF ChannelInv, TypeOK, Messages
<1>. QED
  BY Zenon, <1>1, <1>2 DEF ChannelInv, Lifecycle, Closed

(* router_channel only drops an answer to a dealer whose socket has        *)
(* closed, whatever the dealers, and however full the pipes.               *)
THEOREM AnswersAreRouted == Spec => []AnswersRouted
BY ChannelAlways, InvAnswers, PTL

(* The router's messages for d, by their numbers. *)
LEMMA RoutedNumbers ==
  ASSUME TypeOK, Queued, NEW d \in Dealers, NEW m
  PROVE  /\ m \in Routed(d) => /\ m.n \in 1..Len(sent[Router]) /\ m = sent[Router][m.n]
                               /\ For(d, m.n)
         /\ \A n \in 1..Len(sent[Router]) : For(d, n) => sent[Router][n] \in Routed(d)
<1>. DEFINE S == sent[Router]
<1>1. Range(S) = {S[i] : i \in 1..Len(S)}
  BY Zenon, QueueFacts, LenProperties DEF Range
<1>2. \A i \in 1..Len(S) : S[i].n = i
  BY Zenon DEF Queued
<1>. HIDE DEF S
<1>3. Routed(d) = {w \in Range(S) : w.to = d} \ dropped
  BY Zenon DEF Routed, S
<1>4. \A n : For(d, n) <=> S[n].to = d /\ S[n] \notin dropped
  BY Zenon DEF For, S
<1>5. ASSUME m \in Routed(d)
      PROVE  m.n \in 1..Len(S) /\ m = S[m.n] /\ For(d, m.n)
  <2>1. PICK i \in 1..Len(S) : m = S[i]
    BY Zenon, <1>1, <1>3, <1>5
  <2>2. m.n = i
    BY Zenon, <1>2, <2>1
  <2>. QED
    BY Zenon, <1>3, <1>4, <1>5, <2>1, <2>2
<1>6. ASSUME NEW n \in 1..Len(S), For(d, n) PROVE S[n] \in Routed(d)
  BY Zenon, <1>1, <1>3, <1>4, <1>6
<1>. QED
  BY Zenon, <1>5, <1>6 DEF S

(* What waits in the router's queues are the messages after Handled. *)
LEMMA WaitingNumbers ==
  ASSUME TypeOK, Queued
  PROVE  \A n \in 1..Len(sent[Router]) : sent[Router][n] \in Waiting <=> n \notin 1..Handled
<1>. DEFINE S == sent[Router]
            B == batch[Router]
            O == outgoing[Router]
<1>0. /\ Len(S) \in Nat /\ Len(B) \in Nat /\ Len(O) \in Nat /\ Handled \in Nat
      /\ Handled + Len(B) + Len(O) = Len(S)
  BY Zenon, QueueFacts
<1>1. /\ Waiting = Range(B) \cup Range(O)
      /\ Range(B) = {B[i] : i \in 1..Len(B)} /\ Range(O) = {O[i] : i \in 1..Len(O)}
  BY Zenon, QueueFacts, LenProperties DEF Waiting, Range
<1>2. /\ \A i \in 1..Len(S) : S[i].n = i
      /\ \A i \in 1..Len(B) : B[i] = S[Handled + i]
      /\ \A i \in 1..Len(O) : O[i] = S[Handled + Len(B) + i]
  BY Zenon DEF Queued
<1>. SUFFICES ASSUME NEW n \in 1..Len(S) PROVE S[n] \in Waiting <=> n \notin 1..Handled
  BY Zenon
<1>. HIDE DEF S, B, O
<1>3. ASSUME NEW i \in 1..Len(B), S[n] = B[i] PROVE n \notin 1..Handled
  <2>1. Handled + i \in 1..Len(S)
    BY Zenon, <1>0, MiddlePlace
  <2>2. n = Handled + i
    BY Zenon, <1>2, <1>3, <2>1
  <2>. QED
    BY SMTT(30), <1>0, <2>2
<1>4. ASSUME NEW i \in 1..Len(O), S[n] = O[i] PROVE n \notin 1..Handled
  <2>1. Handled + Len(B) + i \in 1..Len(S)
    BY Zenon, <1>0, LastPlace
  <2>2. n = Handled + Len(B) + i
    BY Zenon, <1>2, <1>4, <2>1
  <2>. QED
    BY SMTT(30), <1>0, <2>2
<1>5. ASSUME n \notin 1..Handled
      PROVE  (\E i \in 1..Len(B) : S[n] = B[i]) \/ \E i \in 1..Len(O) : S[n] = O[i]
  <2>1. CASE n <= Handled + Len(B)
    <3>1. n - Handled \in 1..Len(B) /\ Handled + (n - Handled) = n
      BY SMTT(30), <1>0, <1>5, <2>1
    <3>. QED
      BY Zenon, <1>2, <3>1
  <2>2. CASE ~(n <= Handled + Len(B))
    <3>1. n - Handled - Len(B) \in 1..Len(O) /\ Handled + Len(B) + (n - Handled - Len(B)) = n
      BY SMTT(30), <1>0, <2>2
    <3>. QED
      BY Zenon, <1>2, <3>1
  <2>. QED
    BY Zenon, <2>1, <2>2
<1>6. S[n] \in Waiting <=>
        (\E i \in 1..Len(B) : S[n] = B[i]) \/ \E i \in 1..Len(O) : S[n] = O[i]
  BY Zenon, <1>1
<1>. QED
  BY Zenon, <1>3, <1>4, <1>5, <1>6

(* The invariant, by index, gives NothingLost, by sequences and sets. *)
LEMMA InvNothingLost ==
  ASSUME ChannelInv
  PROVE  NothingLost
<1>. SUFFICES ASSUME NEW d \in Dealers
              PROVE  /\ ~Closed(d) => heard[d] \o up[d] \o batch[d] \o outgoing[d] = sent[d]
                     /\ IsPrefix(heard[d], sent[d])
                     /\ InOrder(d)
                     /\ ~Closed(d) /\ ~Closed(Router) => Range(Arrived(d)) = Routed(d) \ Waiting
                     /\ Range(got[d]) \subseteq Routed(d)
                     /\ \A i \in 1..Len(got[d]) :
                          {m \in Routed(d) : m.n <= got[d][i].n} \subseteq Range(got[d])
  BY Zenon DEF NothingLost, InOrder
<1>0. /\ TypeOK /\ Queued /\ FromDealer(d)
      /\ Genuine(d) /\ InOrder(d) /\ Complete(d) /\ NoGap(d)
  BY Zenon DEF ChannelInv, FromDealers, ToDealers
<1>1. ASSUME ~Closed(d)
      PROVE  heard[d] \o up[d] \o batch[d] \o outgoing[d] = sent[d]
  <2>1. (heard[d] \o up[d]) \o (batch[d] \o outgoing[d]) = sent[d]
    BY Zenon, <1>0, <1>1 DEF FromDealer, Passed, Behind
  <2>2. /\ heard[d] \o up[d] \in Seq(Messages) /\ batch[d] \in Seq(Messages)
        /\ outgoing[d] \in Seq(Messages)
    BY Zenon, <1>0, DealerTypes DEF Passed
  <2>3. ((heard[d] \o up[d]) \o batch[d]) \o outgoing[d] =
          (heard[d] \o up[d]) \o (batch[d] \o outgoing[d])
    BY <2>2, Associative, Zenon
  <2>. QED
    BY <2>1, <2>3, Zenon
<1>2. IsPrefix(heard[d], sent[d])
  <2>. DEFINE g == heard[d]
              w == up[d]
              T == sent[d]
  <2>1. g \in Seq(Messages) /\ w \in Seq(Messages) /\ T \in Seq(Messages) /\ g \o w \in Seq(Messages)
    BY Zenon, <1>0, DealerTypes DEF Passed
  <2>2. IsPrefix(g \o w, T)
    BY Zenon, <1>0 DEF FromDealer, Passed
  <2>. HIDE DEF g, w, T
  <2>3. PICK r \in Seq(Messages) : T = (g \o w) \o r
    BY ZenonT(40), <2>1, <2>2, PrefixRest
  <2>4. w \o r \in Seq(Messages)
    BY Zenon, <2>1, ConcatProperties
  <2>5. (g \o w) \o r = g \o (w \o r)
    BY <2>1, Associative, ZenonT(40)
  <2>6. IsPrefix(g, T)
    BY Zenon, <2>1, <2>3, <2>4, <2>5, PrefixRest
  <2>. QED
    BY Zenon, <2>6 DEF g, T
<1>. DEFINE A == Arrived(d)
            G == got[d]
            S == sent[Router]
<1>3. /\ Range(A) = {A[i] : i \in 1..Len(A)} /\ Range(G) = {G[i] : i \in 1..Len(G)}
      /\ Len(A) \in Nat /\ Len(G) \in Nat
  <2>1. A \in Seq(Messages) /\ G \in Seq(Messages)
    BY Zenon, <1>0, ArrivedType DEF TypeOK
  <2>. QED
    BY Zenon, <2>1, LenProperties DEF Range
<1>4. \A i \in 1..Len(G) : i \in 1..Len(A) /\ A[i] = G[i]
  <2>. DEFINE w == down[d]
  <2>1. G \in Seq(Messages) /\ w \in Seq(Messages) /\ A = G \o w
    BY Zenon, <1>0 DEF TypeOK, Arrived
  <2>. HIDE DEF A, G, w
  <2>2. Len(G) \in Nat /\ Len(w) \in Nat
    BY Zenon, <2>1, LenProperties
  <2>3. /\ Len(G \o w) = Len(G) + Len(w)
        /\ \A i \in 1..Len(G) + Len(w) : (G \o w)[i] = IF i <= Len(G) THEN G[i] ELSE w[i - Len(G)]
    BY Zenon, <2>1, ConcatProperties
  <2>4. \A i \in 1..Len(G) : i \in 1..Len(G) + Len(w) /\ i <= Len(G)
    BY <2>2
  <2>. QED
    BY Zenon, <2>1, <2>3, <2>4
<1>5. \A i \in 1..Len(A) : A[i].n \in 1..Handled /\ A[i] = S[A[i].n] /\ For(d, A[i].n)
  BY Zenon, <1>0 DEF Genuine
<1>6. /\ \A n \in 1..Handled : n \in 1..Len(S)
      /\ Handled \in Nat
  BY Zenon, <1>0, QueueFacts, FirstPlace
<1>7. \A n \in 1..Len(S) : S[n] \in Waiting <=> n \notin 1..Handled
  BY Zenon, <1>0, WaitingNumbers
<1>8. \A m \in Routed(d) : m.n \in 1..Len(S) /\ m = S[m.n] /\ For(d, m.n)
  BY Zenon, <1>0, RoutedNumbers
<1>9. \A n \in 1..Len(S) : For(d, n) => S[n] \in Routed(d)
  BY Zenon, <1>0, RoutedNumbers
<1>10. ~Closed(d) /\ ~Closed(Router) =>
         \A n \in 1..Handled : For(d, n) => \E i \in 1..Len(A) : A[i] = S[n]
  BY Zenon, <1>0 DEF Complete
<1>11. \A i \in 1..Len(G) : \A n \in 1..A[i].n : For(d, n) => \E j \in 1..i : A[j] = S[n]
  BY SMTT(30), <1>0, <1>4 DEF NoGap
<1>. HIDE DEF A, G, S
<1>12. \A i \in 1..Len(A) : A[i] \in Routed(d) /\ A[i] \notin Waiting
  BY Zenon, <1>5, <1>6, <1>7, <1>9
<1>13. ASSUME ~Closed(d), ~Closed(Router)
       PROVE  Range(A) = Routed(d) \ Waiting
  <2>1. ASSUME NEW m \in Routed(d), m \notin Waiting PROVE m \in Range(A)
    <3>1. m.n \in 1..Handled
      BY Zenon, <1>7, <1>8, <2>1
    <3>. QED
      BY Zenon, <1>3, <1>8, <1>10, <1>13, <3>1
  <2>. QED
    BY Zenon, <1>3, <1>12, <2>1
<1>14. Range(G) \subseteq Routed(d)
  BY Zenon, <1>3, <1>4, <1>12
<1>15. ASSUME NEW i \in 1..Len(G), NEW m \in Routed(d), m.n <= G[i].n
       PROVE  m \in Range(G)
  <2>1. A[i] = G[i] /\ A[i].n \in 1..Handled
    BY Zenon, <1>4, <1>5
  <2>2. m.n \in 1..Len(S) /\ m = S[m.n] /\ For(d, m.n)
    BY Zenon, <1>8
  <2>3. m.n \in 1..A[i].n
    BY SMTT(30), <1>6, <1>15, <2>1, <2>2
  <2>4. PICK j \in 1..i : A[j] = m
    BY Zenon, <1>11, <2>2, <2>3
  <2>5. j \in 1..Len(G)
    BY SMTT(30), <1>3
  <2>. QED
    BY Zenon, <1>3, <1>4, <2>4, <2>5
<1>. QED
  BY ZenonT(40), <1>0, <1>1, <1>2, <1>13, <1>14, <1>15 DEF A, G

(* Between dealer_channel and router_channel no message is lost, doubled   *)
(* or overtaken while the sockets are open, and after one has closed the   *)
(* other end has handled all messages up to some point.                    *)
THEOREM NothingIsLost == Spec => []NothingLost
BY ChannelAlways, InvNothingLost, PTL

=============================================================================
