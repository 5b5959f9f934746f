---------------------------- MODULE RoutedChannel ----------------------------
(***************************************************************************)
(* dealer_channel and router_channel: how User servers (dealers) and the   *)
(* Room server (the router) exchange messages over ZeroMQ.                 *)
(*                                                                         *)
(* Each end has one thread, run(), which alone uses the socket: it takes   *)
(* what other threads have queued, sends it, and polls for one message.    *)
(* The sends block, in the thread that also receives.  ZeroMQ is external: *)
(* a pipe per direction that holds up to HighWater messages, a handshake   *)
(* that makes a dealer's identity known to the router's socket, and, since *)
(* linger is 0, sockets that drop what was not transferred when they       *)
(* close.  Neither server starts a channel again after stop().             *)
(***************************************************************************)
EXTENDS Integers, FiniteSets, Sequences, Functions

CONSTANTS
  Dealers,
  Router,
  HighWater,  \* messages a pipe holds
  MaxSends    \* bound on the messages other threads queue at an end

ASSUME ChannelAssumption ==
  /\ Router \notin Dealers
  /\ HighWater \in Nat \ {0}
  /\ MaxSends \in Nat

Ends == Dealers \cup {Router}

VARIABLES
  running,   \* running_
  thread,    \* where run() is: "none", "open", "loop", "send", "poll", "ended", "joined"
  stopping,  \* stop(): "no", "joining", "done"
  outgoing,  \* outgoing_
  batch,     \* send_pending's local `pending`
  open,      \* ends whose socket is open
  up,        \* pipe from a dealer to the router
  down,      \* pipe from the router to a dealer
  link,      \* a dealer's connection: "none", "up", "down"
  sent,      \* history: messages given to send()
  heard,     \* history: messages from a dealer that the router handled
  got,       \* history: messages that a dealer handled
  dropped    \* history: messages the router could not route

control == <<running, thread, stopping>>
queues == <<outgoing, batch>>
network == <<open, up, down, link>>
history == <<sent, heard, got, dropped>>
vars == <<control, queues, network, history>>

Init ==
  /\ running = [e \in Ends |-> FALSE]
  /\ thread = [e \in Ends |-> "none"]
  /\ stopping = [e \in Ends |-> "no"]
  /\ outgoing = [e \in Ends |-> <<>>] /\ batch = [e \in Ends |-> <<>>]
  /\ open = {}
  /\ up = [d \in Dealers |-> <<>>] /\ down = [d \in Dealers |-> <<>>]
  /\ link = [d \in Dealers |-> "none"]
  /\ sent = [e \in Ends |-> <<>>]
  /\ heard = [d \in Dealers |-> <<>>] /\ got = [d \in Dealers |-> <<>>]
  /\ dropped = {}

Message(from, to, reply) == [to |-> to, n |-> Len(sent[from]) + 1, reply |-> reply]

Goto(e, place) == thread' = [thread EXCEPT ![e] = place]

-----------------------------------------------------------------------------
(* The channel's owner, and the threads that send *)

(* send(), at any time of the channel's life. *)
Send(e, to) ==
  LET message == Message(e, to, FALSE)
  IN  /\ (e = Router) # (to = Router)
      /\ Cardinality({i \in 1..Len(sent[e]) : ~sent[e][i].reply}) < MaxSends
      /\ outgoing' = [outgoing EXCEPT ![e] = Append(@, message)]
      /\ sent' = [sent EXCEPT ![e] = Append(@, message)]
      /\ UNCHANGED <<control, batch, network, heard, got, dropped>>

(* start(), up to the wait for `ready`. *)
Start(e) ==
  /\ thread[e] = "none"
  /\ running' = [running EXCEPT ![e] = TRUE]
  /\ Goto(e, "open")
  /\ UNCHANGED <<stopping, queues, network, history>>

(* stop(), up to the join; start() has returned. *)
Stop(e) ==
  /\ thread[e] \notin {"none", "open", "joined"}
  /\ stopping[e] = "no"
  /\ running' = [running EXCEPT ![e] = FALSE]
  /\ stopping' = [stopping EXCEPT ![e] = "joining"]
  /\ UNCHANGED <<thread, queues, network, history>>

(* The join in stop() returns. *)
Join(e) ==
  /\ stopping[e] = "joining" /\ thread[e] = "ended"
  /\ stopping' = [stopping EXCEPT ![e] = "done"]
  /\ Goto(e, "joined")
  /\ UNCHANGED <<running, queues, network, history>>

-----------------------------------------------------------------------------
(* run() *)

(* The socket is connected or bound. *)
Open(e) ==
  /\ thread[e] = "open"
  /\ open' = open \cup {e}
  /\ Goto(e, "loop")
  /\ UNCHANGED <<running, stopping, queues, up, down, link, history>>

(* connect() or bind() throws: start() joins the thread and throws, too. *)
OpenFails(e) ==
  /\ thread[e] = "open"
  /\ running' = [running EXCEPT ![e] = FALSE]
  /\ Goto(e, "joined")
  /\ UNCHANGED <<stopping, queues, network, history>>

(* send_pending takes over all of the queue. *)
TakePending(e) ==
  /\ thread[e] = "loop" /\ running[e]
  /\ batch' = [batch EXCEPT ![e] = outgoing[e]]
  /\ outgoing' = [outgoing EXCEPT ![e] = <<>>]
  /\ Goto(e, "send")
  /\ UNCHANGED <<running, stopping, network, history>>

(* dealer_channel::send_pending sends a message; it blocks while the pipe  *)
(* is full.                                                                *)
DealerSend(d) ==
  /\ thread[d] = "send" /\ batch[d] # <<>>
  /\ Len(up[d]) < HighWater
  /\ up' = [up EXCEPT ![d] = Append(@, Head(batch[d]))]
  /\ batch' = [batch EXCEPT ![d] = Tail(@)]
  /\ UNCHANGED <<control, outgoing, open, down, link, history>>

Routable(d) == link[d] = "up"

(* Variant of RouterSend: does not block, and gives up at a full pipe. *)
RouterSendOrDrop ==
  LET message == Head(batch[Router])
      fits == Routable(message.to) /\ Len(down[message.to]) < HighWater
  IN  /\ thread[Router] = "send" /\ batch[Router] # <<>>
      /\ down' = IF fits THEN [down EXCEPT ![message.to] = Append(@, message)] ELSE down
      /\ dropped' = IF fits THEN dropped ELSE dropped \cup {message}
      /\ batch' = [batch EXCEPT ![Router] = Tail(@)]
      /\ UNCHANGED <<control, outgoing, open, up, link, sent, heard, got>>

(* router_channel::send_pending sends a message to a dealer it knows; with *)
(* router_mandatory it blocks while that dealer's pipe is full.            *)
RouterSend ==
  LET message == Head(batch[Router])
  IN  /\ thread[Router] = "send" /\ batch[Router] # <<>>
      /\ Routable(message.to)
      /\ Len(down[message.to]) < HighWater
      /\ down' = [down EXCEPT ![message.to] = Append(@, message)]
      /\ batch' = [batch EXCEPT ![Router] = Tail(@)]
      /\ UNCHANGED <<control, outgoing, open, up, link, history>>

(* router_channel::send_pending: an unknown destination throws, and the    *)
(* loop goes on without the message.                                       *)
RouterDrop ==
  LET message == Head(batch[Router])
  IN  /\ thread[Router] = "send" /\ batch[Router] # <<>>
      /\ ~Routable(message.to)
      /\ dropped' = dropped \cup {message}
      /\ batch' = [batch EXCEPT ![Router] = Tail(@)]
      /\ UNCHANGED <<control, outgoing, network, sent, heard, got>>

(* Variant of SentAll: empties the queue after sending a copy of it. *)
SentAllClears(e) ==
  /\ thread[e] = "send" /\ batch[e] = <<>>
  /\ Goto(e, "poll")
  /\ outgoing' = [outgoing EXCEPT ![e] = <<>>]
  /\ UNCHANGED <<running, stopping, batch, network, history>>

SentAll(e) ==
  /\ thread[e] = "send" /\ batch[e] = <<>>
  /\ Goto(e, "poll")
  /\ UNCHANGED <<running, stopping, queues, network, history>>

Readable(e) ==
  IF e = Router THEN \E d \in Dealers : up[d] # <<>> /\ link[d] # "none"
  ELSE down[e] # <<>>

(* Variant of PollTimeout: poll() waits until there is a message. *)
PollForever(e) == FALSE /\ thread[e] = "poll" /\ UNCHANGED vars

(* Variant of PollTimeout: polls again without sending. *)
PollAgain(e) ==
  /\ thread[e] = "poll" /\ ~Readable(e)
  /\ Goto(e, IF running[e] THEN "poll" ELSE "loop")
  /\ UNCHANGED <<running, stopping, queues, network, history>>

(* poll() returns after kPollInterval without a message. *)
PollTimeout(e) ==
  /\ thread[e] = "poll" /\ ~Readable(e)
  /\ Goto(e, "loop")
  /\ UNCHANGED <<running, stopping, queues, network, history>>

(* A message arrives, and its handler passes it on to other threads. *)
DealerReceive(d) ==
  /\ thread[d] = "poll" /\ down[d] # <<>>
  /\ got' = [got EXCEPT ![d] = Append(@, Head(down[d]))]
  /\ down' = [down EXCEPT ![d] = Tail(@)]
  /\ Goto(d, "loop")
  /\ UNCHANGED <<running, stopping, queues, open, up, link, sent, heard, dropped>>

(* A message arrives; its handler may answer, or throw and not answer. *)
RouterReceive(d) ==
  /\ thread[Router] = "poll" /\ up[d] # <<>> /\ link[d] # "none"
  /\ heard' = [heard EXCEPT ![d] = Append(@, Head(up[d]))]
  /\ up' = [up EXCEPT ![d] = Tail(@)]
  /\ \E answers \in {<<>>, <<Message(Router, d, TRUE)>>} :
       /\ outgoing' = [outgoing EXCEPT ![Router] = @ \o answers]
       /\ sent' = [sent EXCEPT ![Router] = @ \o answers]
  /\ Goto(Router, "loop")
  /\ UNCHANGED <<running, stopping, batch, open, down, link, got, dropped>>

(* The socket's destructor, with linger 0: of what the pipes hold any      *)
(* number of messages has been transferred.                                *)
CloseSocket(e) ==
  /\ open' = open \ {e}
  /\ IF e = Router
     THEN /\ \E kept \in [Dealers -> 0..HighWater] :
               /\ \A d \in Dealers : kept[d] <= Len(down[d])
               /\ down' = [d \in Dealers |-> SubSeq(down[d], 1, kept[d])]
          /\ link' = [d \in Dealers |-> IF link[d] = "up" THEN "down" ELSE link[d]]
          /\ UNCHANGED up
     ELSE /\ \E kept \in 0..Len(up[e]) :
               /\ link[e] = "none" => kept = 0
               /\ up' = [up EXCEPT ![e] = SubSeq(@, 1, kept)]
          /\ down' = [down EXCEPT ![e] = <<>>]
          /\ UNCHANGED link

(* The loop ends. *)
EndLoop(e) ==
  /\ thread[e] = "loop" /\ ~running[e]
  /\ CloseSocket(e)
  /\ Goto(e, "ended")
  /\ UNCHANGED <<running, stopping, queues, history>>

(* poll(), recv() or the dealer's send() throws, and run() ends by itself. *)
Fail(e) ==
  /\ \/ thread[e] = "poll"
     \/ thread[e] = "send" /\ e # Router /\ batch[e] # <<>>
  /\ CloseSocket(e)
  /\ running' = [running EXCEPT ![e] = FALSE]
  /\ batch' = [batch EXCEPT ![e] = <<>>]
  /\ Goto(e, "ended")
  /\ UNCHANGED <<stopping, outgoing, history>>

-----------------------------------------------------------------------------
(* ZeroMQ *)

(* The handshake: the router's socket learns the dealer's identity. *)
Connect(d) ==
  /\ {d, Router} \subseteq open
  /\ link[d] = "none"
  /\ link' = [link EXCEPT ![d] = "up"]
  /\ UNCHANGED <<control, queues, open, up, down, history>>

(* The router's socket notices that a dealer is gone. *)
Disconnect(d) ==
  /\ d \notin open /\ link[d] = "up"
  /\ link' = [link EXCEPT ![d] = "down"]
  /\ down' = [down EXCEPT ![d] = <<>>]
  /\ UNCHANGED <<control, queues, open, up, history>>

-----------------------------------------------------------------------------

Owner(e) == Start(e) \/ Stop(e) \/ \E to \in Ends : Send(e, to)

Step(e) ==
  \/ Open(e) \/ OpenFails(e)
  \/ TakePending(e) \/ SentAll(e) \/ PollTimeout(e) \/ EndLoop(e)

DealerStep(d) == Step(d) \/ DealerSend(d) \/ DealerReceive(d)

RouterStep ==
  Step(Router) \/ RouterSend \/ RouterDrop \/ \E d \in Dealers : RouterReceive(d)

Next ==
  \/ \E e \in Ends : Owner(e) \/ Join(e) \/ Fail(e)
  \/ RouterStep
  \/ \E d \in Dealers : DealerStep(d) \/ Connect(d) \/ Disconnect(d)

Spec == Init /\ [][Next]_vars

(* The threads run, ZeroMQ connects open sockets and notices closed ones,  *)
(* and reads from the dealers in turn.                                     *)
Fairness ==
  /\ WF_vars(RouterStep)
  /\ \A e \in Ends : WF_vars(Join(e))
  /\ \A d \in Dealers :
       /\ WF_vars(DealerStep(d)) /\ WF_vars(Connect(d)) /\ WF_vars(Disconnect(d))
       /\ SF_vars(RouterReceive(d))

FairSpec == Spec /\ Fairness

-----------------------------------------------------------------------------
(* Properties *)

Closed(e) == thread[e] \in {"ended", "joined"}

(* The router's messages to d but those it could not route, and those that *)
(* d has handled or will find in its pipe.                                 *)
Routed(d) == {m \in Range(sent[Router]) : m.to = d} \ dropped
Arrived(d) == got[d] \o down[d]
Waiting == Range(batch[Router]) \cup Range(outgoing[Router])

(* s is what t begins with. *)
IsPrefix(s, t) == Len(s) <= Len(t) /\ SubSeq(s, 1, Len(s)) = SubSeq(t, 1, Len(s))

(* No message is lost, doubled or overtaken on its way while the sockets   *)
(* are open: what a dealer gave to send() is, in order, what the router    *)
(* has handled, what is in the pipe, in send_pending's batch and in        *)
(* outgoing_; and what has arrived at a dealer is, in order, all that the  *)
(* router could route but for what still waits there.  Once a socket has   *)
(* closed, the other end has still handled the messages up to some point.  *)
NothingLost ==
  \A d \in Dealers :
    /\ ~Closed(d) => heard[d] \o up[d] \o batch[d] \o outgoing[d] = sent[d]
    /\ IsPrefix(heard[d], sent[d])
    /\ \A i, j \in 1..Len(Arrived(d)) : i < j => Arrived(d)[i].n < Arrived(d)[j].n
    /\ ~Closed(d) /\ ~Closed(Router) => Range(Arrived(d)) = Routed(d) \ Waiting
    /\ Range(got[d]) \subseteq Routed(d)
    /\ \A i \in 1..Len(got[d]) :
         {m \in Routed(d) : m.n <= got[d][i].n} \subseteq Range(got[d])

(* An answer to a message that a dealer sent is only dropped when that     *)
(* dealer has closed its socket: the route it came by is known, and a full *)
(* pipe makes the router wait.                                             *)
AnswersRouted == \A m \in dropped : m.reply => m.to \notin open

(* run() is inside a send that cannot go on. *)
Stuck(e) ==
  /\ thread[e] = "send" /\ batch[e] # <<>>
  /\ IF e = Router THEN LET d == Head(batch[e]).to IN Routable(d) /\ Len(down[d]) = HighWater
     ELSE Len(up[e]) = HighWater

(* stop() returns: run() notices running_ within a poll interval, even if  *)
(* nothing arrives, unless it is stuck in a blocking send for good.        *)
StopReturns ==
  \A e \in Ends :
    []<>~Stuck(e) => (stopping[e] = "joining" ~> stopping[e] = "done")

(* Both threads wait for each other to read. *)
Gridlock == \E d \in Dealers : Stuck(d) /\ Stuck(Router)

Live == \A e \in Ends : running[e]

(* While the channels run, every message a dealer sends is handled by the  *)
(* Room server, also when it was queued before the router was there. The   *)
(* one exception is that both ends fill their pipes and block at once,     *)
(* since neither thread reads while it sends.                              *)
Delivered ==
  \A d \in Dealers : \A n \in 1..MaxSends :
    <>[]Live /\ []<>~Gridlock => (Len(sent[d]) >= n ~> Len(heard[d]) >= n)

=============================================================================
