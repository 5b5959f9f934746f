---------------------------- MODULE RequestPath ----------------------------
(***************************************************************************)
(* The way of a join request from a session of the User server to a room   *)
(* of the Room server and back: room_channel with PendingRequests, the two *)
(* directions of the routed channel, user_channel with QueuedRequests, and *)
(* the room's strand.  The User server can stop, or crash at any moment,   *)
(* and is started again with a new routing identity.                       *)
(*                                                                         *)
(* One user joins one room that stays open; what else rooms do is in       *)
(* RoomServer, what sessions do with the outcome in UserSession, and what  *)
(* the channel does to messages while both ends run in RoutedChannel.      *)
(* Here a channel keeps messages in order and loses what was not yet       *)
(* transferred when its end goes away.  Both servers read one clock.       *)
(***************************************************************************)
EXTENDS QueuedRequests, PendingParameters, Sequences

CONSTANTS
  MaxBoots  \* bound on the starts of the User server

Boots == 1..MaxBoots

ASSUME PathAssumption ==
  /\ MaxBoots \in Nat \ {0}
  /\ Keys = Boots \X Ids /\ Tickets = Keys
  /\ MaxTime = MaxClock

VARIABLES
  requests, running, timer, waiter, owner, deadline, arrived, outcome, dropped,
  boot,      \* which start of the User server this is
  sending,   \* ids between requests_.add() and channel_.send()
  toRoom,    \* messages on their way to the Room server, by start
  toUser,    \* responses on their way to the User server
  strand,    \* joins posted to the room's strand
  joining,   \* the join whose task has begun, as a sequence of at most one
  route,     \* the route in the room's users_; 0 while the user is not in it
  issued,    \* history: requests that were added
  applied,   \* history: requests whose join was carried out, in order
  told,      \* history: the callback made for a request
  revoked    \* history: requests cancelled before they had begun, for as
             \* long as their ticket or their terminal record says so

userVars == <<requests, running, timer, waiter, owner, deadline, arrived, outcome, dropped>>
registryVars == <<active, terminal, ticket, holder, finished>>
pipes == <<toRoom, toUser>>
roomVars == <<strand, joining, route>>
history == <<issued, applied, told>>
pathVars == <<clock, userVars, registryVars, boot, sending, pipes, roomVars, history, revoked>>

Pending == INSTANCE PendingRequests

(* Variant of Identity: the same one after a restart. *)
FixedIdentity(b) == 1

(* make_routing_identity() *)
Identity(b) == b

Key(b, id) == <<Identity(b), id>>

PathInit ==
  /\ Init
  /\ Pending!Init
  /\ boot = 1
  /\ sending = {}
  /\ toRoom = [b \in Boots |-> <<>>] /\ toUser = <<>>
  /\ strand = <<>> /\ joining = <<>>
  /\ route = 0
  /\ issued = {} /\ applied = <<>>
  /\ told = [q \in Keys |-> "nothing"]
  /\ revoked = {}

ToRoom(op, id) == toRoom' = [toRoom EXCEPT ![boot] = Append(@, [op |-> op, id |-> id])]

Tell(id, what) == told' = [told EXCEPT ![<<boot, id>>] = what]

Abandon(qs) == told' = [q \in Keys |-> IF q \in qs /\ told[q] = "nothing"
                                       THEN "abandoned" ELSE told[q]]

-----------------------------------------------------------------------------
(* The User server: room_channel *)

(* send_request, up to requests_.add(). *)
AddRequest(id) ==
  /\ owner \notin {"new", "cleared"}
  /\ Pending!Add(id)
  /\ sending' = sending \cup {id}
  /\ issued' = issued \cup {<<boot, id>>}
  /\ UNCHANGED <<registryVars, revoked, boot, pipes, roomVars, applied, told>>

(* send_request: channel_.send(), which a timeout may have overtaken. *)
SendRequest(id) ==
  /\ id \in sending
  /\ sending' = sending \ {id}
  /\ ToRoom("join", id)
  /\ UNCHANGED <<clock, userVars, registryVars, revoked, boot, toUser, roomVars, history>>

(* cancel_request, on the strand that has sent the request. *)
CancelRequest(id) ==
  /\ id \notin sending
  /\ Pending!Cancel(id)
  /\ ToRoom("cancel", id)
  /\ Abandon({<<boot, id>>})
  /\ UNCHANGED <<registryVars, revoked, boot, sending, toUser, roomVars, issued, applied>>

(* The timer's callback: send_cancel, and the session is told. *)
TimeoutCallback(id) ==
  /\ Pending!TimerCall(id)
  /\ ToRoom("cancel", id)
  /\ Tell(id, "timeout")
  /\ UNCHANGED <<registryVars, revoked, boot, sending, toUser, roomVars, issued, applied>>

(* on_recv of a response: send_to_waiter. *)
ReceiveResponse ==
  /\ toUser # <<>>
  /\ Pending!CompleteBegin(Head(toUser))
  /\ toUser' = Tail(toUser)
  /\ UNCHANGED <<registryVars, revoked, boot, sending, toRoom, roomVars, history>>

(* The callback of complete(): the response, or a timeout if it is late. *)
ResponseCallback ==
  /\ Pending!CompleteCall
  /\ IF waiter.late
     THEN Tell(waiter.id, "timeout") /\ ToRoom("cancel", waiter.id)
     ELSE Tell(waiter.id, "response") /\ UNCHANGED toRoom
  /\ UNCHANGED <<registryVars, revoked, boot, sending, toUser, roomVars, issued, applied>>

TableOnly == UNCHANGED <<registryVars, revoked, boot, sending, pipes, roomVars, history>>

TimerStep ==
  /\ Pending!TimerWake \/ Pending!TimerExpire \/ Pending!TimerWait \/ Pending!TimerExit
  /\ TableOnly

WaiterStep == (Pending!CompleteTake \/ Pending!CompleteUnknown) /\ TableOnly

(* start(), and the beginning of stop(). *)
OwnerStep == (Pending!Start \/ Pending!StopRequest) /\ TableOnly

(* stop(): the requests that are cleared are not called back. *)
StopTable ==
  /\ Pending!StopJoin \/ Pending!ClearAgain
  /\ Abandon({<<boot, id>> : id \in DOMAIN requests})
  /\ UNCHANGED <<registryVars, revoked, boot, sending, pipes, roomVars, issued, applied>>

(* What has not been transferred when the User server's socket closes is   *)
(* lost, in both directions.                                               *)
LosePipes ==
  /\ \E kept \in 0..Len(toRoom[boot]) :
       toRoom' = [toRoom EXCEPT ![boot] = SubSeq(@, 1, kept)]
  /\ toUser' = <<>>

(* stop(): channel_.stop() *)
StopChannel ==
  /\ Pending!StopChannel
  /\ LosePipes
  /\ UNCHANGED <<registryVars, revoked, boot, sending, roomVars, history>>

(* The process ends, wherever it stands, and is started again. *)
Restart ==
  /\ boot < MaxBoots
  /\ boot' = boot + 1
  /\ LosePipes
  /\ sending' = {}
  /\ requests' = EmptyMap /\ running' = FALSE
  /\ timer' = Pending!TimerOff /\ waiter' = Pending!NoResponse /\ owner' = "new"
  /\ deadline' = EmptyMap /\ arrived' = EmptyMap
  /\ outcome' = [id \in Ids |-> <<>>] /\ dropped' = {}
  /\ Abandon({q \in issued : q[1] = boot})
  /\ UNCHANGED <<clock, registryVars, revoked, roomVars, issued, applied>>

-----------------------------------------------------------------------------
(* The Room server: user_channel and the room's strand *)

(* Messages of several starts of the User server come by separate pipes. *)
Receive(b, op) ==
  /\ toRoom[b] # <<>> /\ Head(toRoom[b]).op = op
  /\ toRoom' = [toRoom EXCEPT ![b] = Tail(@)]

Remembered(qs) ==
  revoked' = {q \in qs : \/ Key(q[1], q[2]) \in DOMAIN terminal'
                         \/ ticket'[Key(q[1], q[2])] = "cancelled"}

(* handle_request: admit() hands out a ticket, and the join is posted. *)
AdmitJoin(b, now) ==
  LET id == Head(toRoom[b]).id
  IN  /\ Receive(b, "join")
      /\ Admit(Key(b, id), Key(b, id), now)
      /\ strand' = Append(strand, <<b, id>>)
      /\ Remembered(revoked)
      /\ UNCHANGED <<userVars, boot, sending, toUser, joining, route, history>>

(* handle_request: admit() refuses, and nobody is told. *)
RefuseJoin(b, now) ==
  /\ Receive(b, "join")
  /\ Refuse(Key(b, Head(toRoom[b]).id), now)
  /\ Remembered(revoked)
  /\ UNCHANGED <<userVars, boot, sending, toUser, roomVars, history>>

(* on_recv of a cancellation. *)
CancelJoin(b, now) ==
  LET id == Head(toRoom[b]).id
  IN  /\ Receive(b, "cancel")
      /\ Cancel(Key(b, id), now)
      /\ Remembered(revoked \cup {q \in {<<b, id>>} : ticket[Key(b, id)] # "started"})
      /\ UNCHANGED <<userVars, boot, sending, toUser, roomVars, history>>

(* Variant of BeginJoin: a member that joins again keeps its route. *)
BeginJoinKeepsRoute ==
  LET q == Head(strand)
      begun == ticket[Key(q[1], q[2])] = "queued"
  IN  /\ strand # <<>> /\ joining = <<>>
      /\ TryStart(Key(q[1], q[2]))
      /\ strand' = Tail(strand) /\ joining' = <<q>>
      /\ applied' = IF begun THEN Append(applied, q) ELSE applied
      /\ route' = IF begun /\ route = 0 THEN Identity(q[1]) ELSE route
      /\ UNCHANGED <<userVars, revoked, boot, sending, pipes, issued, told>>

(* The task of room::join_room: begin(), and the user is a member with the *)
(* route of this request.                                                  *)
BeginJoin ==
  LET q == Head(strand)
      begun == ticket[Key(q[1], q[2])] = "queued"
  IN  /\ strand # <<>> /\ joining = <<>>
      /\ TryStart(Key(q[1], q[2]))
      /\ strand' = Tail(strand) /\ joining' = <<q>>
      /\ applied' = IF begun THEN Append(applied, q) ELSE applied
      /\ route' = IF begun THEN Identity(q[1]) ELSE route
      /\ UNCHANGED <<userVars, revoked, boot, sending, pipes, issued, told>>

(* The completion of handle_request: finish(), and the response if the     *)
(* ticket was started.  The router drops it when the route is gone.        *)
CompleteJoin(now) ==
  LET q == joining[1]
      key == Key(q[1], q[2])
      reached == /\ ticket[key] = "started"
                 /\ Identity(q[1]) = Identity(boot)
                 /\ owner \notin {"new", "quitting", "cleared"}
  IN  /\ joining # <<>>
      /\ Finish(key, key, now)
      /\ Remembered(revoked)
      /\ joining' = <<>>
      /\ toUser' = IF reached THEN Append(toUser, q[2]) ELSE toUser
      /\ UNCHANGED <<userVars, boot, sending, toRoom, strand, route, history>>

-----------------------------------------------------------------------------

TimePasses ==
  /\ Tick /\ Pending!Tick
  /\ UNCHANGED <<revoked, boot, sending, pipes, roomVars, history>>

Timer == TimerStep \/ \E id \in Ids : TimeoutCallback(id)
Waiter == WaiterStep \/ ReceiveResponse \/ ResponseCallback
Stop == StopTable \/ StopChannel

UserStep ==
  \/ \E id \in Ids : AddRequest(id) \/ SendRequest(id) \/ CancelRequest(id)
  \/ Timer \/ Waiter \/ OwnerStep \/ Stop
  \/ Restart

RoomStep ==
  \/ \E now \in Now :
       \/ \E b \in Boots : AdmitJoin(b, now) \/ RefuseJoin(b, now) \/ CancelJoin(b, now)
       \/ CompleteJoin(now)
  \/ BeginJoin

PathNext == TimePasses \/ UserStep \/ RoomStep

PathSpec == PathInit /\ [][PathNext]_pathVars

(* Time passes, the User server's threads run and a stop() is carried      *)
(* through; the Room server is owed nothing.                               *)
FairSpec ==
  /\ PathSpec
  /\ WF_pathVars(TimePasses) /\ WF_pathVars(Timer) /\ WF_pathVars(Waiter)
  /\ WF_pathVars(Stop)

-----------------------------------------------------------------------------
(* Properties *)

Promise == INSTANCE RequestPromise WITH Requests <- Keys

(* With timeouts, cancellations, late answers, stops and crashes, the two  *)
(* registries keep the promise between them: a join is carried out at most *)
(* once, its session hears of it at most once, and of a response only      *)
(* after this very join was carried out.  "A restarted User must not reuse *)
(* an old route/request-id cancellation key": what an earlier start left   *)
(* in the registry or in the channel does not meet a new request.          *)
RefinesPromise == Promise!Spec

(* However response, timeout, cancellation, stop() and the Room server's   *)
(* answers race, a request of this start has exactly one fate in the User  *)
(* server's table.                                                         *)
OneFate == Pending!OneFate

(* A join is not carried out while the Room server knows it as cancelled,  *)
(* also when the timer's cancellation overtook the request and only a      *)
(* terminal record tells of it.                                            *)
CancelPrevails == \A n \in DOMAIN applied : applied[n] \notin revoked

(* "Rejoining an existing member refreshes delivery after User restarts":  *)
(* once a join of the running User server is answered, the room delivers   *)
(* to it, unless a join of an earlier start is carried out even later.     *)
RejoinRefreshes ==
  \A id \in Ids : told[<<boot, id>>] = "response" =>
    \/ route = Identity(boot)
    \/ \E m, n \in DOMAIN applied : m < n /\ applied[m] = <<boot, id>> /\ applied[n][1] < boot

(* Every request ends: the session is called back, or has given it up, or  *)
(* its server stopped or was started again.                                *)
EveryRequestEnds == \A q \in Keys : q \in issued ~> told[q] # "nothing"

=============================================================================
