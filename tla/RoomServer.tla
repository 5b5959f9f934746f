----------------------------- MODULE RoomServer -----------------------------
(***************************************************************************)
(* The Room server: user_channel (the router thread), room_message_handler,*)
(* room_manager, room, the calls into the contents library, and the        *)
(* shutdown by ~intranet.                                                  *)
(*                                                                         *)
(* Three threads take steps.                                               *)
(*  - The router thread receives one message at a time and runs its        *)
(*    handler (variable router).                                           *)
(*  - The rooms' strand: room_manager fills strands_ with copies of ONE    *)
(*    io_context::strand, so all rooms share a single FIFO of tasks and at *)
(*    most one task runs (variables strand and cur).                       *)
(*  - The main thread stops the channel and then shuts the manager down.   *)
(* A step is what a thread does between two points where another thread    *)
(* can see or change the state it uses: a section under m_ or under the    *)
(* registry's mutex, a ticket's compare-and-swap, an access to users_, a   *)
(* call into contents_.                                                    *)
(*                                                                         *)
(* The registry is QueuedRequests within one retention period (its clock   *)
(* stands still), so a request key needs a single ticket: itself.          *)
(***************************************************************************)
EXTENDS Integers, Sequences, Functions, Maps

CONSTANTS
  Users,        \* uids
  RoomIds,      \* the range rng() draws room ids from
  Rooms,        \* room objects that can be created (bounds creation)
  Requests,     \* (route, request id) keys of create, join, leave requests
  Capacity,     \* capacity of the request registry
  Messages,     \* what clients forward: Chat, or a uid for "kickout:<uid>"
  DistinctIds,  \* whether rng() happens never to draw an id in use
  MaxStrand,    \* the router takes no message while so many tasks wait
  Chat, None

ASSUME RoomServerAssumption ==
  /\ IsFiniteSet(Requests)
  /\ Capacity \in Nat
  /\ MaxStrand \in Nat
  /\ DistinctIds \in BOOLEAN
  /\ Messages \subseteq Users \cup {Chat}
  /\ Chat \notin Users
  /\ None \notin Users \cup RoomIds \cup Rooms \cup Requests \cup {Chat}

VARIABLES
  clock, active, terminal, ticket, holder, finished,  \* requests_
  rooms,      \* room_manager::rooms_, a function from ids to room objects
  userRooms,  \* room_manager::user_rooms_, a function from uids to ids
  stopping,   \* room_manager::stopping_
  roomId,     \* room::room_id_; None before make_shared<room>
  users,      \* room::users_
  life,       \* room::lifecycle_; "unborn" before make_shared<room>
  contents,   \* room::contents_: "null", "built", or "created" once
              \* on_create_room has been called on it
  strand,     \* tasks posted to the strand, oldest first
  cur,        \* the task the strand is running and where it stands
  router,     \* where the router thread stands in a message's handler
  main,       \* progress of main() and ~intranet
  closing,    \* the rooms whose close() shutdown() waits for
  reply,      \* history: the success flags of the responses to a request
  mutated     \* history: requests whose operation has changed a room

registryVars == <<clock, active, terminal, ticket, holder, finished>>
managerVars == <<rooms, userRooms, stopping>>
roomVars == <<roomId, users, life, contents>>
mainVars == <<main, closing>>
historyVars == <<reply, mutated>>
vars == <<registryVars, managerVars, roomVars, strand, cur, router, mainVars,
          historyVars>>

Registry == INSTANCE QueuedRequests
              WITH Keys <- Requests, Tickets <- Requests,
                   Retention <- 1, MaxClock <- 0, MaxDelay <- 0

NoTask == [op |-> "none", room |-> None, uid |-> None, key |-> None]
Idle == [task |-> NoTask, step |-> "idle", done |-> FALSE, notify |-> FALSE]
NoMessage == [pc |-> "recv", op |-> "none", key |-> None, uid |-> None,
              id |-> None, room |-> None, msg |-> None, to |-> {}]

Init ==
  /\ Registry!Init
  /\ rooms = EmptyMap
  /\ userRooms = EmptyMap
  /\ stopping = FALSE
  /\ roomId = [r \in Rooms |-> None]
  /\ users = [r \in Rooms |-> {}]
  /\ life = [r \in Rooms |-> "unborn"]
  /\ contents = [r \in Rooms |-> "null"]
  /\ strand = <<>>
  /\ cur = Idle
  /\ router = NoMessage
  /\ main = "running"
  /\ closing = {}
  /\ reply = [k \in Requests |-> <<>>]
  /\ mutated = {}

(* The manager maps this room's id to this very object. *)
Registered(r) == roomId[r] \in DOMAIN rooms /\ rooms[roomId[r]] = r

Task(op, r) == [NoTask EXCEPT !.op = op, !.room = r]

Post(task) == strand' = Append(strand, task)

-----------------------------------------------------------------------------
(* The router thread: user_channel, room_message_handler, room_manager *)

At(pc) == main # "crashed" /\ router.pc = pc

Ready == main = "running" /\ At("recv") /\ Len(strand) < MaxStrand

(* handle_request: admit() hands out a ticket and the handler starts. *)
Receive(k, message) ==
  /\ Ready
  /\ Registry!Admit(k, k, 0)
  /\ router' = message
  /\ UNCHANGED <<managerVars, roomVars, strand, cur, mainVars, historyVars>>

ReceiveCreate(k, u) ==
  /\ \E r \in Rooms : life[r] = "unborn"
  /\ Receive(k, [NoMessage EXCEPT !.pc = "begin", !.op = "create", !.key = k, !.uid = u])

ReceiveJoin(k, u, i) ==
  Receive(k, [NoMessage EXCEPT !.pc = "find", !.op = "join", !.key = k, !.uid = u, !.id = i])

ReceiveLeave(k, u) ==
  Receive(k, [NoMessage EXCEPT !.pc = "lookup", !.op = "leave", !.key = k, !.uid = u])

(* admit() refuses a duplicate, or any request when the registry is full:  *)
(* handle_request returns without a response.                              *)
ReceiveRefused(k) ==
  /\ Ready
  /\ Registry!Refuse(k, 0)
  /\ UNCHANGED <<managerVars, roomVars, strand, cur, router, mainVars, historyVars>>

ReceiveCancel(k) ==
  /\ Ready
  /\ Registry!Cancel(k, 0)
  /\ UNCHANGED <<managerVars, roomVars, strand, cur, router, mainVars, historyVars>>

ReceiveForward(u, msg) ==
  /\ Ready
  /\ router' = [NoMessage EXCEPT !.pc = "lookup", !.op = "forward", !.uid = u, !.msg = msg]
  /\ UNCHANGED <<registryVars, managerVars, roomVars, strand, cur, mainVars, historyVars>>

(* Create: begin(), before which no cancellation can be received. *)
CreateBegin ==
  /\ At("begin")
  /\ Registry!TryStart(router.key)
  /\ router' = [router EXCEPT !.pc = "create"]
  /\ UNCHANGED <<managerVars, roomVars, strand, cur, mainVars, historyVars>>

(* room_manager::create_room, room::create_room and the response. *)
CreateRoom(r, i) ==
  /\ At("create")
  /\ ~stopping
  /\ life[r] = "unborn"
  /\ DistinctIds => i \notin DOMAIN rooms
  /\ rooms' = With(rooms, i, r)
  /\ userRooms' = With(userRooms, router.uid, i)
  /\ roomId' = [roomId EXCEPT ![r] = i]
  /\ users' = [users EXCEPT ![r] = {router.uid}]
  /\ life' = [life EXCEPT ![r] = "open"]
  /\ contents' = [contents EXCEPT ![r] = "built"]
  /\ Post(Task("created", r))
  /\ Registry!Finish(router.key, router.key, 0)
  /\ reply' = [reply EXCEPT ![router.key] = Append(@, TRUE)]
  /\ mutated' = mutated \cup {router.key}
  /\ router' = NoMessage
  /\ UNCHANGED <<stopping, cur, mainVars>>

(* find_room(uid), first critical section: the user's room id. *)
LookupUser ==
  /\ At("lookup")
  /\ router.uid \in DOMAIN userRooms
  /\ router' = [router EXCEPT !.pc = "find", !.id = userRooms[router.uid]]
  /\ UNCHANGED <<registryVars, managerVars, roomVars, strand, cur, mainVars, historyVars>>

(* find_room(room id), or the second critical section of find_room(uid),   *)
(* for a join or leave: the operation is posted to the strand.             *)
PostRequest ==
  /\ At("find")
  /\ router.op \in {"join", "leave"}
  /\ router.id \in DOMAIN rooms
  /\ Post([op |-> router.op, room |-> rooms[router.id], uid |-> router.uid,
           key |-> router.key])
  /\ router' = NoMessage
  /\ UNCHANGED <<registryVars, managerVars, roomVars, cur, mainVars, historyVars>>

FindsNoRoom ==
  \/ At("lookup") /\ router.uid \notin DOMAIN userRooms
  \/ At("find") /\ router.id \notin DOMAIN rooms

(* Without a room the request is begun and answered at once. *)
RequestWithoutRoom ==
  /\ FindsNoRoom
  /\ router.op \in {"join", "leave"}
  /\ Registry!TryStart(router.key)
  /\ router' = [router EXCEPT !.pc = "reject"]
  /\ UNCHANGED <<managerVars, roomVars, strand, cur, mainVars, historyVars>>

(* Variant of RejectRequest: responds but does not finish the ticket. *)
RejectUnfinished ==
  /\ At("reject")
  /\ reply' = [reply EXCEPT ![router.key] = Append(@, FALSE)]
  /\ router' = NoMessage
  /\ UNCHANGED <<registryVars, managerVars, roomVars, strand, cur, mainVars, mutated>>

(* complete() of a request without a room. *)
RejectRequest ==
  /\ At("reject")
  /\ Registry!Finish(router.key, router.key, 0)
  /\ reply' = [reply EXCEPT ![router.key] = Append(@, FALSE)]
  /\ router' = NoMessage
  /\ UNCHANGED <<managerVars, roomVars, strand, cur, mainVars, mutated>>

ForwardWithoutRoom ==
  /\ FindsNoRoom
  /\ router.op = "forward"
  /\ router' = NoMessage
  /\ UNCHANGED <<registryVars, managerVars, roomVars, strand, cur, mainVars, historyVars>>

FindForward ==
  /\ At("find")
  /\ router.op = "forward"
  /\ router.id \in DOMAIN rooms
  /\ router' = [router EXCEPT !.pc = "call", !.room = rooms[router.id]]
  /\ UNCHANGED <<registryVars, managerVars, roomVars, strand, cur, mainVars, historyVars>>

(* room::on_recv_message calls contents_ on the router thread.  Contents   *)
(* either ask the room to kick a user out, which posts the work, or list   *)
(* the users to echo the message to.                                       *)
DeliverKick ==
  /\ At("call")
  /\ contents[router.room] # "null"
  /\ router.msg # Chat
  /\ Post([op |-> "kick", room |-> router.room, uid |-> router.msg, key |-> None])
  /\ router' = NoMessage
  /\ UNCHANGED <<registryVars, managerVars, roomVars, cur, mainVars, historyVars>>

DeliverChat ==
  /\ At("call")
  /\ contents[router.room] # "null"
  /\ router.msg = Chat
  /\ router' = [router EXCEPT !.pc = "echo", !.to = users[router.room]]
  /\ UNCHANGED <<registryVars, managerVars, roomVars, strand, cur, mainVars, historyVars>>

(* send_to_user: posts the message unless a listed user has gone since. *)
EchoToUsers ==
  /\ At("echo")
  /\ \/ router.to \subseteq users[router.room] /\ Post(Task("send", router.room))
     \/ ~(router.to \subseteq users[router.room]) /\ UNCHANGED strand
  /\ router' = NoMessage
  /\ UNCHANGED <<registryVars, managerVars, roomVars, cur, mainVars, historyVars>>

(* The call goes through a null contents_: the process is gone. *)
DeliverNull ==
  /\ At("call")
  /\ contents[router.room] = "null"
  /\ main' = "crashed"
  /\ UNCHANGED <<registryVars, managerVars, roomVars, strand, cur, router, closing,
                 historyVars>>

(* Undefined behaviour that may end the process as well: on_recv_message   *)
(* is still running in contents the strand has released, or reads users_   *)
(* while the strand writes it.                                             *)
DeliverRaces ==
  /\ \/ At("echo") /\ contents[router.room] = "null"
     \/ /\ At("call") \/ At("echo")
        /\ router.msg = Chat
        /\ cur.task.room = router.room
        /\ cur.step \in {"body", "kicked"}
  /\ main' = "crashed"
  /\ UNCHANGED <<registryVars, managerVars, roomVars, strand, cur, router, closing,
                 historyVars>>

-----------------------------------------------------------------------------
(* The rooms' strand: room *)

Working == main \notin {"crashed", "stopped"}

(* The strand takes the oldest task, which is one of these operations. *)
Take(ops) ==
  /\ Working
  /\ cur = Idle
  /\ strand # <<>>
  /\ Head(strand).op \in ops

Running(ops, step) == Working /\ cur.step = step /\ cur.task.op \in ops

(* room::on_create_room *)
RunCreated ==
  /\ Take({"created"})
  /\ contents' = [contents EXCEPT ![Head(strand).room] = "created"]
  /\ strand' = Tail(strand)
  /\ UNCHANGED <<registryVars, managerVars, roomId, users, life, cur, router, mainVars,
                 historyVars>>

(* Variant of BeginRequest: ignores what begin() returns. *)
BeginRegardless ==
  /\ Take({"join", "leave"})
  /\ Registry!TryStart(Head(strand).key)
  /\ cur' = [Idle EXCEPT !.task = Head(strand), !.step = "body"]
  /\ strand' = Tail(strand)
  /\ UNCHANGED <<managerVars, roomVars, router, mainVars, historyVars>>

(* The head of the lambdas of join_room and leave_room: begin(). *)
BeginRequest ==
  /\ Take({"join", "leave"})
  /\ Registry!TryStart(Head(strand).key)
  /\ cur' = [Idle EXCEPT !.task = Head(strand),
                         !.step = IF ticket[Head(strand).key] = "queued"
                                  THEN "body" ELSE "reply"]
  /\ strand' = Tail(strand)
  /\ UNCHANGED <<managerVars, roomVars, router, mainVars, historyVars>>

(* Variant of JoinBody: joins a room whatever its lifecycle. *)
JoinAnyRoom ==
  /\ Running({"join"}, "body")
  /\ users' = [users EXCEPT ![cur.task.room] = @ \cup {cur.task.uid}]
  /\ mutated' = mutated \cup {cur.task.key}
  /\ cur' = [cur EXCEPT !.step = "reply", !.done = TRUE,
                        !.notify = cur.task.uid \notin users[cur.task.room]]
  /\ UNCHANGED <<registryVars, managerVars, roomId, life, contents, strand, router,
                 mainVars, reply>>

(* The rest of join_room's lambda, up to before_notify. *)
JoinBody ==
  /\ Running({"join"}, "body")
  /\ LET r == cur.task.room
         u == cur.task.uid
     IN  \/ /\ life[r] # "open"
            /\ cur' = [cur EXCEPT !.step = "reply"]
            /\ UNCHANGED <<users, mutated>>
         \/ /\ life[r] = "open"
            /\ users' = [users EXCEPT ![r] = @ \cup {u}]
            /\ mutated' = mutated \cup {cur.task.key}
            /\ cur' = [cur EXCEPT !.step = "reply", !.done = TRUE,
                                  !.notify = u \notin users[r]]
  /\ UNCHANGED <<registryVars, managerVars, roomId, life, contents, strand, router,
                 mainVars, reply>>

(* The rest of leave_room's lambda, up to before_notify. *)
LeaveBody ==
  /\ Running({"leave"}, "body")
  /\ LET r == cur.task.room
         u == cur.task.uid
     IN  \/ /\ life[r] # "open" \/ u \notin users[r]
            /\ cur' = [cur EXCEPT !.step = "reply"]
            /\ UNCHANGED <<users, mutated>>
         \/ /\ life[r] = "open" /\ u \in users[r]
            /\ users' = [users EXCEPT ![r] = @ \ {u}]
            /\ mutated' = mutated \cup {cur.task.key}
            /\ cur' = [cur EXCEPT !.step = "reply", !.done = TRUE, !.notify = TRUE]
  /\ UNCHANGED <<registryVars, managerVars, roomId, life, contents, strand, router,
                 mainVars, reply>>

(* Variant of Complete: responds to a cancelled request too. *)
CompleteRegardless(success) ==
  LET k == cur.task.key
  IN  /\ Registry!Finish(k, k, 0)
      /\ reply' = [reply EXCEPT ![k] = Append(@, success)]
      /\ cur' = IF cur.notify THEN [cur EXCEPT !.step = "notify"] ELSE Idle
      /\ UNCHANGED <<rooms, stopping, roomVars, strand, router, mainVars, mutated>>

(* Variant of Complete: forgets the key instead of finishing it. *)
CompleteForgets(success) ==
  LET k == cur.task.key
  IN  /\ active' = Without(active, {k})
      /\ finished' = finished \cup {k}
      /\ UNCHANGED <<clock, terminal, ticket, holder>>
      /\ reply' = IF ticket[k] = "started"
                  THEN [reply EXCEPT ![k] = Append(@, success)] ELSE reply
      /\ cur' = IF cur.notify THEN [cur EXCEPT !.step = "notify"] ELSE Idle
      /\ UNCHANGED <<rooms, stopping, roomVars, strand, router, mainVars, mutated>>

(* complete(): finish the ticket, respond only if it was started. *)
Complete(success) ==
  LET k == cur.task.key
  IN  /\ Registry!Finish(k, k, 0)
      /\ reply' = IF ticket[k] = "started"
                  THEN [reply EXCEPT ![k] = Append(@, success)] ELSE reply
      /\ cur' = IF cur.notify THEN [cur EXCEPT !.step = "notify"] ELSE Idle
      /\ UNCHANGED <<rooms, stopping, roomVars, strand, router, mainVars, mutated>>

(* Variant of JoinReply: indexes a user whose join was refused. *)
JoinReplyRefused ==
  /\ Running({"join"}, "reply")
  /\ LET joined == Registered(cur.task.room)
     IN  /\ userRooms' = IF joined
                         THEN With(userRooms, cur.task.uid, roomId[cur.task.room])
                         ELSE userRooms
         /\ Complete(joined)

(* before_notify of a join: room_manager::joined_room, then complete(). *)
JoinReply ==
  /\ Running({"join"}, "reply")
  /\ LET joined == cur.done /\ Registered(cur.task.room)
     IN  /\ userRooms' = IF joined
                         THEN With(userRooms, cur.task.uid, roomId[cur.task.room])
                         ELSE userRooms
         /\ Complete(joined)

(* before_notify of a leave: room_manager::left_room, then complete(). *)
LeaveReply ==
  /\ Running({"leave"}, "reply")
  /\ LET u == cur.task.uid
         left == /\ cur.done
                 /\ u \in DOMAIN userRooms
                 /\ userRooms[u] = roomId[cur.task.room]
                 /\ Registered(cur.task.room)
     IN  /\ userRooms' = IF left THEN Without(userRooms, {u}) ELSE userRooms
         /\ Complete(left)

(* contents_->on_user_enter broadcasts to the room. *)
NotifyEnter ==
  /\ Running({"join"}, "notify")
  /\ Post(Task("send", cur.task.room))
  /\ cur' = Idle
  /\ UNCHANGED <<registryVars, managerVars, roomVars, router, mainVars, historyVars>>

(* Variant of NotifyExit: the last one out leaves the room open. *)
NotifyExitOnly ==
  /\ Running({"leave"}, "notify")
  /\ Post(Task("send", cur.task.room))
  /\ cur' = Idle
  /\ UNCHANGED <<registryVars, managerVars, roomVars, router, mainVars, historyVars>>

(* contents_->on_user_exit broadcasts; the last one out closes the room    *)
(* (only the strand changes users_, so it is still empty if it was).       *)
NotifyExit ==
  /\ Running({"leave"}, "notify")
  /\ Post(Task("send", cur.task.room))
  /\ cur' = IF users[cur.task.room] = {} THEN [cur EXCEPT !.step = "empty"] ELSE Idle
  /\ UNCHANGED <<registryVars, managerVars, roomVars, router, mainVars, historyVars>>

(* Variant of CloseRoom: leaves the room's users in user_rooms_. *)
CloseRoomIndexed ==
  /\ Running({"leave"}, "empty")
  /\ LET r == cur.task.room
     IN  /\ rooms' = IF Registered(r) THEN Without(rooms, {roomId[r]}) ELSE rooms
         /\ cur' = IF Registered(r) THEN [cur EXCEPT !.step = "close"] ELSE Idle
  /\ UNCHANGED <<registryVars, userRooms, stopping, roomVars, strand, router, mainVars,
                 historyVars>>

(* room_manager::close_room, up to instance->close(), which on the strand  *)
(* runs close_impl at once.                                                *)
CloseRoom ==
  /\ Running({"leave"}, "empty")
  /\ LET r == cur.task.room
     IN  \/ /\ ~Registered(r)
            /\ cur' = Idle
            /\ UNCHANGED <<rooms, userRooms>>
         \/ /\ Registered(r)
            /\ rooms' = Without(rooms, {roomId[r]})
            /\ userRooms' = Without(userRooms, {u \in DOMAIN userRooms :
                                                  userRooms[u] = roomId[r]})
            /\ cur' = [cur EXCEPT !.step = "close"]
  /\ UNCHANGED <<registryVars, stopping, roomVars, strand, router, mainVars, historyVars>>

(* A close() that shutdown() dispatched. *)
TakeClose ==
  /\ Take({"close"})
  /\ cur' = [Idle EXCEPT !.task = Head(strand), !.step = "close"]
  /\ strand' = Tail(strand)
  /\ UNCHANGED <<registryVars, managerVars, roomVars, router, mainVars, historyVars>>

(* close_impl up to on_destroy_room. *)
CloseImpl ==
  /\ Running({"leave", "close"}, "close")
  /\ LET r == cur.task.room
     IN  /\ life' = [life EXCEPT ![r] = IF @ = "open" THEN "closing" ELSE @]
         /\ cur' = IF life[r] = "open" THEN [cur EXCEPT !.step = "destroy"] ELSE Idle
  /\ UNCHANGED <<registryVars, managerVars, roomId, users, contents, strand, router,
                 mainVars, historyVars>>

(* The rest of close_impl: contents_.reset(), kClosed. *)
ReleaseContents ==
  /\ Running({"leave", "close"}, "destroy")
  /\ contents' = [contents EXCEPT ![cur.task.room] = "null"]
  /\ life' = [life EXCEPT ![cur.task.room] = "closed"]
  /\ cur' = Idle
  /\ UNCHANGED <<registryVars, managerVars, roomId, users, strand, router, mainVars,
                 historyVars>>

(* kick_out_user_impl up to the callback on_kicked_out_user. *)
RunKick ==
  /\ Take({"kick"})
  /\ LET task == Head(strand)
     IN  cur' = IF task.uid \in users[task.room]
                THEN [Idle EXCEPT !.task = task, !.step = "kicked"] ELSE Idle
  /\ strand' = Tail(strand)
  /\ UNCHANGED <<registryVars, managerVars, roomVars, router, mainVars, historyVars>>

(* The rest of kick_out_user_impl. *)
EraseKicked ==
  /\ Running({"kick"}, "kicked")
  /\ users' = [users EXCEPT ![cur.task.room] = @ \ {cur.task.uid}]
  /\ cur' = Idle
  /\ UNCHANGED <<registryVars, managerVars, roomId, life, contents, strand, router,
                 mainVars, historyVars>>

(* send_to_user_impl: the messages leave through the channel. *)
RunSend ==
  /\ Take({"send"})
  /\ strand' = Tail(strand)
  /\ UNCHANGED <<registryVars, managerVars, roomVars, cur, router, mainVars, historyVars>>

-----------------------------------------------------------------------------
(* The main thread: ~intranet *)

(* channel_.stop() joins the router thread between two messages. *)
StopChannel ==
  /\ main = "running"
  /\ router = NoMessage
  /\ main' = "joined"
  /\ UNCHANGED <<registryVars, managerVars, roomVars, strand, cur, router, closing,
                 historyVars>>

(* Variant of Shutdown: waits for rooms it has not asked to close. *)
ShutdownWithoutClose ==
  /\ main = "joined"
  /\ stopping' = TRUE
  /\ rooms' = EmptyMap
  /\ userRooms' = EmptyMap
  /\ closing' = Range(rooms)
  /\ main' = "closing"
  /\ UNCHANGED <<registryVars, roomVars, strand, cur, router, historyVars>>

(* room_manager::shutdown: empty the maps, then dispatch every close().    *)
Shutdown ==
  /\ main = "joined"
  /\ stopping' = TRUE
  /\ rooms' = EmptyMap
  /\ userRooms' = EmptyMap
  /\ closing' = Range(rooms)
  /\ \E n \in 0..Cardinality(Rooms) : \E order \in Bijection(1..n, Range(rooms)) :
       strand' = strand \o [k \in 1..n |-> Task("close", order[k])]
  /\ main' = "closing"
  /\ UNCHANGED <<registryVars, roomVars, cur, router, historyVars>>

(* Variant of StopWorkers: does not wait for the futures. *)
StopWorkersAtOnce ==
  /\ main = "closing"
  /\ cur = Idle
  /\ main' = "stopped"
  /\ UNCHANGED <<registryVars, managerVars, roomVars, strand, cur, router, closing,
                 historyVars>>

(* Every future is ready: the pool is stopped and joined.  Tasks that wait *)
(* on the strand are dropped, the running one is not.                      *)
StopWorkers ==
  /\ main = "closing"
  /\ cur = Idle
  /\ \A r \in closing : life[r] = "closed"
  /\ main' = "stopped"
  /\ UNCHANGED <<registryVars, managerVars, roomVars, strand, cur, router, closing,
                 historyVars>>

(* The process has ended. *)
Terminated == main \in {"stopped", "crashed"} /\ UNCHANGED vars

-----------------------------------------------------------------------------

Environment ==
  \/ \E k \in Requests : \/ \E u \in Users : \/ ReceiveCreate(k, u)
                                             \/ ReceiveLeave(k, u)
                                             \/ \E i \in RoomIds : ReceiveJoin(k, u, i)
                         \/ ReceiveRefused(k)
                         \/ ReceiveCancel(k)
  \/ \E u \in Users, msg \in Messages : ReceiveForward(u, msg)
  \/ StopChannel

Router ==
  \/ CreateBegin
  \/ \E r \in Rooms, i \in RoomIds : CreateRoom(r, i)
  \/ LookupUser \/ PostRequest \/ RequestWithoutRoom \/ RejectRequest
  \/ ForwardWithoutRoom \/ FindForward \/ DeliverKick \/ DeliverChat \/ EchoToUsers
  \/ DeliverNull \/ DeliverRaces

Strand ==
  \/ RunCreated \/ BeginRequest \/ JoinBody \/ LeaveBody \/ JoinReply \/ LeaveReply
  \/ NotifyEnter \/ NotifyExit \/ CloseRoom \/ TakeClose \/ CloseImpl \/ ReleaseContents
  \/ RunKick \/ EraseKicked \/ RunSend

Main == Shutdown \/ StopWorkers

Next == Environment \/ Router \/ Strand \/ Main \/ Terminated

Spec == Init /\ [][Next]_vars

(* The threads keep running; clients, cancellations and the end of main()  *)
(* are owed nothing.                                                       *)
Fairness == WF_vars(Router) /\ WF_vars(Strand) /\ WF_vars(Main)

FairSpec == Spec /\ Fairness

-----------------------------------------------------------------------------
(* Properties *)

(* "A cancellation can win only before the first authoritative mutation":  *)
(* a request whose ticket was cancelled has changed no room and gets no    *)
(* response, wherever the cancel message falls among the strand's steps.   *)
CancelledHasNoEffect ==
  \A k \in Requests :
    ticket[k] = "cancelled" => k \notin mutated /\ reply[k] = <<>>

(* handle_request's completion callback: a started request is answered     *)
(* exactly once, when its ticket is finished; nothing else is answered.    *)
AnsweredOnce ==
  \A k \in Requests :
    Len(reply[k]) = IF k \in finished /\ ticket[k] = "started" THEN 1 ELSE 0

(* What room_manager looks up is sound: a room that find_room can return   *)
(* is open, under its own id, and user_rooms_ never names an id that       *)
(* rooms_ does not have.  joined_room, left_room, create_room, close_room  *)
(* and shutdown keep the maps and the rooms together, although join and    *)
(* leave work on the strand long after the router thread found the room.   *)
LookupsAreSound ==
  /\ \A i \in DOMAIN rooms : roomId[rooms[i]] = i /\ life[rooms[i]] = "open"
  /\ Range(userRooms) \subseteq DOMAIN rooms

(* Without kicks, and while ids are distinct, a user the manager indexes   *)
(* is a member of that room, except between the two halves of the strand's *)
(* leave operation (users_.erase and left_room).                           *)
IndexedIsMember ==
  \A u \in DOMAIN userRooms :
    LET r == rooms[userRooms[u]]
    IN  \/ u \in users[r]
        \/ /\ cur.task.op = "leave" /\ cur.step = "reply"
           /\ cur.task.room = r /\ cur.task.uid = u

(* Every callback that the strand makes into contents_ falls between       *)
(* on_create_room and the end of on_destroy_room of that room.             *)
StrandCallsLiveContents ==
  /\ cur.step \in {"notify", "kicked", "destroy"} => contents[cur.task.room] = "created"
  /\ \A n \in 1..Len(strand) :
       strand[n].op = "created" => contents[strand[n].room] = "built"

(* A room object some thread, task or map still refers to. *)
Referenced(r) ==
  \/ Registered(r)
  \/ cur.task.room = r
  \/ router.room = r
  \/ \E n \in 1..Len(strand) : strand[n].room = r

(* on_destroy_room is "invoked immediately before the room contents are    *)
(* destroyed": no room object is dropped while still open, that is without *)
(* close_impl having run, at the latest when the workers have stopped.     *)
DestroyAnnounced ==
  \A r \in Rooms :
    life[r] = "open" /\ main # "crashed" => main # "stopped" /\ Referenced(r)

(* The request registry inside the server behaves as QueuedRequests.       *)
RefinesRegistry == Registry!Spec

(* Every admitted request is finished: the strand reaches its task, unless *)
(* the process ends first.                                                 *)
RequestsFinish ==
  \A k \in Requests :
    k \in DOMAIN active ~> k \notin DOMAIN active \/ ~Working

(* ~intranet returns: once the channel has stopped, every room is closed   *)
(* and the workers are joined.                                             *)
ShutdownCompletes == main = "joined" ~> main = "stopped"

(* Without kicks, and while ids are distinct, a room whose last user has   *)
(* left is closed by that leave.                                           *)
EmptyRoomCloses ==
  \A r \in Rooms :
    life[r] = "open" /\ users[r] = {} ~> life[r] = "closed" \/ main = "crashed"

-----------------------------------------------------------------------------
(* What the repository says of the contents' callbacks, not met by the     *)
(* calls made on the router thread                                         *)

Deliver == DeliverKick \/ DeliverChat \/ DeliverNull

(* contents.hpp: on_destroy_room "is last interface that sent before       *)
(* destroy the object".                                                    *)
DestroyComesLast == [][Deliver => life[router.room] = "open"]_vars

=============================================================================
