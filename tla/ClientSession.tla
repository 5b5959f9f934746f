---------------------------- MODULE ClientSession ----------------------------
(***************************************************************************)
(* The command line client: client_session, its states, and main()'s loop  *)
(* over standard input, connected to its session on the User server.       *)
(*                                                                         *)
(* The client has one thread.  A handler runs to its end, except that the  *)
(* frames of one read are dispatched one step at a time: `handling` keeps  *)
(* every other handler waiting.  What the server sends travels as bytes,   *)
(* and a read returns any number of them; what the client sends is         *)
(* abstracted to message types.  The server side is the answers that the   *)
(* session's jobs give, one request at a time and in order, and their view *)
(* of the room; how they come by them is UserSession and RoomServer.       *)
(***************************************************************************)
EXTENDS Framing

CONSTANTS
  RoomIds,      \* room ids, a byte each
  ReadSize,     \* size of read_buffer_: 128
  MaxCommands,  \* bound on the lines typed
  MaxPushes     \* bound on the messages the server sends unasked

ASSUME ClientAssumption ==
  /\ RoomIds \subseteq 1..(Base - 1)
  /\ {ReadSize, MaxCommands, MaxPushes} \subseteq Nat
  /\ MaxPayload >= 2 /\ Base ^ TypeLen > 30

VARIABLES
  cli,       \* the client_session object
  buffer,    \* interpreter_.buffer_
  handling,  \* inside handle_buffer()
  reading,   \* an async_read_some is outstanding
  typing,    \* an async_read_until on standard input is outstanding
  inbox,     \* bytes on the way to the client
  requests,  \* messages on the way to the session, or waiting for its jobs
  session,   \* the server's session
  commands,  \* history: lines typed
  pushes,    \* history: messages the server sent unasked
  sent,      \* history: frames the server sent
  handled,   \* history: frames the client dispatched
  seen,      \* history: messages the session received
  rejected   \* history: handle_buffer() has returned false

client == <<cli, buffer, handling, reading, typing>>
server == <<inbox, requests, session>>
history == <<commands, pushes, sent, handled, seen, rejected>>
vars == <<client, server, history>>

(* The message types the client may receive, as message_type.proto numbers *)
(* them, and one that it does not know.                                    *)
MessageType ==
  [Ping |-> 0, ResLogin |-> 3, ResLogout |-> 5, ResCreateRoom |-> 7, ResJoinRoom |-> 9,
   FwdClient |-> 12, NtfLeaveRoom |-> 23, ResLeaveRoom |-> 25, Unknown |-> 30]

(* Payloads, as far as the client looks at them: a field that has its      *)
(* default value takes no bytes.                                           *)
Plain == <<>>
Success == <<1>>
Entered(i) == <<1, i>>
Garbled == <<0>>

(* serializer::deserialize succeeds. *)
Parses(payload) == payload # Garbled

Succeeded(payload) == Len(payload) > 0 /\ payload[1] = 1

-----------------------------------------------------------------------------
(* client_session's operations, as functions of the object *)

(* The object after construction and start(). *)
Started ==
  [state |-> "init", pending |-> "command", roomId |-> 0, stopped |-> FALSE,
   queue |-> <<>>, write |-> "none", input |-> TRUE, asked |-> <<>>]

(* Variant of Finish: the exit handler is not called. *)
FinishSilently(c) ==
  IF c.stopped THEN c ELSE [c EXCEPT !.stopped = TRUE, !.state = "exit"]

(* finish(): closes the socket; main's exit handler closes the input. *)
Finish(c) ==
  IF c.stopped
  THEN c
  ELSE [c EXCEPT !.stopped = TRUE, !.state = "exit", !.input = FALSE]

(* transition_to(): a new state object, which waits for a command; the     *)
(* constructor of state_exit clears the context.                           *)
TransitionTo(c, next) ==
  LET entered == [c EXCEPT !.state = next, !.pending = "command"]
  IN  IF c.stopped THEN c
      ELSE IF next = "exit" THEN Finish([entered EXCEPT !.roomId = 0])
      ELSE entered

(* Variant of QueueWrite: starts a write although one is under way. *)
QueueWriteAtOnce(c, message) ==
  IF c.stopped
  THEN c
  ELSE [c EXCEPT !.queue = Append(@, message), !.asked = Append(@, message),
                 !.write = "started"]

(* queue_write(): a write is started unless one is under way. *)
QueueWrite(c, message) ==
  IF c.stopped
  THEN c
  ELSE [c EXCEPT !.queue = Append(@, message), !.asked = Append(@, message),
                 !.write = IF c.queue = <<>> THEN "started" ELSE @]

(* write_next(), once the front of the queue has been written. *)
WriteNext(c) ==
  LET rest == Tail(c.queue)
  IN  [c EXCEPT !.queue = rest,
                !.write = IF c.stopped \/ rest = <<>> THEN "none" ELSE "started"]

-----------------------------------------------------------------------------
(* The states: what a line typed does *)

Lines == {"1", "2", "3", "4", "text"}

(* state_init: any line is a user name. *)
InitCommand(c, line) == QueueWrite(c, "ReqLogin")

(* state_login: a menu; after "3" a room id, which must be a number. *)
LoginCommand(c, line) ==
  CASE c.pending = "roomId" /\ line = "text" -> c
    [] c.pending = "roomId" /\ line # "text" ->
         QueueWrite([c EXCEPT !.pending = "command"], "ReqJoinRoom")
    [] c.pending = "command" /\ line = "1" -> QueueWrite(c, "ReqLogout")
    [] c.pending = "command" /\ line = "2" -> QueueWrite(c, "ReqCreateRoom")
    [] c.pending = "command" /\ line = "3" -> [c EXCEPT !.pending = "roomId"]
    [] c.pending = "command" /\ line \in {"4", "text"} -> c

(* state_in_room: a menu; after "2" a message, after "4" a user name, both *)
(* sent as a FwdRoom.                                                      *)
RoomCommand(c, line) ==
  CASE c.pending \in {"message", "kickoutUser"} ->
         QueueWrite([c EXCEPT !.pending = "command"], "FwdRoom")
    [] c.pending = "command" /\ line = "1" -> QueueWrite(c, "ReqLogout")
    [] c.pending = "command" /\ line = "2" -> [c EXCEPT !.pending = "message"]
    [] c.pending = "command" /\ line = "3" -> QueueWrite(c, "ReqLeaveRoom")
    [] c.pending = "command" /\ line = "4" -> [c EXCEPT !.pending = "kickoutUser"]
    [] c.pending = "command" /\ line = "text" -> c

(* handle_command() *)
HandleCommand(c, line) ==
  CASE c.stopped -> c
    [] ~c.stopped /\ c.state = "init" -> InitCommand(c, line)
    [] ~c.stopped /\ c.state = "loggedIn" -> LoginCommand(c, line)
    [] ~c.stopped /\ c.state = "inRoom" -> RoomCommand(c, line)

-----------------------------------------------------------------------------
(* The states: what a message does *)

(* base_state: a ping is answered, anything else unexpected ends the client. *)
BaseMessage(c, type) ==
  IF type = MessageType.Ping THEN QueueWrite(c, "Pong") ELSE TransitionTo(c, "exit")

InitMessage(c, type, payload) ==
  IF type # MessageType.ResLogin THEN BaseMessage(c, type)
  ELSE IF Parses(payload) THEN TransitionTo(c, "loggedIn")
  ELSE c

HandleResLogout(c, payload) ==
  IF Parses(payload) THEN TransitionTo(c, "exit") ELSE c

(* handle_res_create_room, handle_res_join_room: a failure returns to the  *)
(* menu, enter(), also from the question for a room id.                    *)
HandleResRoom(c, payload) ==
  IF ~Parses(payload) THEN c
  ELSE IF ~Succeeded(payload) THEN [c EXCEPT !.pending = "command"]
  ELSE TransitionTo([c EXCEPT !.roomId = payload[2]], "inRoom")

LoginMessage(c, type, payload) ==
  CASE type = MessageType.ResLogout -> HandleResLogout(c, payload)
    [] type \in {MessageType.ResCreateRoom, MessageType.ResJoinRoom} ->
         HandleResRoom(c, payload)
    [] OTHER -> BaseMessage(c, type)

(* Variant of HandleNtfLeaveRoom: the room id stays. *)
HandleNtfKeepsId(c, payload) ==
  IF Parses(payload) THEN TransitionTo(c, "loggedIn") ELSE c

HandleNtfLeaveRoom(c, payload) ==
  IF Parses(payload) THEN TransitionTo([c EXCEPT !.roomId = 0], "loggedIn") ELSE c

(* Variant of HandleResLeaveRoom: leaves whatever the answer says. *)
HandleResLeaveAnyway(c, payload) ==
  IF Parses(payload) THEN TransitionTo([c EXCEPT !.roomId = 0], "loggedIn") ELSE c

HandleResLeaveRoom(c, payload) ==
  IF Parses(payload) /\ Succeeded(payload)
  THEN TransitionTo([c EXCEPT !.roomId = 0], "loggedIn")
  ELSE c

(* handle_fwd_client only shows the message. *)
RoomMessage(c, type, payload) ==
  CASE type = MessageType.ResLogout -> HandleResLogout(c, payload)
    [] type = MessageType.FwdClient -> c
    [] type = MessageType.NtfLeaveRoom -> HandleNtfLeaveRoom(c, payload)
    [] type = MessageType.ResLeaveRoom -> HandleResLeaveRoom(c, payload)
    [] OTHER -> BaseMessage(c, type)

(* client_session::dispatch() *)
Dispatch(c, type, payload) ==
  CASE c.stopped -> c
    [] ~c.stopped /\ c.state = "init" -> InitMessage(c, type, payload)
    [] ~c.stopped /\ c.state = "loggedIn" -> LoginMessage(c, type, payload)
    [] ~c.stopped /\ c.state = "inRoom" -> RoomMessage(c, type, payload)

-----------------------------------------------------------------------------
(* The client's handlers *)

Init ==
  /\ cli = Started /\ buffer = <<>> /\ handling = FALSE
  /\ reading = TRUE /\ typing = TRUE
  /\ inbox = <<>> /\ requests = <<>>
  /\ session = [room |-> 0, open |-> TRUE, refused |-> FALSE]
  /\ commands = 0 /\ pushes = 0 /\ rejected = FALSE
  /\ sent = <<>> /\ handled = <<>> /\ seen = <<>>

(* read_command's handler with a line: the next one is read unless the     *)
(* client has exited.  The line may have been read just before finish().   *)
ReadCommand(line) ==
  /\ typing /\ ~handling /\ commands < MaxCommands
  /\ cli' = HandleCommand(cli, line)
  /\ typing' = (cli'.state # "exit")
  /\ commands' = commands + 1
  /\ UNCHANGED <<buffer, handling, reading, server, pushes, sent, handled, seen, rejected>>

(* read_command's handler at the end of the input: stop().  After the exit *)
(* handler the read is aborted, and nothing is done.                       *)
InputEnds ==
  /\ typing /\ ~handling
  /\ typing' = FALSE
  /\ cli' = IF cli.input THEN TransitionTo(cli, "exit") ELSE cli
  /\ UNCHANGED <<buffer, handling, reading, server, history>>

(* read_next's handler with n bytes: handle_buffer() appends them. *)
ReadSome(n) ==
  /\ reading /\ ~handling
  /\ n <= Len(inbox)
  /\ buffer' = buffer \o SubSeq(inbox, 1, n)
  /\ inbox' = SubSeq(inbox, n + 1, Len(inbox))
  /\ handling' = TRUE /\ reading' = FALSE
  /\ UNCHANGED <<cli, typing, requests, session, history>>

(* read_next's handler with an error: the socket is closed on either side. *)
ReadError ==
  /\ reading /\ ~handling
  /\ cli.stopped \/ ~session.open
  /\ cli' = Finish(cli)
  /\ reading' = FALSE
  /\ UNCHANGED <<buffer, handling, typing, server, history>>

(* handle_buffer's loop: a complete frame is cut off and dispatched. *)
HandleFrame ==
  LET meta == DestructBuffer(buffer)
  IN  /\ handling /\ meta.status = "complete"
      /\ buffer' = SubSeq(buffer, meta.size + 1, Len(buffer))
      /\ cli' = Dispatch(cli, meta.type, meta.payload)
      /\ handled' = Append(handled, [type |-> meta.type, payload |-> meta.payload])
      /\ UNCHANGED <<handling, reading, typing, server, commands, pushes, sent, seen, rejected>>

(* handle_buffer's loop: the rest is no frame yet, read_next(). *)
HandleRest ==
  /\ handling /\ DestructBuffer(buffer) = Incomplete
  /\ handling' = FALSE
  /\ reading' = ~cli.stopped
  /\ UNCHANGED <<cli, buffer, typing, server, history>>

(* handle_buffer's loop: a frame over the limit ends the client. *)
HandleInvalid ==
  /\ handling /\ DestructBuffer(buffer) = Invalid
  /\ buffer' = <<>>
  /\ handling' = FALSE
  /\ rejected' = TRUE
  /\ cli' = TransitionTo(cli, "exit")
  /\ UNCHANGED <<reading, typing, server, commands, pushes, sent, handled, seen>>

(* write_next's handler: the front of the queue has been written. *)
WriteDone ==
  /\ cli.write = "transmitted" /\ ~handling
  /\ cli' = WriteNext(cli)
  /\ UNCHANGED <<buffer, handling, reading, typing, server, history>>

(* write_next's handler with an error. *)
WriteError ==
  /\ cli.write # "none" /\ ~handling
  /\ cli.stopped \/ ~session.open
  /\ cli' = TransitionTo([cli EXCEPT !.write = "none"], "exit")
  /\ UNCHANGED <<buffer, handling, reading, typing, server, history>>

-----------------------------------------------------------------------------
(* The network and the server *)

(* The message being written reaches the session, which may answer before  *)
(* the client's write handler runs.                                        *)
Transmit ==
  /\ cli.write = "started" /\ ~cli.stopped /\ session.open
  /\ cli' = [cli EXCEPT !.write = "transmitted"]
  /\ requests' = Append(requests, Head(cli.queue))
  /\ seen' = Append(seen, Head(cli.queue))
  /\ UNCHANGED <<buffer, handling, reading, typing, inbox, session,
                 commands, pushes, sent, handled, rejected>>

(* The session sends a frame; nothing arrives at a closed socket. *)
Post(type, payload) ==
  /\ session.open /\ ~cli.stopped
  /\ inbox' = inbox \o Serialize(MessageType[type], payload)
  /\ sent' = Append(sent, [type |-> MessageType[type], payload |-> payload])

Take(request) ==
  /\ requests # <<>> /\ Head(requests) = request
  /\ requests' = Tail(requests)
  /\ UNCHANGED <<client, commands, pushes, handled, seen, rejected>>

AnswerLogin ==
  /\ Take("ReqLogin") /\ Post("ResLogin", Plain)
  /\ UNCHANGED session

(* job_logout: a last answer, and a graceful close behind it. *)
AnswerLogout ==
  /\ Take("ReqLogout") /\ Post("ResLogout", Plain)
  /\ session' = [session EXCEPT !.open = FALSE]

Enter(i) == session' = [session EXCEPT !.room = i, !.refused = FALSE]

AnswerCreate(i) ==
  /\ Take("ReqCreateRoom") /\ Post("ResCreateRoom", Entered(i))
  /\ Enter(i)

AnswerJoin(i) ==
  /\ Take("ReqJoinRoom") /\ Post("ResJoinRoom", Entered(i))
  /\ Enter(i)

RefuseJoin ==
  /\ Take("ReqJoinRoom") /\ Post("ResJoinRoom", Plain)
  /\ UNCHANGED session

AnswerLeave ==
  /\ Take("ReqLeaveRoom") /\ Post("ResLeaveRoom", Success)
  /\ session' = [session EXCEPT !.room = 0]

(* job_leave_room calls set_leave_room() for a refusal as well. *)
RefuseLeave ==
  /\ Take("ReqLeaveRoom") /\ Post("ResLeaveRoom", Plain)
  /\ session' = [session EXCEPT !.room = 0, !.refused = TRUE]

(* send_timeout_response() of the three jobs. *)
AnswerTimeout ==
  /\ \/ Take("ReqCreateRoom") /\ Post("ResCreateRoom", Plain)
     \/ Take("ReqJoinRoom") /\ Post("ResJoinRoom", Plain)
     \/ Take("ReqLeaveRoom") /\ Post("ResLeaveRoom", Plain)
  /\ UNCHANGED session

(* job_forward_message and on_recv(Pong) answer nothing. *)
AnswerNothing ==
  /\ session.open
  /\ Take("FwdRoom") \/ Take("Pong")
  /\ UNCHANGED <<inbox, session, sent>>

Push ==
  /\ pushes < MaxPushes
  /\ pushes' = pushes + 1
  /\ UNCHANGED <<client, requests, commands, handled, seen, rejected>>

(* job_cli_forward_message: a message from the room. *)
PushForward ==
  /\ Push /\ Post("FwdClient", Success)
  /\ UNCHANGED session

(* job_ntf_leave_room_message: the user was kicked out. *)
PushLeave ==
  /\ Push /\ Post("NtfLeaveRoom", Success)
  /\ session' = [session EXCEPT !.room = 0]

(* What a server of another version may send: heartbeats, types and        *)
(* payloads this client does not know, a payload over its limit.           *)
PushForeign ==
  /\ Push
  /\ \/ Post("Ping", Plain)
     \/ Post("Unknown", Plain)
     \/ \E type \in {"ResLogin", "ResLogout", "ResCreateRoom", "NtfLeaveRoom", "ResLeaveRoom"} :
          Post(type, Garbled)
     \/ Post("FwdClient", [n \in 1..(MaxPayload + 1) |-> 1])
  /\ UNCHANGED session

(* The connection ends on the server's side. *)
ServerCloses ==
  /\ session.open
  /\ session' = [session EXCEPT !.open = FALSE]
  /\ UNCHANGED <<client, inbox, requests, history>>

-----------------------------------------------------------------------------

(* io_context.run() has nothing left to wait for. *)
Ended == cli.stopped /\ ~reading /\ ~typing /\ ~handling /\ cli.write = "none"

Rest == Ended /\ UNCHANGED vars

Read == (\E n \in 1..ReadSize : ReadSome(n)) \/ ReadError

Handle == HandleFrame \/ HandleRest \/ HandleInvalid

Write == WriteDone \/ WriteError

Answer ==
  \/ AnswerLogin \/ AnswerLogout \/ AnswerLeave \/ RefuseLeave \/ RefuseJoin
  \/ \E i \in RoomIds : AnswerCreate(i) \/ AnswerJoin(i)
  \/ AnswerTimeout \/ AnswerNothing

Next ==
  \/ \E line \in Lines : ReadCommand(line)
  \/ InputEnds
  \/ Read \/ Handle \/ Write \/ Transmit
  \/ Answer \/ PushForward \/ PushLeave \/ PushForeign \/ ServerCloses
  \/ Rest

Spec == Init /\ [][Next]_vars

(* The client's loop runs; a closed input or socket completes what is      *)
(* outstanding on it.  Users and servers are owed nothing.                 *)
Fairness ==
  /\ WF_vars(Read)
  /\ WF_vars(Handle)
  /\ WF_vars(Write)
  /\ WF_vars(~cli.input /\ InputEnds)

FairSpec == Spec /\ Fairness

-----------------------------------------------------------------------------
(* Properties *)

(* The number of frames whose last byte has been read. *)
Arrived ==
  LET size(k) == Len(Serialize(sent[k].type, sent[k].payload))
      sizes(n) == FoldSeq(+, 0, [k \in 1..n |-> size(k)])
      read == sizes(Len(sent)) - Len(inbox)
  IN  CHOOSE n \in 0..Len(sent) :
        /\ sizes(n) <= read
        /\ n < Len(sent) => sizes(n + 1) > read

(* However a stream is cut into reads, handle_buffer() dispatches exactly  *)
(* the frames that serialize() wrote and that have arrived whole, in order *)
(* and unchanged.  It refuses the stream only at a frame over the limit.   *)
FramesIntact ==
  /\ ~handling /\ ~rejected => handled = SubSeq(sent, 1, Arrived)
  /\ rejected => Len(sent[Len(handled) + 1].payload) > MaxPayload

(* Nothing is under way between client and session. *)
Settled ==
  /\ ~cli.stopped /\ session.open /\ ~handling
  /\ cli.queue = <<>> /\ requests = <<>> /\ inbox = <<>> /\ buffer = <<>>

(* The client's context has a room exactly in the state kInRoom, and once  *)
(* nothing is under way it is the room its session says, even when         *)
(* commands were typed ahead of the answers, requests timed out or a       *)
(* kick-out crossed a request.  The exception is a refused leave: the      *)
(* session forgets the room, the client stays in it.                       *)
ViewsAgree ==
  /\ ~cli.stopped => (cli.state = "inRoom" <=> cli.roomId # 0)
  /\ Settled => cli.roomId = session.room \/ session.refused

(* queue_write() and write_next() write one message at a time: the session *)
(* receives what the states sent, once each and in order, and what it has  *)
(* not received is still in the queue.                                     *)
RequestsInOrder ==
  /\ IsPrefix(seen, cli.asked)
  /\ ~cli.stopped =>
       seen \o (IF cli.write = "transmitted" THEN Tail(cli.queue) ELSE cli.queue) = cli.asked

(* Once the client has exited, or the server has closed the connection,    *)
(* main() returns: every outstanding operation is cancelled, the read of   *)
(* standard input by the exit handler.                                     *)
ProcessEnds == cli.stopped \/ ~session.open ~> Ended

=============================================================================
