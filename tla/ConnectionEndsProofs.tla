------------------------ MODULE ConnectionEndsProofs ------------------------
(***************************************************************************)
(* The two ends of a client's connection.                                  *)
(*                                                                         *)
(* What SessionManager promises of lookups by uid, for every set of        *)
(* connections and uids, while a connection logs in with one uid only; and *)
(* that the server's process carries these promises, for every number of   *)
(* connections, and never dispatches without a session.                    *)
(*                                                                         *)
(* That the session receives the client's requests in order, for every     *)
(* user's input, every message a server may send and every loss of the     *)
(* connection.                                                             *)
(***************************************************************************)
EXTENDS TcpServer, TLAPS

(* What a connection asked for is one uid, and everything its session will *)
(* do or has done with a uid is about that one.                            *)
OwnUid ==
  /\ \A c \in Conns : \A u, v \in asked[c] : u = v
  /\ \A c \in Conns : \A n \in 1..Len(strand[c]) :
       strand[c][n] # None => strand[c][n] \in asked[c]
  /\ \A c \in Conns : uid[c] # None => uid[c] \in asked[c]
  /\ \A c \in adding : uid[c] # None
  /\ \A u \in DOMAIN latest : uid[latest[u]] = u

(* A connection that was not accepted has no session yet. *)
NewIsIdle == \A c \in Conns : conn[c] = "new" => strand[c] = <<>> /\ uid[c] = None

ManagerInv ==
  /\ TypeOK
  /\ OwnUid
  /\ NewIsIdle
  /\ FoundIsRegistered
  /\ LatestIsFound

-----------------------------------------------------------------------------

(* Before the first accept the manager is empty. *)
LEMMA InitInv == Init => ManagerInv
  BY DEF Init, ManagerInv, TypeOK, OwnUid, NewIsIdle, FoundIsRegistered, LatestIsFound,
     EmptyMap

(* Taking a task off a strand leaves only tasks that were on it. *)
LEMMA TakeFacts ==
  ASSUME TypeOK, NEW c \in Conns, Take(c)
  PROVE  /\ c \notin adding
         /\ Head(strand[c]) \in Uids \cup {None}
         /\ 1 \in 1..Len(strand[c]) /\ Head(strand[c]) = strand[c][1]
         /\ strand' \in [Conns -> Seq(Uids \cup {None})]
         /\ \A d \in Conns : d # c => strand'[d] = strand[d]
         /\ \A n \in 1..Len(strand'[c]) :
              n + 1 \in 1..Len(strand[c]) /\ strand'[c][n] = strand[c][n + 1]
  BY DEF TypeOK, Take

(* Posting a task to a strand adds that task and no other. *)
LEMMA PostFacts ==
  ASSUME TypeOK, NEW c \in Conns, NEW t \in Uids \cup {None}, Post(c, t)
  PROVE  /\ strand' \in [Conns -> Seq(Uids \cup {None})]
         /\ \A d \in Conns : d # c => strand'[d] = strand[d]
         /\ \A n \in 1..Len(strand'[c]) :
              \/ n \in 1..Len(strand[c]) /\ strand'[c][n] = strand[c][n]
              \/ strand'[c][n] = t
  BY DEF TypeOK, Post

(* Every step of a manager whose connections keep to one uid preserves the *)
(* invariant.                                                              *)
LEMMA NextInv ==
  ASSUME OneUid, ManagerInv, [Next]_vars
  PROVE  ManagerInv'
<1> USE ManagerAssumption
<1>0. TypeOK /\ OwnUid /\ NewIsIdle /\ FoundIsRegistered /\ LatestIsFound
  BY DEF ManagerInv
<1>1. ASSUME NEW c \in Conns, Accept(c) PROVE ManagerInv'
  <2>1. TypeOK' /\ OwnUid' /\ NewIsIdle' /\ FoundIsRegistered'
    BY <1>0, <1>1 DEF Accept, TypeOK, OwnUid, NewIsIdle, FoundIsRegistered
  <2>2. \A u \in DOMAIN latest : latest[u] # c
    BY <1>0, <1>1 DEF Accept, TypeOK, OwnUid, NewIsIdle
  <2>3. LatestIsFound'
    BY <1>0, <1>1, <2>2 DEF Accept, TypeOK, LatestIsFound
  <2> QED BY <2>1, <2>3 DEF ManagerInv
<1>2. ASSUME NEW c \in Conns, NEW u \in Uids, ReceiveLogin(c, u) PROVE ManagerInv'
  <2>1. Post(c, u)
    BY <1>2 DEF ReceiveLogin
  <2>2. TypeOK'
    BY <1>0, <1>2, <2>1, PostFacts DEF ReceiveLogin, TypeOK
  <2>3. OwnUid'
    BY OneUid, <1>0, <1>2, <2>1, PostFacts DEF ReceiveLogin, TypeOK, OwnUid
  <2>4. NewIsIdle'
    BY <1>0, <1>2, <2>1, PostFacts DEF ReceiveLogin, NewIsIdle
  <2>5. FoundIsRegistered' /\ LatestIsFound'
    BY <1>0, <1>2 DEF ReceiveLogin, FoundIsRegistered, LatestIsFound
  <2> QED BY <2>2, <2>3, <2>4, <2>5 DEF ManagerInv
<1>3. ASSUME NEW c \in Conns, Close(c) PROVE ManagerInv'
  <2> DEFINE S == {u \in {uid[c]} \cap DOMAIN uidSessions : uidSessions[u] = c}
  <2>1. Post(c, None) /\ uidSessions' = Without(uidSessions, S)
    BY <1>3 DEF Close
  <2>2. /\ DOMAIN uidSessions' = DOMAIN uidSessions \ S
        /\ \A u \in DOMAIN uidSessions' : uidSessions'[u] = uidSessions[u]
    BY <2>1 DEF Without
  <2>3. \A u \in DOMAIN uidSessions' : uidSessions[u] # c
    BY <1>0, <2>2 DEF FoundIsRegistered
  <2>4. TypeOK'
    BY <1>0, <1>3, <2>1, <2>2, PostFacts DEF Close, TypeOK
  <2>5. OwnUid'
    <3>1. \A d \in Conns : \A n \in 1..Len(strand'[d]) :
            strand'[d][n] # None => strand'[d][n] \in asked[d]
      BY <1>0, <2>1, PostFacts DEF OwnUid
    <3> QED BY <1>0, <1>3, <3>1 DEF Close, OwnUid
  <2>6. NewIsIdle'
    BY <1>0, <1>3, <2>1, PostFacts DEF Close, TypeOK, NewIsIdle
  <2>7. FoundIsRegistered'
    BY <1>0, <1>3, <2>2, <2>3 DEF Close, FoundIsRegistered
  <2>8. LatestIsFound'
    BY <1>0, <1>3, <2>2 DEF Close, LatestIsFound
  <2> QED BY <2>4, <2>5, <2>6, <2>7, <2>8 DEF ManagerInv
<1>4. ASSUME NEW c \in Conns, LoginSetUser(c) PROVE ManagerInv'
  <2>1. Take(c)
    BY <1>4 DEF LoginSetUser
  <2>2. Head(strand[c]) \in asked[c] /\ Head(strand[c]) \in Uids
    BY <1>0, <1>4, <2>1, TakeFacts DEF LoginSetUser, OwnUid
  <2>3. uid[c] # None => uid' = uid
    BY <1>0, <1>4, <2>2 DEF LoginSetUser, TypeOK, OwnUid
  <2>4. TypeOK'
    BY <1>0, <1>4, <2>1, <2>2, TakeFacts DEF LoginSetUser, TypeOK
  <2>5. \A d \in Conns : uid[d] # None => uid'[d] = uid[d]
    BY <1>0, <1>4, <2>3 DEF LoginSetUser, TypeOK
  <2>6. OwnUid'
    <3>1. \A d \in Conns : \A n \in 1..Len(strand'[d]) :
            strand'[d][n] # None => strand'[d][n] \in asked[d]
      BY <1>0, <2>1, TakeFacts DEF OwnUid
    <3>2. \A d \in Conns : uid'[d] # None => uid'[d] \in asked[d]
      BY <1>0, <1>4, <2>2 DEF LoginSetUser, TypeOK, OwnUid
    <3>3. \A d \in adding' : uid'[d] # None
      BY <1>0, <1>4, <2>2 DEF LoginSetUser, TypeOK, OwnUid
    <3>4. \A u \in DOMAIN latest : uid'[latest[u]] = u
      BY <1>0, <2>5 DEF TypeOK, OwnUid
    <3> QED BY <1>0, <1>4, <3>1, <3>2, <3>3, <3>4 DEF LoginSetUser, OwnUid
  <2>7. NewIsIdle'
    BY <1>0, <1>4, <2>1, TakeFacts DEF LoginSetUser, TypeOK, NewIsIdle, Take
  <2>8. FoundIsRegistered'
    BY <1>0, <1>4, <2>5 DEF LoginSetUser, TypeOK, FoundIsRegistered
  <2>9. LatestIsFound'
    BY <1>0, <1>4, <2>5 DEF LoginSetUser, TypeOK, OwnUid, LatestIsFound
  <2> QED BY <2>4, <2>6, <2>7, <2>8, <2>9 DEF ManagerInv
<1>5. ASSUME NEW c \in Conns, LoginAddSession(c) PROVE ManagerInv'
  <2>1. uid[c] \in Uids
    BY <1>0, <1>5 DEF LoginAddSession, TypeOK, OwnUid
  <2>2. /\ DOMAIN uidSessions' = DOMAIN uidSessions \cup {uid[c]}
        /\ uidSessions'[uid[c]] = c
        /\ \A u \in DOMAIN uidSessions \ {uid[c]} : uidSessions'[u] = uidSessions[u]
    BY <1>5 DEF LoginAddSession, With
  <2>3. /\ DOMAIN latest' = DOMAIN latest \cup {uid[c]}
        /\ latest'[uid[c]] = c
        /\ \A u \in DOMAIN latest \ {uid[c]} : latest'[u] = latest[u] /\ latest[u] # c
    BY <1>0, <1>5 DEF LoginAddSession, OwnUid, With
  <2>4. TypeOK'
    BY <1>0, <1>5, <2>1, <2>2, <2>3 DEF LoginAddSession, TypeOK
  <2>5. OwnUid' /\ NewIsIdle'
    BY <1>0, <1>5, <2>3 DEF LoginAddSession, OwnUid, NewIsIdle
  <2>6. FoundIsRegistered'
    BY <1>0, <1>5, <2>2 DEF LoginAddSession, FoundIsRegistered
  <2>7. LatestIsFound'
    BY <1>0, <1>5, <2>2, <2>3 DEF LoginAddSession, LatestIsFound
  <2> QED BY <2>4, <2>5, <2>6, <2>7 DEF ManagerInv
<1>6. ASSUME NEW c \in Conns, LoginRejected(c) \/ Shutdown(c) PROVE ManagerInv'
  <2>1. Take(c) /\ UNCHANGED <<conn, sessions, uidSessions, uid, adding, logins, asked, latest>>
    BY <1>6 DEF LoginRejected, Shutdown
  <2>2. TypeOK'
    BY <1>0, <1>6, <2>1, TakeFacts DEF LoginRejected, Shutdown, TypeOK
  <2>3. OwnUid'
    <3>1. \A d \in Conns : \A n \in 1..Len(strand'[d]) :
            strand'[d][n] # None => strand'[d][n] \in asked[d]
      BY <1>0, <2>1, TakeFacts DEF OwnUid
    <3>. QED
      BY <1>0, <2>1, <3>1 DEF OwnUid
  <2>4. NewIsIdle'
    BY <1>0, <2>1, TakeFacts DEF NewIsIdle, Take
  <2>5. FoundIsRegistered' /\ LatestIsFound'
    BY <1>0, <2>1 DEF FoundIsRegistered, LatestIsFound
  <2> QED BY <2>2, <2>3, <2>4, <2>5 DEF ManagerInv
<1>7. CASE UNCHANGED vars
  BY <1>0, <1>7 DEF vars, ManagerInv, TypeOK, OwnUid, NewIsIdle, FoundIsRegistered,
     LatestIsFound
<1> QED BY <1>1, <1>2, <1>3, <1>4, <1>5, <1>6, <1>7 DEF Next

(* However accepts, logins and closes of any number of connections         *)
(* interleave, find_session(uid) returns a registered session with that    *)
(* uid, as long as every connection logs in with one uid.                  *)
THEOREM LookupsAreRegistered ==
  ASSUME OneUid
  PROVE  Spec => []FoundIsRegistered
<1>1. ManagerInv /\ [Next]_vars => ManagerInv'
  BY OneUid, NextInv
<1>2. ManagerInv => FoundIsRegistered
  BY DEF ManagerInv
<1> QED BY InitInv, <1>1, <1>2, PTL DEF Spec

(* Under the same condition the session that logged in last with a uid is  *)
(* the one find_session returns while it is registered: remove_session of  *)
(* an older connection never takes the newer one's entry.                  *)
THEOREM LatestLoginWins ==
  ASSUME OneUid
  PROVE  Spec => []LatestIsFound
<1>1. ManagerInv /\ [Next]_vars => ManagerInv'
  BY OneUid, NextInv
<1>2. ManagerInv => LatestIsFound
  BY DEF ManagerInv
<1> QED BY InitInv, <1>1, <1>2, PTL DEF Spec

-----------------------------------------------------------------------------
(* The server's process *)

(* Where handle_accept stands tells whether its connection has a session,  *)
(* and a connection that reads has one.                                    *)
ServerInv ==
  /\ AttachedBeforeInput
  /\ conn \in [Conns -> {"new", "open", "closed"}]
  /\ inbox \in [Conns -> Seq(Uids)]
  /\ handling \in Conns \cup {None}
  /\ place = "start" /\ handling # None => conn[handling] # "new"
  /\ reading \subseteq Conns
  /\ \A c \in reading : conn[c] # "new"

(* A step of the manager gives a connection a session, or closes it.       *)
(* None of them takes the connection back to where it had none.            *)
LEMMA SessionsStayAttached ==
  ASSUME conn \in [Conns -> {"new", "open", "closed"}], [Next]_vars
  PROVE  /\ conn' \in [Conns -> {"new", "open", "closed"}]
         /\ \A c \in Conns : conn[c] # "new" => conn'[c] # "new"
<1>1. CASE \E c \in Conns : Accept(c)
  BY <1>1 DEF Accept
<1>2. CASE \E c \in Conns : Close(c)
  BY <1>2 DEF Close
<1>3. CASE UNCHANGED conn
  BY <1>3
<1> QED
  BY <1>1, <1>2, <1>3 DEF Next, vars, ReceiveLogin, LoginSetUser, LoginAddSession,
     LoginRejected, Shutdown

(* A step of the server is a step of the manager, or leaves it alone.      *)
LEMMA ServerStep ==
  ASSUME ServerInv, [ServerNext]_serverVars
  PROVE  [Next]_vars
<1>1. CASE Main \/ StartThrows \/ AcceptFails
  BY <1>1 DEF Main, StartAcceptorThreads, StartServing, StartThrows, AcceptFails
<1>2. CASE HandleAccept
  <2>1. CASE NotifyOnCreated
    <3>1. handling \in Conns
      BY <2>1 DEF NotifyOnCreated, ServerInv
    <3> QED BY <2>1, <3>1 DEF NotifyOnCreated, Next
  <2> QED BY <1>2, <2>1 DEF HandleAccept, StartConnection, AcceptAgain
<1>3. ASSUME NEW c \in Conns,
             Connect(c) \/ (\E u \in Uids : Send(c, u)) \/ Accepted(c)
      PROVE  [Next]_vars
  BY <1>3 DEF Connect, Send, Accepted
<1>4. ASSUME NEW c \in Conns, ReadLogin(c)
      PROVE  [Next]_vars
  <2>1. Head(inbox[c]) \in Uids
    BY <1>4 DEF ReadLogin, ServerInv
  <2> QED BY <1>4, <2>1 DEF ReadLogin, Next
<1>5. ASSUME NEW c \in Conns, ConnectionCloses(c) \/ RunLogin(c) \/ RunTask(c)
      PROVE  [Next]_vars
  BY <1>5 DEF ConnectionCloses, RunLogin, RunTask, Next
<1>6. CASE UNCHANGED serverVars
  BY <1>6 DEF serverVars
<1> QED BY <1>1, <1>2, <1>3, <1>4, <1>5, <1>6 DEF ServerNext

(* Every step of the server preserves the invariant. *)
LEMMA ServerInvStep ==
  ASSUME ServerInv, [ServerNext]_serverVars
  PROVE  ServerInv'
<1> USE ServerStep, SessionsStayAttached, ManagerAssumption
<1>0. /\ conn' \in [Conns -> {"new", "open", "closed"}]
      /\ \A c \in Conns : conn[c] # "new" => conn'[c] # "new"
  BY DEF ServerInv
<1>1. CASE Main \/ StartThrows
  BY <1>0, <1>1 DEF Main, StartAcceptorThreads, StartServing, StartThrows, ServerInv,
     AttachedBeforeInput, clients, accepts
<1>2. CASE AcceptFails \/ AcceptAgain
  BY <1>0, <1>2 DEF AcceptFails, AcceptAgain, ServerInv, AttachedBeforeInput, clients
<1>3. CASE NotifyOnCreated
  <2>1. conn'[handling] # "new"
    BY <1>3 DEF NotifyOnCreated, Accept, ServerInv
  <2> QED BY <1>0, <1>3, <2>1 DEF NotifyOnCreated, ServerInv, AttachedBeforeInput, clients
<1>4. CASE StartConnection
  BY <1>0, <1>4 DEF StartConnection, ServerInv, AttachedBeforeInput, clients
<1>5. ASSUME NEW c \in Conns, Connect(c) \/ Accepted(c)
      PROVE  ServerInv'
  BY <1>0, <1>5 DEF Connect, Accepted, ServerInv, AttachedBeforeInput, accepts
<1>6. ASSUME NEW c \in Conns, NEW u \in Uids, Send(c, u)
      PROVE  ServerInv'
  BY <1>0, <1>6 DEF Send, ServerInv, AttachedBeforeInput, accepts
<1>7. ASSUME NEW c \in Conns, ReadLogin(c)
      PROVE  ServerInv'
  <2>1. inbox' \in [Conns -> Seq(Uids)]
    BY <1>7 DEF ReadLogin, ServerInv
  <2>2. main' = main
    BY <1>7 DEF ReadLogin, ServerInv
  <2> QED BY <1>0, <1>7, <2>1, <2>2 DEF ReadLogin, ServerInv, AttachedBeforeInput, accepts
<1>8. ASSUME NEW c \in Conns, ConnectionCloses(c) \/ RunLogin(c) \/ RunTask(c)
      PROVE  ServerInv'
  BY <1>0, <1>8 DEF ConnectionCloses, RunLogin, RunTask, ServerInv, AttachedBeforeInput,
     clients, accepts
<1>9. CASE UNCHANGED serverVars
  BY <1>0, <1>9 DEF serverVars, clients, accepts, ServerInv, AttachedBeforeInput
<1> QED BY <1>1, <1>2, <1>3, <1>4, <1>5, <1>6, <1>7, <1>8, <1>9 DEF ServerNext, HandleAccept

(* Before any client connects the invariant holds. *)
LEMMA ServerStart == ServerInit => ServerInv
  BY ManagerAssumption DEF ServerInit, Init, ServerInv, AttachedBeforeInput

(* The server never dispatches input of a connection that has no session:  *)
(* handle_accept notifies the owner before it starts the connection.       *)
THEOREM ServerAttaches == ServerSpec => []AttachedBeforeInput
<1>1. ServerInv => AttachedBeforeInput
  BY DEF ServerInv
<1> QED BY <1>1, ServerStart, ServerInvStep, PTL DEF ServerSpec

(* main(), the pools and the acceptor use the session manager only as      *)
(* SessionManager describes.                                               *)
THEOREM ServerImplementsManager == ServerSpec => Spec
<1>1. ServerInit => Init
  BY DEF ServerInit
<1> QED BY <1>1, ServerStart, ServerInvStep, ServerStep, PTL DEF ServerSpec, Spec

(* So find_session(uid) of a running server returns a registered session   *)
(* with that uid, as long as every connection logs in with one uid.        *)
THEOREM ServerLookups ==
  ASSUME OneUid
  PROVE  ServerSpec => []FoundIsRegistered
BY OneUid, ServerImplementsManager, LookupsAreRegistered, PTL

(* And the session that logged in last is the one that is found.           *)
THEOREM ServerLatest ==
  ASSUME OneUid
  PROVE  ServerSpec => []LatestIsFound
BY OneUid, ServerImplementsManager, LatestLoginWins, PTL

-----------------------------------------------------------------------------
(* The client's end.  A message goes from queue_write() through the queue  *)
(* to the session.  The invariant: what the session has received, followed *)
(* by what is in the queue and not received, is what the states sent.      *)

CONSTANTS Base, ContentLen, TypeLen, MaxPayload, RoomIds, ReadSize, MaxCommands, MaxPushes

(* ClientSession's variables; three of its names are the server's here. *)
VARIABLES cli, buffer, inBuffer, readOut, typing, toClient, requests, session,
          commands, pushes, sent, handled, seen, rejected

Client == INSTANCE ClientSession
            WITH handling <- inBuffer, reading <- readOut, inbox <- toClient

(* A client_session object, by its members. *)
Members(c) ==
  c = [state |-> c.state, pending |-> c.pending, roomId |-> c.roomId, stopped |-> c.stopped,
       queue |-> c.queue, write |-> c.write, input |-> c.input, asked |-> c.asked]

(* A client that runs is in one of three states, and waits for an input    *)
(* that this state asks for.                                               *)
Asking(c) ==
  \/ c.state = "init" /\ c.pending = "command"
  \/ c.state = "loggedIn" /\ c.pending \in {"command", "roomId"}
  \/ c.state = "inRoom" /\ c.pending \in {"command", "message", "kickoutUser"}

Sound(c) == Members(c) /\ c.stopped \in BOOLEAN /\ (~c.stopped => Asking(c))

(* The messages that the states send. *)
Requested ==
  {"ReqLogin", "ReqLogout", "ReqCreateRoom", "ReqJoinRoom", "ReqLeaveRoom", "FwdRoom", "Pong"}

(* What an operation may do to the messages of a client. *)
SameMessages(c, d) == d.queue = c.queue /\ d.asked = c.asked /\ d.write = c.write

Keeps(c, d) == SameMessages(c, d) /\ (c.stopped => d.stopped)

Adds(c, d) ==
  /\ ~c.stopped /\ ~d.stopped
  /\ \E m \in Requested : /\ d.queue = Append(c.queue, m) /\ d.asked = Append(c.asked, m)
                       /\ d.write = IF c.queue = <<>> THEN "started" ELSE c.write

Leads(c, d) == Sound(d) /\ (Keeps(c, d) \/ Adds(c, d))

(* finish() stops the client and writes nothing. *)
LEMMA FinishLeads ==
  ASSUME NEW c, Members(c), c.stopped \in BOOLEAN
  PROVE  /\ Members(Client!Finish(c)) /\ SameMessages(c, Client!Finish(c))
         /\ Client!Finish(c).stopped = TRUE
BY DEF Members, SameMessages, Client!Finish

(* A client stays itself. *)
LEMMA SameLeads ==
  ASSUME NEW c, Sound(c)
  PROVE  Leads(c, c)
BY Zenon DEF Leads, Keeps, SameMessages

(* A new room id, or the menu again. *)
LEMMA EditLeads ==
  ASSUME NEW c, Sound(c), NEW i
  PROVE  /\ Members([c EXCEPT !.roomId = i]) /\ SameMessages(c, [c EXCEPT !.roomId = i])
         /\ [c EXCEPT !.roomId = i].stopped = c.stopped
         /\ Members([c EXCEPT !.pending = i]) /\ SameMessages(c, [c EXCEPT !.pending = i])
         /\ [c EXCEPT !.pending = i].stopped = c.stopped
         /\ [c EXCEPT !.pending = i].pending = i /\ [c EXCEPT !.pending = i].state = c.state
BY DEF Sound, Members, SameMessages

(* transition_to() enters a state that waits for a command, or exits. *)
LEMMA TransitionLeads ==
  ASSUME NEW c, Members(c), c.stopped \in BOOLEAN,
         NEW next \in {"loggedIn", "inRoom", "exit"}
  PROVE  /\ Sound(Client!TransitionTo(c, next)) /\ SameMessages(c, Client!TransitionTo(c, next))
         /\ c.stopped \/ next = "exit" => Client!TransitionTo(c, next).stopped
<1>. DEFINE entered == [c EXCEPT !.state = next, !.pending = "command"]
            cleared == [entered EXCEPT !.roomId = 0]
<1>1. /\ Members(entered) /\ SameMessages(c, entered) /\ entered.stopped = c.stopped
      /\ entered.state = next /\ entered.pending = "command"
  <2>. DEFINE moved == [c EXCEPT !.state = next]
  <2>1. /\ Members(moved) /\ SameMessages(c, moved) /\ moved.stopped = c.stopped
        /\ moved.state = next
    BY DEF Members, SameMessages
  <2>2. entered = [moved EXCEPT !.pending = "command"]
    OBVIOUS
  <2>. HIDE DEF entered, moved
  <2>. QED
    BY <2>1, <2>2 DEF Members, SameMessages
<1>2. Members(cleared) /\ SameMessages(c, cleared) /\ cleared.stopped = c.stopped
  <2>. HIDE DEF entered
  <2>. QED
    BY <1>1 DEF Members, SameMessages
<1>3. Client!TransitionTo(c, next) =
        IF c.stopped THEN c ELSE IF next = "exit" THEN Client!Finish(cleared) ELSE entered
  BY Zenon DEF Client!TransitionTo
<1>. HIDE DEF entered, cleared
<1>4. CASE c.stopped
  BY Zenon, <1>3, <1>4 DEF Sound, SameMessages
<1>5. CASE ~c.stopped /\ next = "exit"
  <2>1. Client!TransitionTo(c, next) = Client!Finish(cleared)
    BY Zenon, <1>3, <1>5
  <2>2. /\ Members(Client!Finish(cleared)) /\ Client!Finish(cleared).stopped = TRUE
        /\ SameMessages(cleared, Client!Finish(cleared))
    BY Zenon, <1>2, FinishLeads
  <2>3. SameMessages(c, Client!Finish(cleared))
    BY Zenon, <1>2, <2>2 DEF SameMessages
  <2>. QED
    BY Zenon, <2>1, <2>2, <2>3 DEF Sound
<1>6. CASE ~c.stopped /\ next # "exit"
  <2>1. next \in {"loggedIn", "inRoom"}
    BY Zenon, <1>6
  <2>2. Client!TransitionTo(c, next) = entered
    BY Zenon, <1>3, <1>6
  <2>. QED
    BY Zenon, <1>1, <1>6, <2>1, <2>2 DEF Sound, SameMessages, Asking
<1>. QED
  BY Zenon, <1>4, <1>5, <1>6

(* queue_write() adds one message to a client that runs. *)
LEMMA QueueWriteLeads ==
  ASSUME NEW c, Sound(c), NEW m \in Requested
  PROVE  Leads(c, Client!QueueWrite(c, m))
<1>1. CASE c.stopped
  BY Zenon, <1>1, SameLeads DEF Client!QueueWrite
<1>2. CASE ~c.stopped
  <2>. DEFINE longer == [c EXCEPT !.queue = Append(@, m)]
              asking == [longer EXCEPT !.asked = Append(@, m)]
              d == [asking EXCEPT !.write = IF c.queue = <<>> THEN "started" ELSE @]
  <2>1. /\ Members(longer) /\ longer.queue = Append(c.queue, m) /\ longer.asked = c.asked
        /\ longer.write = c.write /\ longer.stopped = c.stopped
        /\ longer.state = c.state /\ longer.pending = c.pending
    BY DEF Sound, Members
  <2>2. /\ Members(asking) /\ asking.queue = longer.queue
        /\ asking.asked = Append(longer.asked, m)
        /\ asking.write = longer.write /\ asking.stopped = longer.stopped
        /\ asking.state = longer.state /\ asking.pending = longer.pending
    <3>. HIDE DEF longer
    <3>1. Members(longer)
      BY Zenon, <2>1
    <3>. QED
      BY <3>1 DEF Members
  <2>3. /\ Members(d) /\ d.queue = asking.queue /\ d.asked = asking.asked
        /\ d.write = (IF c.queue = <<>> THEN "started" ELSE asking.write)
        /\ d.stopped = asking.stopped /\ d.state = asking.state /\ d.pending = asking.pending
    <3>. HIDE DEF asking
    <3>. QED
      BY <2>2 DEF Members
  <2>4. Client!QueueWrite(c, m) = d
    BY <1>2 DEF Client!QueueWrite
  <2>. HIDE DEF longer, asking, d
  <2>5. /\ d.queue = Append(c.queue, m) /\ d.asked = Append(c.asked, m)
        /\ d.write = (IF c.queue = <<>> THEN "started" ELSE c.write)
        /\ d.stopped = c.stopped /\ d.state = c.state /\ d.pending = c.pending
    BY Zenon, <2>1, <2>2, <2>3
  <2>6. Sound(d)
    BY Zenon, <2>3, <2>5 DEF Sound, Asking
  <2>7. Adds(c, d)
    BY Zenon, <1>2, <2>5 DEF Adds
  <2>. QED
    BY Zenon, <2>4, <2>6, <2>7 DEF Leads
<1>. QED
  BY Zenon, <1>1, <1>2

(* transition_to() writes nothing, whatever room was stored before it. *)
LEMMA MoveLeads ==
  ASSUME NEW c, Sound(c), NEW i, NEW next \in {"loggedIn", "inRoom", "exit"}
  PROVE  /\ Leads(c, Client!TransitionTo(c, next))
         /\ Leads(c, Client!TransitionTo([c EXCEPT !.roomId = i], next))
<1>1. Leads(c, Client!TransitionTo(c, next))
  BY Zenon, TransitionLeads DEF Leads, Keeps, Sound
<1>. DEFINE d == [c EXCEPT !.roomId = i]
<1>2. Members(d) /\ SameMessages(c, d) /\ d.stopped = c.stopped
  BY Zenon, EditLeads
<1>. HIDE DEF d
<1>3. /\ Sound(Client!TransitionTo(d, next)) /\ SameMessages(d, Client!TransitionTo(d, next))
      /\ d.stopped => Client!TransitionTo(d, next).stopped
  <2>1. d.stopped \in BOOLEAN
    BY Zenon, <1>2 DEF Sound
  <2>. QED
    BY Zenon, <1>2, <2>1, TransitionLeads
<1>4. Leads(c, Client!TransitionTo(d, next))
  BY Zenon, <1>2, <1>3 DEF Leads, Keeps, SameMessages
<1>. QED
  BY Zenon, <1>1, <1>4 DEF d

(* A question put to the user, or answered: only `pending` changes. *)
LEMMA PendingLeads ==
  ASSUME NEW c, Sound(c), ~c.stopped, NEW q,
         \/ q = "command"
         \/ c.state = "loggedIn" /\ q = "roomId"
         \/ c.state = "inRoom" /\ q \in {"message", "kickoutUser"}
  PROVE  /\ Leads(c, [c EXCEPT !.pending = q])
         /\ \A m \in Requested : Leads(c, Client!QueueWrite([c EXCEPT !.pending = q], m))
<1>. DEFINE d == [c EXCEPT !.pending = q]
<1>1. /\ Members(d) /\ SameMessages(c, d) /\ d.stopped = c.stopped
      /\ d.pending = q /\ d.state = c.state
  BY Zenon, EditLeads
<1>. HIDE DEF d
<1>2. Sound(d)
  BY <1>1 DEF Sound, Asking
<1>3. Leads(c, d)
  BY Zenon, <1>1, <1>2 DEF Leads, Keeps
<1>4. ASSUME NEW m \in Requested
      PROVE  Leads(c, Client!QueueWrite(d, m))
  <2>1. Leads(d, Client!QueueWrite(d, m))
    BY Zenon, <1>2, QueueWriteLeads
  <2>. QED
    BY Zenon, <1>1, <2>1 DEF Leads, Keeps, Adds, SameMessages
<1>. QED
  BY Zenon, <1>3, <1>4 DEF d

(* handle_command(): every line adds one message, or asks a question. *)
LEMMA CommandLeads ==
  ASSUME NEW c, Sound(c), NEW line \in Client!Lines
  PROVE  Leads(c, Client!HandleCommand(c, line))
<1>1. CASE c.stopped
  BY <1>1, SameLeads DEF Client!HandleCommand
<1>2. CASE ~c.stopped /\ c.state = "init"
  <2>1. Client!HandleCommand(c, line) = Client!QueueWrite(c, "ReqLogin")
    BY <1>2 DEF Client!HandleCommand, Client!InitCommand
  <2>. QED
    BY Zenon, <2>1, QueueWriteLeads DEF Requested
<1>3. CASE ~c.stopped /\ c.state = "loggedIn"
  <2>1. Client!HandleCommand(c, line) = Client!LoginCommand(c, line)
    BY <1>3 DEF Client!HandleCommand
  <2>2. CASE c.pending = "roomId" /\ line = "text"
    <3>1. Client!LoginCommand(c, line) = c
      BY <2>2 DEF Client!LoginCommand
    <3>. QED
      BY Zenon, <2>1, <3>1, SameLeads
  <2>3. CASE c.pending = "roomId" /\ line # "text"
    <3>1. Client!LoginCommand(c, line) = Client!QueueWrite([c EXCEPT !.pending = "command"], "ReqJoinRoom")
      BY <2>3 DEF Client!LoginCommand
    <3>. QED
      BY Zenon, <1>3, <2>1, <3>1, PendingLeads DEF Requested
  <2>4. CASE c.pending = "command" /\ line \in {"1", "2"}
    <3>1. \/ Client!LoginCommand(c, line) = Client!QueueWrite(c, "ReqLogout")
          \/ Client!LoginCommand(c, line) = Client!QueueWrite(c, "ReqCreateRoom")
      BY <2>4 DEF Client!LoginCommand
    <3>. QED
      BY Zenon, <2>1, <3>1, QueueWriteLeads DEF Requested
  <2>5. CASE c.pending = "command" /\ line = "3"
    <3>1. Client!LoginCommand(c, line) = [c EXCEPT !.pending = "roomId"]
      BY <2>5 DEF Client!LoginCommand
    <3>2. Leads(c, [c EXCEPT !.pending = "roomId"])
      BY <1>3, PendingLeads
    <3>. QED
      BY Zenon, <2>1, <3>1, <3>2
  <2>6. CASE c.pending = "command" /\ line \in {"4", "text"}
    <3>1. Client!LoginCommand(c, line) = c
      BY <2>6 DEF Client!LoginCommand
    <3>. QED
      BY Zenon, <2>1, <3>1, SameLeads
  <2>. QED
    BY Zenon, <1>3, <2>2, <2>3, <2>4, <2>5, <2>6 DEF Sound, Asking, Client!Lines
<1>4. CASE ~c.stopped /\ c.state = "inRoom"
  <2>1. Client!HandleCommand(c, line) = Client!RoomCommand(c, line)
    BY <1>4 DEF Client!HandleCommand
  <2>2. CASE c.pending \in {"message", "kickoutUser"}
    <3>1. Client!RoomCommand(c, line) = Client!QueueWrite([c EXCEPT !.pending = "command"], "FwdRoom")
      BY <2>2 DEF Client!RoomCommand
    <3>. QED
      BY Zenon, <1>4, <2>1, <3>1, PendingLeads DEF Requested
  <2>3. CASE c.pending = "command" /\ line \in {"1", "3"}
    <3>1. \/ Client!RoomCommand(c, line) = Client!QueueWrite(c, "ReqLogout")
          \/ Client!RoomCommand(c, line) = Client!QueueWrite(c, "ReqLeaveRoom")
      BY <2>3 DEF Client!RoomCommand
    <3>. QED
      BY Zenon, <2>1, <3>1, QueueWriteLeads DEF Requested
  <2>4. CASE c.pending = "command" /\ line \in {"2", "4"}
    <3>1. \/ Client!RoomCommand(c, line) = [c EXCEPT !.pending = "message"]
          \/ Client!RoomCommand(c, line) = [c EXCEPT !.pending = "kickoutUser"]
      BY <2>4 DEF Client!RoomCommand
    <3>2. Leads(c, [c EXCEPT !.pending = "message"])
      BY <1>4, PendingLeads
    <3>3. Leads(c, [c EXCEPT !.pending = "kickoutUser"])
      BY <1>4, PendingLeads
    <3>. QED
      BY Zenon, <2>1, <3>1, <3>2, <3>3
  <2>5. CASE c.pending = "command" /\ line = "text"
    <3>1. Client!RoomCommand(c, line) = c
      BY <2>5 DEF Client!RoomCommand
    <3>. QED
      BY Zenon, <2>1, <3>1, SameLeads
  <2>. QED
    BY Zenon, <1>4, <2>2, <2>3, <2>4, <2>5 DEF Sound, Asking, Client!Lines
<1>. QED
  BY Zenon, <1>1, <1>2, <1>3, <1>4 DEF Sound, Asking

(* base_state answers a ping, or exits. *)
LEMMA BaseLeads ==
  ASSUME NEW c, Sound(c), NEW type
  PROVE  Leads(c, Client!BaseMessage(c, type))
<1>1. \/ Client!BaseMessage(c, type) = Client!QueueWrite(c, "Pong")
      \/ Client!BaseMessage(c, type) = Client!TransitionTo(c, "exit")
  BY Zenon DEF Client!BaseMessage
<1>. QED
  BY Zenon, <1>1, QueueWriteLeads, MoveLeads DEF Requested

(* The answers to a request, and the kick-out, change the state only. *)
LEMMA AnswerLeads ==
  ASSUME NEW c, Sound(c), ~c.stopped, NEW payload
  PROVE  /\ Leads(c, Client!HandleResLogout(c, payload))
         /\ Leads(c, Client!HandleResRoom(c, payload))
         /\ Leads(c, Client!HandleNtfLeaveRoom(c, payload))
         /\ Leads(c, Client!HandleResLeaveRoom(c, payload))
<1>1. Leads(c, Client!HandleResLogout(c, payload))
  BY Zenon, SameLeads, MoveLeads DEF Client!HandleResLogout
<1>2. Leads(c, Client!HandleResRoom(c, payload))
  <2>1. \/ Client!HandleResRoom(c, payload) = c
        \/ Client!HandleResRoom(c, payload) = [c EXCEPT !.pending = "command"]
        \/ Client!HandleResRoom(c, payload) = Client!TransitionTo([c EXCEPT !.roomId = payload[2]], "inRoom")
    BY Zenon DEF Client!HandleResRoom
  <2>2. Leads(c, [c EXCEPT !.pending = "command"])
    BY Zenon, PendingLeads
  <2>3. Leads(c, Client!TransitionTo([c EXCEPT !.roomId = payload[2]], "inRoom"))
    BY Zenon, MoveLeads
  <2>. QED
    BY Zenon, <2>1, <2>2, <2>3, SameLeads
<1>3. Leads(c, Client!HandleNtfLeaveRoom(c, payload))
  BY Zenon, SameLeads, MoveLeads DEF Client!HandleNtfLeaveRoom
<1>4. Leads(c, Client!HandleResLeaveRoom(c, payload))
  BY Zenon, SameLeads, MoveLeads DEF Client!HandleResLeaveRoom
<1>. QED
  BY Zenon, <1>1, <1>2, <1>3, <1>4

(* dispatch(): a message changes the state, ends the client or is answered *)
(* by one message.                                                         *)
LEMMA DispatchLeads ==
  ASSUME NEW c, Sound(c), NEW type, NEW payload
  PROVE  Leads(c, Client!Dispatch(c, type, payload))
<1>1. CASE c.stopped
  BY <1>1, SameLeads DEF Client!Dispatch
<1>2. CASE ~c.stopped /\ c.state = "init"
  <2>1. Client!Dispatch(c, type, payload) = Client!InitMessage(c, type, payload)
    BY <1>2 DEF Client!Dispatch
  <2>2. \/ Client!InitMessage(c, type, payload) = Client!BaseMessage(c, type)
        \/ Client!InitMessage(c, type, payload) = Client!TransitionTo(c, "loggedIn")
        \/ Client!InitMessage(c, type, payload) = c
    BY Zenon DEF Client!InitMessage
  <2>. QED
    BY Zenon, <2>1, <2>2, BaseLeads, MoveLeads, SameLeads
<1>3. CASE ~c.stopped /\ c.state = "loggedIn"
  <2>1. Client!Dispatch(c, type, payload) = Client!LoginMessage(c, type, payload)
    BY <1>3 DEF Client!Dispatch
  <2>2. \/ Client!LoginMessage(c, type, payload) = Client!HandleResLogout(c, payload)
        \/ Client!LoginMessage(c, type, payload) = Client!HandleResRoom(c, payload)
        \/ Client!LoginMessage(c, type, payload) = Client!BaseMessage(c, type)
    BY DEF Client!LoginMessage
  <2>. QED
    BY Zenon, <1>3, <2>1, <2>2, BaseLeads, AnswerLeads
<1>4. CASE ~c.stopped /\ c.state = "inRoom"
  <2>1. Client!Dispatch(c, type, payload) = Client!RoomMessage(c, type, payload)
    BY <1>4 DEF Client!Dispatch
  <2>2. \/ Client!RoomMessage(c, type, payload) = Client!HandleResLogout(c, payload)
        \/ Client!RoomMessage(c, type, payload) = c
        \/ Client!RoomMessage(c, type, payload) = Client!HandleNtfLeaveRoom(c, payload)
        \/ Client!RoomMessage(c, type, payload) = Client!HandleResLeaveRoom(c, payload)
        \/ Client!RoomMessage(c, type, payload) = Client!BaseMessage(c, type)
    BY DEF Client!RoomMessage
  <2>. QED
    BY Zenon, <1>4, <2>1, <2>2, SameLeads, BaseLeads, AnswerLeads
<1>. QED
  BY Zenon, <1>1, <1>2, <1>3, <1>4 DEF Sound, Asking

-----------------------------------------------------------------------------
(* What has not been received *)

(* The messages of the queue that the session has not received. *)
Unwritten(c) == IF c.write = "transmitted" THEN Tail(c.queue) ELSE c.queue

Ordered(c, s) ==
  /\ c.queue \in Seq(Requested) /\ c.asked \in Seq(Requested) /\ s \in Seq(Requested)
  /\ c.write \in {"started", "transmitted"} => c.queue # <<>>
  /\ c.write \in {"none", "started", "transmitted"}
  /\ Client!IsPrefix(s, c.asked)
  /\ ~c.stopped => s \o Unwritten(c) = c.asked

ClientInv == Sound(cli) /\ Ordered(cli, seen)

(* What is put in front of a sequence is a prefix of the result. *)
LEMMA PrefixOfJoin ==
  ASSUME NEW s \in Seq(Requested), NEW t \in Seq(Requested)
  PROVE  Client!IsPrefix(s, s \o t)
BY DEF Client!IsPrefix

(* One more message is queued behind the others. *)
LEMMA AddsOrdered ==
  ASSUME NEW c, NEW d, NEW s, Ordered(c, s), Adds(c, d)
  PROVE  Ordered(d, s)
<1>1. PICK m \in Requested :
        /\ d.queue = Append(c.queue, m) /\ d.asked = Append(c.asked, m)
        /\ d.write = IF c.queue = <<>> THEN "started" ELSE c.write
  BY Zenon DEF Adds
<1>2. ~c.stopped /\ ~d.stopped
  BY Zenon DEF Adds
<1>3. d.queue \in Seq(Requested) /\ d.asked \in Seq(Requested) /\ d.queue # <<>>
  BY <1>1 DEF Ordered
<1>4. Unwritten(c) \in Seq(Requested) /\ Unwritten(d) = Append(Unwritten(c), m)
  <2>1. CASE c.queue = <<>>
    BY <1>1, <2>1 DEF Ordered, Unwritten
  <2>2. CASE c.queue # <<>>
    <3>1. d.write = c.write
      BY Zenon, <1>1, <2>2
    <3>2. Tail(c.queue) \in Seq(Requested) /\ Tail(Append(c.queue, m)) = Append(Tail(c.queue), m)
      BY <2>2 DEF Ordered
    <3>. QED
      BY Zenon, <1>1, <3>1, <3>2 DEF Unwritten, Ordered
  <2>. QED
    BY Zenon, <2>1, <2>2
<1>5. s \o Unwritten(d) = Append(s \o Unwritten(c), m)
  BY <1>4 DEF Ordered
<1>6. s \o Unwritten(d) = d.asked
  BY Zenon, <1>1, <1>2, <1>5 DEF Ordered
<1>7. Unwritten(d) \in Seq(Requested)
  BY <1>4
<1>8. Client!IsPrefix(s, d.asked)
  BY Zenon, <1>6, <1>7, PrefixOfJoin DEF Ordered
<1>9. d.write \in {"none", "started", "transmitted"}
  BY Zenon, <1>1 DEF Ordered
<1>. QED
  BY Zenon, <1>3, <1>6, <1>8, <1>9 DEF Ordered

(* An operation of the client keeps what the session received in order. *)
LEMMA LeadsOrdered ==
  ASSUME NEW c, NEW d, NEW s, Ordered(c, s), Leads(c, d)
  PROVE  Sound(d) /\ Ordered(d, s)
<1>1. CASE Keeps(c, d)
  BY Zenon, <1>1 DEF Leads, Keeps, SameMessages, Ordered, Unwritten
<1>. QED
  BY Zenon, <1>1, AddsOrdered DEF Leads

(* write_next() takes the message that was received off the queue. *)
LEMMA WriteDoneOrdered ==
  ASSUME ClientInv, Client!WriteDone
  PROVE  ClientInv'
<1>. DEFINE rest == Tail(cli.queue)
            shorter == [cli EXCEPT !.queue = rest]
            w == IF cli.stopped \/ rest = <<>> THEN "none" ELSE "started"
            d == [shorter EXCEPT !.write = w]
<1>1. cli' = d /\ seen' = seen /\ cli.write = "transmitted"
  BY DEF Client!WriteDone, Client!WriteNext, Client!history
<1>2. rest \in Seq(Requested) /\ Unwritten(cli) = rest
  BY <1>1 DEF ClientInv, Ordered, Unwritten
<1>. HIDE DEF rest
<1>3. /\ Members(shorter) /\ shorter.queue = rest /\ shorter.asked = cli.asked
      /\ shorter.stopped = cli.stopped /\ shorter.state = cli.state
      /\ shorter.pending = cli.pending
  BY DEF ClientInv, Sound, Members
<1>. HIDE DEF shorter, w
<1>4. /\ Members(d) /\ d.queue = shorter.queue /\ d.asked = shorter.asked
      /\ d.stopped = shorter.stopped /\ d.state = shorter.state
      /\ d.pending = shorter.pending /\ d.write = w
  <2>1. Members(shorter)
    BY Zenon, <1>3
  <2>. QED
    BY <2>1 DEF Members
<1>. HIDE DEF d
<1>5. w \in {"none", "started"} /\ (w = "started" => rest # <<>>)
  BY DEF w
<1>6. Unwritten(d) = rest
  BY <1>3, <1>4, <1>5 DEF Unwritten
<1>7. Sound(d)
  BY Zenon, <1>3, <1>4 DEF ClientInv, Sound, Asking
<1>8. Ordered(d, seen)
  <2>1. d.queue = rest /\ d.asked = cli.asked /\ d.stopped = cli.stopped /\ d.write = w
    BY Zenon, <1>3, <1>4
  <2>. QED
    BY <1>2, <1>5, <1>6, <2>1 DEF ClientInv, Ordered
<1>. QED
  BY Zenon, <1>1, <1>7, <1>8 DEF ClientInv

(* A write that failed ends the client; the queue stays as it was. *)
LEMMA WriteErrorOrdered ==
  ASSUME ClientInv, Client!WriteError
  PROVE  ClientInv'
<1>. DEFINE d == [cli EXCEPT !.write = "none"]
<1>1. cli' = Client!TransitionTo(d, "exit") /\ seen' = seen
  BY Zenon DEF Client!WriteError, Client!history
<1>2. /\ Members(d) /\ d.queue = cli.queue /\ d.asked = cli.asked
      /\ d.stopped = cli.stopped /\ d.write = "none"
  BY DEF ClientInv, Sound, Members
<1>. HIDE DEF d
<1>3. d.stopped \in BOOLEAN
  BY Zenon, <1>2 DEF ClientInv, Sound
<1>4. /\ Sound(Client!TransitionTo(d, "exit")) /\ SameMessages(d, Client!TransitionTo(d, "exit"))
      /\ Client!TransitionTo(d, "exit").stopped
  BY Zenon, <1>2, <1>3, TransitionLeads
<1>5. /\ cli'.queue = cli.queue /\ cli'.asked = cli.asked /\ cli'.write = "none"
      /\ cli'.stopped /\ Sound(cli')
  BY Zenon, <1>1, <1>2, <1>4 DEF SameMessages
<1>6. Ordered(cli', seen)
  BY <1>5 DEF ClientInv, Ordered
<1>. QED
  BY Zenon, <1>1, <1>5, <1>6 DEF ClientInv

(* Queues with the same entries are equal. *)
LEMMA SameEntries ==
  ASSUME NEW s \in Seq(Requested), NEW q \in Seq(Requested), Len(s) = Len(q),
         \A i \in 1..Len(s) : s[i] = q[i]
  PROVE  s = q
OBVIOUS

(* The entries of two queues that are joined. *)
LEMMA JoinFacts ==
  ASSUME NEW s \in Seq(Requested), NEW q \in Seq(Requested)
  PROVE  /\ s \o q \in Seq(Requested) /\ Len(s \o q) = Len(s) + Len(q)
         /\ \A i \in 1..(Len(s) + Len(q)) : (s \o q)[i] = IF i <= Len(s) THEN s[i] ELSE q[i - Len(s)]
OBVIOUS

(* Moving the front of one queue to the end of another leaves their join.  *)
LEMMA MoveFront ==
  ASSUME NEW s \in Seq(Requested), NEW q \in Seq(Requested), q # <<>>
  PROVE  Append(s, Head(q)) \in Seq(Requested) /\ Append(s, Head(q)) \o Tail(q) = s \o q
<1>. DEFINE a == Append(s, Head(q))
            t == Tail(q)
            N == Len(s) + Len(q)
<1>1. /\ a \in Seq(Requested) /\ Len(a) = Len(s) + 1 /\ a[Len(s) + 1] = q[1]
      /\ \A i \in 1..Len(s) : a[i] = s[i]
  OBVIOUS
<1>2. /\ t \in Seq(Requested) /\ Len(t) = Len(q) - 1 /\ Len(s) \in Nat /\ Len(q) \in Nat
      /\ \A i \in 1..Len(t) : t[i] = q[i + 1]
  OBVIOUS
<1>. HIDE DEF a, t
<1>3. /\ a \o t \in Seq(Requested) /\ Len(a \o t) = Len(a) + Len(t)
      /\ \A i \in 1..(Len(a) + Len(t)) : (a \o t)[i] = IF i <= Len(a) THEN a[i] ELSE t[i - Len(a)]
  BY Zenon, <1>1, <1>2, JoinFacts
<1>4. /\ s \o q \in Seq(Requested) /\ Len(s \o q) = Len(s) + Len(q)
      /\ \A i \in 1..(Len(s) + Len(q)) : (s \o q)[i] = IF i <= Len(s) THEN s[i] ELSE q[i - Len(s)]
  BY Zenon, JoinFacts
<1>. DEFINE x == a \o t
            y == s \o q
<1>. HIDE DEF x, y
<1>5. /\ x \in Seq(Requested) /\ Len(x) = Len(a) + Len(t)
      /\ \A i \in 1..(Len(a) + Len(t)) : x[i] = IF i <= Len(a) THEN a[i] ELSE t[i - Len(a)]
  BY Zenon, <1>3 DEF x
<1>6. /\ y \in Seq(Requested) /\ Len(y) = Len(s) + Len(q)
      /\ \A i \in 1..(Len(s) + Len(q)) : y[i] = IF i <= Len(s) THEN s[i] ELSE q[i - Len(s)]
  BY Zenon, <1>4 DEF y
<1>7. Len(a) + Len(t) = Len(s) + Len(q)
  BY <1>1, <1>2
<1>8. ASSUME NEW i \in 1..Len(x)
      PROVE  x[i] = y[i]
  <2>1. i \in 1..(Len(a) + Len(t)) /\ i \in 1..(Len(s) + Len(q)) /\ i \in Nat
    BY <1>5, <1>7
  <2>2. CASE i <= Len(s)
    <3>1. i <= Len(a) /\ i \in 1..Len(s)
      BY <1>1, <1>2, <2>1, <2>2
    <3>. QED
      BY Zenon, <1>1, <1>5, <1>6, <2>1, <2>2, <3>1
  <2>3. CASE i = Len(s) + 1
    <3>1. i <= Len(a) /\ ~(i <= Len(s)) /\ i - Len(s) = 1
      BY <1>1, <1>2, <2>1, <2>3
    <3>2. x[i] = a[i] /\ y[i] = q[i - Len(s)]
      BY Zenon, <1>5, <1>6, <2>1, <3>1
    <3>. QED
      BY Zenon, <1>1, <2>3, <3>1, <3>2
  <2>4. CASE i > Len(s) + 1
    <3>1. ~(i <= Len(a)) /\ ~(i <= Len(s)) /\ i - Len(a) \in 1..Len(t)
          /\ (i - Len(a)) + 1 = i - Len(s)
      BY <1>1, <1>2, <1>7, <2>1, <2>4
    <3>2. x[i] = t[i - Len(a)] /\ y[i] = q[i - Len(s)] /\ t[i - Len(a)] = q[(i - Len(a)) + 1]
      BY Zenon, <1>2, <1>5, <1>6, <2>1, <3>1
    <3>. QED
      BY Zenon, <3>1, <3>2
  <2>. QED
    BY <1>2, <2>1, <2>2, <2>3, <2>4
<1>9. Len(x) = Len(y)
  BY Zenon, <1>5, <1>6, <1>7
<1>10. x = y
  BY Zenon, <1>5, <1>6, <1>8, <1>9, SameEntries
<1>11. a \o t = s \o q
  BY Zenon, <1>10 DEF x, y
<1>. QED
  BY Zenon, <1>1, <1>11 DEF a, t

(* The session receives the front of the queue. *)
LEMMA TransmitOrdered ==
  ASSUME ClientInv, Client!Transmit
  PROVE  ClientInv'
<1>1. /\ cli.write = "started" /\ ~cli.stopped
      /\ cli' = [cli EXCEPT !.write = "transmitted"] /\ seen' = Append(seen, Head(cli.queue))
  BY Zenon DEF Client!Transmit
<1>2. /\ Members(cli') /\ cli'.queue = cli.queue /\ cli'.asked = cli.asked
      /\ cli'.stopped = cli.stopped /\ cli'.write = "transmitted"
      /\ cli'.state = cli.state /\ cli'.pending = cli.pending
  BY <1>1 DEF ClientInv, Sound, Members
<1>3. Sound(cli')
  BY Zenon, <1>2 DEF ClientInv, Sound, Asking
<1>4. /\ cli.queue \in Seq(Requested) /\ seen \in Seq(Requested) /\ cli.queue # <<>>
      /\ seen \o cli.queue = cli.asked
  BY <1>1 DEF ClientInv, Ordered, Unwritten
<1>5. Head(cli.queue) \in Requested /\ Tail(cli.queue) \in Seq(Requested)
  BY <1>4
<1>6. seen' \in Seq(Requested) /\ seen' \o Tail(cli.queue) = cli.asked
  BY Zenon, <1>1, <1>4, MoveFront
<1>7. Client!IsPrefix(seen', cli.asked)
  BY Zenon, <1>5, <1>6, PrefixOfJoin
<1>8. Unwritten(cli') = Tail(cli.queue)
  BY Zenon, <1>2 DEF Unwritten
<1>9. Ordered(cli', seen')
  BY Zenon, <1>2, <1>4, <1>6, <1>7, <1>8 DEF ClientInv, Ordered
<1>. QED
  BY Zenon, <1>3, <1>9 DEF ClientInv

(* A client begins with nothing to write. *)
LEMMA ClientInit == Client!Init => ClientInv
<1>. SUFFICES ASSUME Client!Init PROVE ClientInv
  OBVIOUS
<1>1. cli = Client!Started /\ seen = <<>>
  BY Zenon DEF Client!Init
<1>2. Sound(cli)
  BY <1>1 DEF Client!Started, Sound, Members, Asking
<1>3. Ordered(cli, seen)
  BY <1>1 DEF Client!Started, Ordered, Unwritten, Client!IsPrefix
<1>. QED
  BY Zenon, <1>2, <1>3 DEF ClientInv

(* No step loses, repeats or reorders what the states sent. *)
LEMMA ClientStep == ClientInv /\ [Client!Next]_Client!vars => ClientInv'
<1>. SUFFICES ASSUME ClientInv, [Client!Next]_Client!vars PROVE ClientInv'
  OBVIOUS
<1>0. Sound(cli) /\ Ordered(cli, seen)
  BY Zenon DEF ClientInv
<1>1. ASSUME Leads(cli, cli'), seen' = seen
      PROVE  ClientInv'
  BY Zenon, <1>0, <1>1, LeadsOrdered DEF ClientInv
<1>2. ASSUME cli' = cli, seen' = seen
      PROVE  ClientInv'
  BY Zenon, <1>2 DEF ClientInv
<1>3. ASSUME NEW line \in Client!Lines, Client!ReadCommand(line)
      PROVE  ClientInv'
  BY Zenon, <1>0, <1>1, <1>3, CommandLeads DEF Client!ReadCommand
<1>4. CASE Client!InputEnds
  BY Zenon, <1>0, <1>1, <1>4, MoveLeads, SameLeads DEF Client!InputEnds, Client!history
<1>5. CASE Client!Read
  <2>1. ASSUME NEW n \in 1..ReadSize, Client!ReadSome(n)
        PROVE  ClientInv'
    BY Zenon, <1>2, <2>1 DEF Client!ReadSome, Client!history
  <2>2. CASE Client!ReadError
    <3>1. cli' = Client!Finish(cli) /\ seen' = seen
      BY Zenon, <2>2 DEF Client!ReadError, Client!history
    <3>2. Leads(cli, Client!Finish(cli))
      BY Zenon, <1>0, FinishLeads DEF Leads, Keeps, Sound
    <3>. QED
      BY Zenon, <1>1, <3>1, <3>2
  <2>. QED
    BY Zenon, <1>5, <2>1, <2>2 DEF Client!Read
<1>6. CASE Client!Handle
  <2>1. CASE Client!HandleFrame
    BY Zenon, <1>0, <1>1, <2>1, DispatchLeads DEF Client!HandleFrame
  <2>2. CASE Client!HandleRest
    BY Zenon, <1>2, <2>2 DEF Client!HandleRest, Client!history
  <2>3. CASE Client!HandleInvalid
    BY Zenon, <1>0, <1>1, <2>3, MoveLeads DEF Client!HandleInvalid
  <2>. QED
    BY Zenon, <1>6, <2>1, <2>2, <2>3 DEF Client!Handle
<1>7. CASE Client!Write \/ Client!Transmit
  BY Zenon, <1>7, WriteDoneOrdered, WriteErrorOrdered, TransmitOrdered DEF Client!Write
<1>8. CASE Client!Answer
  <2>1. \E request : Client!Take(request)
    BY Zenon, <1>8 DEF Client!Answer, Client!AnswerLogin, Client!AnswerLogout, Client!AnswerLeave, Client!RefuseLeave,
                       Client!RefuseJoin, Client!AnswerCreate, Client!AnswerJoin, Client!AnswerTimeout, Client!AnswerNothing
  <2>. QED
    BY Zenon, <1>2, <2>1 DEF Client!Take, Client!client
<1>9. CASE Client!PushForward \/ Client!PushLeave \/ Client!PushForeign
  BY Zenon, <1>2, <1>9 DEF Client!PushForward, Client!PushLeave, Client!PushForeign, Client!Push, Client!client
<1>10. CASE Client!ServerCloses
  BY Zenon, <1>2, <1>10 DEF Client!ServerCloses, Client!client, Client!history
<1>11. CASE Client!Rest \/ UNCHANGED Client!vars
  BY Zenon, <1>2, <1>11 DEF Client!Rest, Client!vars, Client!client, Client!history
<1>. QED
  BY Zenon, <1>3, <1>4, <1>5, <1>6, <1>7, <1>8, <1>9, <1>10, <1>11 DEF Client!Next

(* The session receives what the states sent with queue_write(), once each *)
(* and in order, and what it has not received is still in the queue.       *)
THEOREM RequestsReceivedInOrder == Client!Spec => []Client!RequestsInOrder
<1>1. ClientInv => Client!RequestsInOrder
  BY Zenon DEF ClientInv, Ordered, Unwritten, Client!RequestsInOrder
<1>. QED
  BY <1>1, ClientInit, ClientStep, PTL DEF Client!Spec

=============================================================================
