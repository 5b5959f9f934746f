------------------------------ MODULE TcpServer ------------------------------
(***************************************************************************)
(* The User server's process around the session manager: main() and        *)
(* tcp_server, with its threads that accept connections and its threads    *)
(* that run them, the acceptor that gives each connection a session, and   *)
(* the clients on the other end.                                           *)
(*                                                                         *)
(* The listening socket exists from the constructor on, so clients connect *)
(* and send before the server accepts or reads anything.  Exactly one      *)
(* async_accept is outstanding: handle_accept asks for the next one last.  *)
(* The pools hold a work guard, so their threads run until stop(), which   *)
(* only ~tcp_server calls.                                                 *)
(***************************************************************************)
EXTENDS SessionManager

CONSTANT MaxErrors   \* bound on the accepts that fail

ASSUME ServerAssumption == MaxErrors \in Nat

VARIABLES
  main,      \* "init", "accepting threads", "serving", "failed", "crashed"
  backlog,   \* connections of clients that were not accepted yet
  inbox,     \* logins that a connection's client sent and nobody read
  waiting,   \* whether an async_accept is outstanding
  handling,  \* the connection that handle_accept works on
  place,     \* what handle_accept does next: "notify", "start", "again"
  reading,   \* connections that were started
  errors,    \* history: accepts that failed
  served     \* history: logins a session has carried out

clients == <<backlog, inbox>>
accepts == <<waiting, handling, place, errors>>
serverVars == <<vars, main, clients, accepts, reading, served>>

ServerInit ==
  /\ Init
  /\ main = "init"
  /\ backlog = {}
  /\ inbox = [c \in Conns |-> <<>>]
  /\ waiting = FALSE /\ handling = None /\ place = "again"
  /\ reading = {}
  /\ errors = 0
  /\ served = [c \in Conns |-> 0]

-----------------------------------------------------------------------------
(* Clients *)

Connect(c) ==
  /\ conn[c] = "new" /\ c \notin backlog \cup {handling}
  /\ backlog' = backlog \cup {c}
  /\ UNCHANGED <<vars, main, inbox, accepts, reading, served>>

Sent(c) == logins[c] + Len(inbox[c])

Send(c, u) ==
  /\ c \in backlog \cup {handling} \/ conn[c] = "open"
  /\ Sent(c) < MaxLogins
  /\ OneUid => asked[c] \cup {inbox[c][n] : n \in 1..Len(inbox[c])} \subseteq {u}
  /\ inbox' = [inbox EXCEPT ![c] = Append(@, u)]
  /\ UNCHANGED <<vars, main, backlog, accepts, reading, served>>

-----------------------------------------------------------------------------
(* main() *)

(* tcp_server::start: acceptor_threads_.start(). *)
StartAcceptorThreads ==
  /\ main = "init"
  /\ main' = "accepting threads"
  /\ UNCHANGED <<vars, clients, accepts, reading, served>>

(* tcp_server::start: io_threads_.start() and start_accept().  It then     *)
(* waits for the threads, and has nothing more to do.                      *)
StartServing ==
  /\ main = "accepting threads"
  /\ main' = "serving"
  /\ waiting' = TRUE
  /\ UNCHANGED <<vars, clients, handling, place, errors, reading, served>>

(* A thread cannot be created: start() throws, ~tcp_server stops the       *)
(* threads there are, and main() returns.                                  *)
StartThrows ==
  /\ main \in {"init", "accepting threads"}
  /\ main' = "failed"
  /\ UNCHANGED <<vars, clients, accepts, reading, served>>

-----------------------------------------------------------------------------
(* acceptor_threads_ *)

(* Variant of Accepted: the connection is started before the owner is notified. *)
AcceptedStartsFirst(c) ==
  /\ main = "serving" /\ waiting /\ c \in backlog
  /\ waiting' = FALSE
  /\ backlog' = backlog \ {c}
  /\ handling' = c /\ place' = "notify"
  /\ reading' = reading \cup {c}
  /\ UNCHANGED <<vars, main, inbox, errors, served>>

(* async_accept completes with a connection. *)
Accepted(c) ==
  /\ main = "serving" /\ waiting /\ c \in backlog
  /\ waiting' = FALSE
  /\ backlog' = backlog \ {c}
  /\ handling' = c /\ place' = "notify"
  /\ UNCHANGED <<vars, main, inbox, errors, reading, served>>

(* async_accept completes with an error: handle_accept just asks again. *)
AcceptFails ==
  /\ main = "serving" /\ waiting
  /\ errors < MaxErrors
  /\ waiting' = FALSE
  /\ place' = "again"
  /\ errors' = errors + 1
  /\ UNCHANGED <<vars, main, clients, handling, reading, served>>

(* handle_accept: notify_on_created(), by which the acceptor adds a        *)
(* session that attaches itself to the connection.                         *)
NotifyOnCreated ==
  /\ main = "serving" /\ handling # None /\ place = "notify"
  /\ Accept(handling)
  /\ place' = "start"
  /\ UNCHANGED <<main, clients, waiting, handling, errors, reading, served>>

(* handle_accept: new_connection->start(), which lets it read. *)
StartConnection ==
  /\ main = "serving" /\ handling # None /\ place = "start"
  /\ reading' = reading \cup {handling}
  /\ place' = "again"
  /\ UNCHANGED <<vars, main, clients, waiting, handling, errors, served>>

(* handle_accept: start_accept(). *)
AcceptAgain ==
  /\ main = "serving" /\ ~waiting /\ place = "again"
  /\ waiting' = TRUE
  /\ handling' = None
  /\ UNCHANGED <<vars, main, clients, place, errors, reading, served>>

-----------------------------------------------------------------------------
(* io_threads_ *)

(* A connection reads a login and dispatches it to its session.  The       *)
(* dispatcher does not expect that there is none.                          *)
ReadLogin(c) ==
  /\ main = "serving" /\ c \in reading /\ inbox[c] # <<>>
  /\ inbox' = [inbox EXCEPT ![c] = Tail(@)]
  /\ IF conn[c] = "new" THEN main' = "crashed" /\ UNCHANGED vars
     ELSE main' = main /\ ReceiveLogin(c, Head(inbox[c]))
  /\ UNCHANGED <<backlog, accepts, reading, served>>

(* The connection closes: notify_on_closed(). *)
ConnectionCloses(c) ==
  /\ main = "serving" /\ c \in reading
  /\ Close(c)
  /\ UNCHANGED <<main, clients, accepts, reading, served>>

-----------------------------------------------------------------------------
(* The worker's threads, on the session's strand *)

RunLogin(c) ==
  /\ main = "serving"
  /\ LoginAddSession(c)
  /\ served' = [served EXCEPT ![c] = @ + 1]
  /\ UNCHANGED <<main, clients, accepts, reading>>

RunTask(c) ==
  /\ main = "serving"
  /\ LoginSetUser(c) \/ LoginRejected(c) \/ Shutdown(c)
  /\ UNCHANGED <<main, clients, accepts, reading, served>>

-----------------------------------------------------------------------------

Main == StartAcceptorThreads \/ StartServing
HandleAccept == NotifyOnCreated \/ StartConnection \/ AcceptAgain

ServerNext ==
  \/ Main \/ StartThrows \/ AcceptFails \/ HandleAccept
  \/ \E c \in Conns :
       \/ Connect(c) \/ \E u \in Uids : Send(c, u)
       \/ Accepted(c) \/ ReadLogin(c) \/ ConnectionCloses(c)
       \/ RunLogin(c) \/ RunTask(c)

ServerSpec == ServerInit /\ [][ServerNext]_serverVars

(* main() and the pools' threads run.  The listening socket's queue is     *)
(* first come, first served, so each client's turn comes.                  *)
FairServerSpec ==
  /\ ServerSpec
  /\ WF_serverVars(Main \/ StartThrows) /\ WF_serverVars(HandleAccept)
  /\ \A c \in Conns :
       SF_serverVars(Accepted(c)) /\ WF_serverVars(ReadLogin(c))
       /\ WF_serverVars(RunLogin(c) \/ RunTask(c))

-----------------------------------------------------------------------------
(* Properties *)

(* tcp_server.hpp: "The owner must attach its session before buffered      *)
(* input can dispatch".  Every login that a client sends, also before its  *)
(* connection is accepted or the server has threads, and also when other   *)
(* accepts fail, is carried out by the connection's session, unless the    *)
(* connection closes first or the server cannot start.                     *)
LoginsServed ==
  \A c \in Conns : \A n \in 1..MaxLogins :
    Sent(c) >= n ~> served[c] >= n \/ conn[c] = "closed" \/ main = "failed"

(* The dispatcher is never called for a connection without a session: a    *)
(* connection reads only once handle_accept has notified the owner.        *)
AttachedBeforeInput == main # "crashed"

=============================================================================
