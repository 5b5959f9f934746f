--------------------------- MODULE SessionManager ---------------------------
(***************************************************************************)
(* The User server's session_manager with what uses it: tcp_server and     *)
(* acceptor, which create a session for every connection and remove it     *)
(* when the connection has closed, job_login on the session's strand, and  *)
(* room_channel, which looks sessions up by uid.                           *)
(*                                                                         *)
(* A connection stands for its session too.  Connections close on their    *)
(* own strand, logins run on the session's strand: the two meet only in    *)
(* the manager's mutex.  uid_ itself is not guarded: remove_session reads  *)
(* it before or after a concurrent set_user.                               *)
(***************************************************************************)
EXTENDS Integers, Sequences, Maps

CONSTANTS
  Conns,      \* connections, and their sessions
  Uids,       \* uids that clients log in with
  MaxLogins,  \* bound on the logins a connection sends
  OneUid,     \* whether every connection logs in with one uid only
  None

ASSUME ManagerAssumption ==
  /\ MaxLogins \in Nat
  /\ OneUid \in BOOLEAN
  /\ None \notin Conns \cup Uids

VARIABLES
  conn,         \* "new", "open", "closed"
  sessions,     \* the sessions in sessions_
  uidSessions,  \* uid_sessions_: a function from uids to sessions
  uid,          \* session::uid_
  stopped,      \* sessions whose scheduler was shut down
  strand,       \* tasks on a session's strand: a login's uid, or None for shutdown
  adding,       \* sessions between job_login's set_user and add_session
  logins,       \* history: logins a connection has sent
  asked,        \* history: uids a connection has asked for
  latest        \* history: the session that logged in last with a uid

vars == <<conn, sessions, uidSessions, uid, stopped, strand, adding, logins, asked, latest>>

Init ==
  /\ conn = [c \in Conns |-> "new"]
  /\ sessions = {}
  /\ uidSessions = EmptyMap
  /\ uid = [c \in Conns |-> None]
  /\ stopped = {}
  /\ strand = [c \in Conns |-> <<>>]
  /\ adding = {}
  /\ logins = [c \in Conns |-> 0]
  /\ asked = [c \in Conns |-> {}]
  /\ latest = EmptyMap

Post(c, task) == strand' = [strand EXCEPT ![c] = Append(@, task)]

-----------------------------------------------------------------------------
(* The server's threads *)

(* handle_accept: add_session(conn), before the connection starts to read. *)
Accept(c) ==
  /\ conn[c] = "new"
  /\ conn' = [conn EXCEPT ![c] = "open"]
  /\ sessions' = sessions \cup {c}
  /\ UNCHANGED <<uidSessions, uid, stopped, strand, adding, logins, asked, latest>>

(* session::on_recv(ReqLogin).  A read that had completed when the         *)
(* connection closed is still dispatched, here while a task on the strand  *)
(* keeps the session alive.                                                *)
ReceiveLogin(c, u) ==
  /\ conn[c] = "open" \/ strand[c] # <<>>
  /\ logins[c] < MaxLogins
  /\ OneUid => asked[c] \subseteq {u}
  /\ logins' = [logins EXCEPT ![c] = @ + 1]
  /\ asked' = [asked EXCEPT ![c] = @ \cup {u}]
  /\ Post(c, u)
  /\ UNCHANGED <<conn, sessions, uidSessions, uid, stopped, adding, latest>>

(* Variant of Close: removes whatever session the uid belongs to. *)
CloseRemovesUid(c) ==
  /\ conn[c] = "open"
  /\ conn' = [conn EXCEPT ![c] = "closed"]
  /\ c \in sessions
  /\ sessions' = sessions \ {c}
  /\ uidSessions' = Without(uidSessions, {uid[c]})
  /\ Post(c, None)
  /\ UNCHANGED <<uid, stopped, adding, logins, asked, latest>>

(* Variant of Close: leaves the uid index alone. *)
CloseKeepsUid(c) ==
  /\ conn[c] = "open"
  /\ conn' = [conn EXCEPT ![c] = "closed"]
  /\ c \in sessions
  /\ sessions' = sessions \ {c}
  /\ Post(c, None)
  /\ UNCHANGED <<uidSessions, uid, stopped, adding, logins, asked, latest>>

(* acceptor::on_conn_closed: remove_session(conn), which finds the session *)
(* of every open connection, then on_disconnected().                       *)
Close(c) ==
  /\ conn[c] = "open"
  /\ conn' = [conn EXCEPT ![c] = "closed"]
  /\ c \in sessions
  /\ sessions' = sessions \ {c}
  /\ uidSessions' = Without(uidSessions, {u \in {uid[c]} \cap DOMAIN uidSessions :
                                            uidSessions[u] = c})
  /\ Post(c, None)
  /\ UNCHANGED <<uid, stopped, adding, logins, asked, latest>>

-----------------------------------------------------------------------------
(* A session's strand *)

Take(c) == c \notin adding /\ strand[c] # <<>> /\ strand' = [strand EXCEPT ![c] = Tail(@)]

(* job_login up to set_user *)
LoginSetUser(c) ==
  /\ Take(c)
  /\ Head(strand[c]) # None
  /\ c \notin stopped
  /\ uid' = [uid EXCEPT ![c] = Head(strand[c])]
  /\ adding' = adding \cup {c}
  /\ UNCHANGED <<conn, sessions, uidSessions, stopped, logins, asked, latest>>

(* job_login: add_session(session), after which the job is done. *)
LoginAddSession(c) ==
  /\ c \in adding
  /\ adding' = adding \ {c}
  /\ sessions' = sessions \cup {c}
  /\ uidSessions' = With(uidSessions, uid[c], c)
  /\ latest' = With(latest, uid[c], c)
  /\ UNCHANGED <<conn, uid, stopped, strand, logins, asked>>

(* push_and_run of a stopped scheduler drops the login. *)
LoginRejected(c) ==
  /\ Take(c)
  /\ Head(strand[c]) # None
  /\ c \in stopped
  /\ UNCHANGED <<conn, sessions, uidSessions, uid, stopped, adding, logins, asked, latest>>

(* on_disconnected: scheduler_.shutdown() *)
Shutdown(c) ==
  /\ Take(c)
  /\ Head(strand[c]) = None
  /\ stopped' = stopped \cup {c}
  /\ UNCHANGED <<conn, sessions, uidSessions, uid, adding, logins, asked, latest>>

-----------------------------------------------------------------------------

AtRest ==
  /\ \A c \in Conns : conn[c] = "closed" /\ strand[c] = <<>>
  /\ adding = {}

Next ==
  \/ \E c \in Conns :
       \/ Accept(c)
       \/ \E u \in Uids : ReceiveLogin(c, u)
       \/ Close(c)
       \/ LoginSetUser(c) \/ LoginAddSession(c) \/ LoginRejected(c) \/ Shutdown(c)
  \/ AtRest /\ UNCHANGED vars

Spec == Init /\ [][Next]_vars

-----------------------------------------------------------------------------
(* Properties *)

(* Type correctness of the manager's maps and of the sessions.             *)
TypeOK ==
  /\ conn \in [Conns -> {"new", "open", "closed"}]
  /\ sessions \subseteq Conns /\ stopped \subseteq Conns /\ adding \subseteq Conns
  /\ DOMAIN uidSessions \subseteq Uids
  /\ \A u \in DOMAIN uidSessions : uidSessions[u] \in Conns
  /\ uid \in [Conns -> Uids \cup {None}]
  /\ strand \in [Conns -> Seq(Uids \cup {None})]
  /\ logins \in [Conns -> Nat]
  /\ asked \in [Conns -> SUBSET Uids]
  /\ DOMAIN latest \subseteq Uids
  /\ \A u \in DOMAIN latest : latest[u] \in Conns

(* While a connection logs in with one uid only, find_session(uid) returns *)
(* a session with that uid that is also in sessions_: a closed connection  *)
(* does not leave its uid behind, whichever login and close interleave.    *)
FoundIsRegistered ==
  \A u \in DOMAIN uidSessions : uid[uidSessions[u]] = u /\ uidSessions[u] \in sessions

(* The session that logged in last with a uid is the one find_session      *)
(* returns for as long as it is registered: an older connection of the     *)
(* same user that closes late does not take it away.                       *)
LatestIsFound ==
  \A u \in DOMAIN latest :
    latest[u] \in sessions /\ uid[latest[u]] = u
      => u \in DOMAIN uidSessions /\ uidSessions[u] = latest[u]

(* job_stop.hpp: "The connection's close callback removes it from the      *)
(* manager once shutdown completes": a closed session with no work left is *)
(* in the manager no more.                                                 *)
ClosedIsForgotten ==
  \A c \in Conns :
    conn[c] = "closed" /\ strand[c] = <<>> /\ c \notin adding => c \notin sessions

=============================================================================
