----------------------------- MODULE UserSession -----------------------------
(***************************************************************************)
(* One client session of the User server: its strand, its job_scheduler,   *)
(* the jobs, and room_channel with its pending requests.                   *)
(*                                                                         *)
(* Steps are taken by the session's strand on the worker pool (a task at a *)
(* time, variables strand and exec), the connection's strand that receives *)
(* client messages and reports the close, the channel's thread (waiter)    *)
(* and the timer's thread (timer) of PendingRequests.                      *)
(*                                                                         *)
(* A job is a member of Jobs.  A create, join or leave job ("room") sends  *)
(* one request, with the job as request id.  The Room server is external:  *)
(* it reads messages in order and answers a request once, or never.        *)
(***************************************************************************)
EXTENDS Integers, Sequences, Functions, FiniteSets, Maps

CONSTANTS
  Jobs,      \* job objects, and the request ids of room jobs
  StopJob,   \* the job that job_logout enqueues
  Kinds,     \* kinds of messages that arrive for the session
  Timeout, MaxTime, NoId,  \* as in PendingRequests
  MaxPosts   \* nothing arrives while so many tasks wait on the strand

ASSUME SessionAssumption ==
  /\ Timeout \in Nat /\ MaxTime \in Nat /\ MaxPosts \in Nat
  /\ StopJob \notin Jobs
  /\ NoId \notin Jobs
  /\ Kinds \subseteq {"room", "logout", "forward", "deliver", "unknown"}

VARIABLES
  clock, requests, running, timer, waiter, owner, deadline, arrived, outcome, dropped,
  strand,    \* tasks posted to the session's strand, oldest first
  exec,      \* the job whose run() the strand is in, and where
  queue,     \* job_scheduler::q_
  busy,      \* job_scheduler::running_
  stopped,   \* job_scheduler::stopped_
  kind,      \* a job's class
  state,     \* a job's progress; finished_ is "done" or "cancelled"
  conn,      \* the connection: "open", "stopping", "closed"
  toRoom,    \* messages on their way to the Room server
  atRoom,    \* requests the Room server may still answer
  success,   \* the Room server's answer to a request
  replies,   \* history: what the client was answered for a job
  cancels,   \* history: requests the Room server was told to cancel
  pushed,    \* history: jobs in the order push_and_run accepted them
  started    \* history: jobs in the order run() was called

pendingVars == <<clock, requests, running, timer, waiter, owner, deadline, arrived, outcome,
                 dropped>>
schedVars == <<queue, busy, stopped>>
roomVars == <<toRoom, atRoom, success>>
historyVars == <<replies, cancels, pushed, started>>
vars == <<pendingVars, strand, exec, schedVars, kind, state, conn, roomVars, historyVars>>

Pending == INSTANCE PendingRequests WITH Ids <- Jobs

AllJobs == Jobs \cup {StopJob}
NoJob == [job |-> NoId, pc |-> "idle"]
Finished(j) == state[j] \in {"done", "cancelled"}

(* room_channel::start() has been called before the server accepts. *)
Init ==
  /\ clock = 0
  /\ requests = EmptyMap
  /\ running = TRUE
  /\ timer = [pc |-> "wait", now |-> 0, expired |-> {}]
  /\ waiter = [pc |-> "idle", id |-> NoId, now |-> 0, late |-> FALSE]
  /\ owner = "started"
  /\ deadline = EmptyMap
  /\ arrived = EmptyMap
  /\ outcome = [j \in Jobs |-> <<>>]
  /\ dropped = {}
  /\ strand = <<>>
  /\ exec = NoJob
  /\ queue = <<>>
  /\ busy = FALSE
  /\ stopped = FALSE
  /\ kind = [j \in AllJobs |-> "none"]
  /\ state = [j \in AllJobs |-> "new"]
  /\ conn = "open"
  /\ toRoom = <<>>
  /\ atRoom = {}
  /\ success = [j \in Jobs |-> FALSE]
  /\ replies = [j \in AllJobs |-> <<>>]
  /\ cancels = {}
  /\ pushed = <<>>
  /\ started = <<>>

Reply(j, text) == replies' = [replies EXCEPT ![j] = Append(@, text)]

-----------------------------------------------------------------------------
(* The connection's strand, and the channel's thread for what Room sends   *)
(* on its own: a job is posted to the session's strand.                    *)

(* The clock's bound leaves every room job that has not sent its request   *)
(* the time for its timeout.                                               *)
TimeOwed ==
  Timeout * Cardinality({j \in Jobs : kind[j] = "room" /\ state[j] \in {"posted", "queued"}})

(* A read that had completed, or a delivery that had found the session,    *)
(* may come after the close, while a task keeps the session alive.         *)
Receive(j, k) ==
  /\ conn # "closed" \/ strand # <<>>
  /\ state[j] = "new"
  /\ Len(strand) < MaxPosts
  /\ k = "room" => clock + TimeOwed + Timeout * (1 + Cardinality(DOMAIN requests)) <= MaxTime
  /\ kind' = [kind EXCEPT ![j] = k]
  /\ state' = [state EXCEPT ![j] = "posted"]
  /\ strand' = Append(strand, [op |-> "push", job |-> j])
  /\ UNCHANGED <<pendingVars, exec, schedVars, conn, roomVars, historyVars>>

(* on_conn_closed: on_disconnected() posts the scheduler's shutdown. *)
Disconnect ==
  /\ conn # "closed"
  /\ conn' = "closed"
  /\ strand' = Append(strand, [op |-> "shutdown", job |-> NoId])
  /\ UNCHANGED <<pendingVars, exec, schedVars, kind, state, roomVars, historyVars>>

-----------------------------------------------------------------------------
(* The session's strand: job_scheduler *)

Take(op) == exec = NoJob /\ strand # <<>> /\ Head(strand).op = op

(* push_and_run of a running scheduler *)
Push ==
  /\ Take("push")
  /\ ~stopped
  /\ LET j == Head(strand).job
     IN  /\ queue' = Append(queue, j)
         /\ pushed' = Append(pushed, j)
         /\ busy' = TRUE
         /\ exec' = IF busy THEN NoJob ELSE [job |-> Head(queue'), pc |-> "run"]
         /\ state' = [state EXCEPT ![j] = "queued"]
  /\ strand' = Tail(strand)
  /\ UNCHANGED <<pendingVars, stopped, kind, conn, roomVars, replies, cancels, started>>

(* push_and_run of a stopped scheduler: cancel(kShutdown) of a fresh job. *)
PushRejected ==
  /\ Take("push")
  /\ stopped
  /\ state' = [state EXCEPT ![Head(strand).job] = "cancelled"]
  /\ strand' = Tail(strand)
  /\ UNCHANGED <<pendingVars, exec, schedVars, kind, conn, roomVars, historyVars>>

(* Variant of CompleteCurrent: keeps running_ set when the queue is empty. *)
CompleteKeepsBusy ==
  IF queue = <<>>
  THEN exec' = NoJob /\ UNCHANGED <<queue, busy>>
  ELSE /\ queue' = Tail(queue)
       /\ UNCHANGED busy
       /\ exec' = IF Tail(queue) = <<>> THEN NoJob
                  ELSE [job |-> Head(Tail(queue)), pc |-> "run"]

(* complete_current(), reached through the job's done(). *)
CompleteCurrent ==
  IF queue = <<>>
  THEN exec' = NoJob /\ UNCHANGED <<queue, busy>>
  ELSE /\ queue' = Tail(queue)
       /\ busy' = (Tail(queue) # <<>>)
       /\ exec' = IF Tail(queue) = <<>> THEN NoJob
                  ELSE [job |-> Head(Tail(queue)), pc |-> "run"]

Runs(k) == exec.pc = "run" /\ kind[exec.job] = k

Starts == started' = Append(started, exec.job)

Done == state' = [state EXCEPT ![exec.job] = "done"] /\ CompleteCurrent

(* job_create_room, job_join_room, job_leave_room: requests_.add(). *)
RunRoomJob ==
  /\ Runs("room")
  /\ Starts
  /\ Pending!Add(exec.job)
  /\ exec' = [exec EXCEPT !.pc = "send"]
  /\ state' = [state EXCEPT ![exec.job] = "running"]
  /\ UNCHANGED <<strand, schedVars, kind, conn, roomVars, replies, cancels, pushed>>

(* The rest of send_request: the channel takes the message. *)
SendRequest ==
  /\ exec.pc = "send"
  /\ toRoom' = Append(toRoom, [op |-> "request", id |-> exec.job])
  /\ exec' = NoJob
  /\ UNCHANGED <<pendingVars, strand, schedVars, kind, state, conn, atRoom, success, historyVars>>

(* job_forward_message *)
RunForward ==
  /\ Runs("forward")
  /\ Starts
  /\ toRoom' = Append(toRoom, [op |-> "forward", id |-> exec.job])
  /\ Done
  /\ UNCHANGED <<pendingVars, strand, stopped, kind, conn, atRoom, success, replies, cancels,
                 pushed>>

(* job_cli_forward_message and job_ntf_leave_room_message, and job_login,  *)
(* whose effect on the session manager is in SessionManager.               *)
RunDeliver ==
  /\ Runs("deliver")
  /\ Starts
  /\ Reply(exec.job, "delivered")
  /\ Done
  /\ UNCHANGED <<pendingVars, strand, stopped, kind, conn, roomVars, cancels, pushed>>

(* job_logout answers and enqueues job_stop; on_recv_unknown enqueues it   *)
(* at once, which is the same job here.  The job_stop of a second logout,  *)
(* which would find the connection stopping, is left out.                  *)
RunLogout ==
  /\ Runs("logout")
  /\ Starts
  /\ Reply(exec.job, "bye")
  /\ \/ state[StopJob] # "new" /\ Done /\ UNCHANGED <<strand, kind>>
     \/ /\ state[StopJob] = "new"
        /\ kind' = [kind EXCEPT ![StopJob] = "unknown"]
        /\ strand' = Append(strand, [op |-> "push", job |-> StopJob])
        /\ state' = [state EXCEPT ![exec.job] = "done", ![StopJob] = "posted"]
        /\ CompleteCurrent
  /\ UNCHANGED <<pendingVars, stopped, conn, roomVars, cancels, pushed>>

(* job_stop: session::stop(), the connection drains and closes. *)
RunStop ==
  /\ Runs("unknown")
  /\ Starts
  /\ conn' = IF conn = "open" THEN "stopping" ELSE conn
  /\ Done
  /\ UNCHANGED <<pendingVars, strand, stopped, kind, roomVars, replies, cancels, pushed>>

-----------------------------------------------------------------------------
(* The session's strand: outcomes of room jobs *)

(* finish() of a job that is not finished: done() if run() was called. *)
Finish(j) ==
  /\ state' = [state EXCEPT ![j] = "done"]
  /\ CompleteCurrent

(* Variant of RunResponse: answers although the job has finished. *)
RunResponseAgain ==
  /\ Take("response")
  /\ LET j == Head(strand).job
     IN  /\ Reply(j, IF success[j] THEN "ok" ELSE "failed")
         /\ IF Finished(j) THEN UNCHANGED <<state, queue, busy, exec>> ELSE Finish(j)
  /\ strand' = Tail(strand)
  /\ UNCHANGED <<pendingVars, stopped, kind, conn, roomVars, cancels, pushed, started>>

(* handle_res_create_room, handle_res_join_room, handle_res_leave_room *)
RunResponse ==
  /\ Take("response")
  /\ LET j == Head(strand).job
     IN  \/ Finished(j) /\ UNCHANGED <<replies, state, queue, busy, exec>>
         \/ /\ ~Finished(j)
            /\ Reply(j, IF success[j] THEN "ok" ELSE "failed")
            /\ Finish(j)
  /\ strand' = Tail(strand)
  /\ UNCHANGED <<pendingVars, stopped, kind, conn, roomVars, cancels, pushed, started>>

(* cancel(kTimeout).  The request is in the table no more: its timeout     *)
(* handler runs only after it was taken out, so cancel_request does        *)
(* nothing.                                                                *)
RunTimeout ==
  /\ Take("timeout")
  /\ LET j == Head(strand).job
     IN  \/ Finished(j) /\ UNCHANGED <<replies, state, queue, busy, exec>>
         \/ /\ ~Finished(j)
            /\ Reply(j, "timeout")
            /\ Finish(j)
  /\ strand' = Tail(strand)
  /\ UNCHANGED <<pendingVars, stopped, kind, conn, roomVars, cancels, pushed, started>>

(* cancel_request: the Room server is told only if the request was still   *)
(* in the table.                                                           *)
CancelRequest(ids) ==
  IF ids = {}
  THEN UNCHANGED <<pendingVars, toRoom, cancels>>
  ELSE \E id \in ids : /\ Pending!Cancel(id)
                       /\ toRoom' = Append(toRoom, [op |-> "cancel", id |-> id])
                       /\ cancels' = cancels \cup ids

(* job_scheduler::shutdown(): every queued job is cancelled.  Only the     *)
(* first can have been run, and have a request; its done() finds an empty  *)
(* queue.                                                                  *)
Shutdown ==
  /\ Take("shutdown")
  /\ stopped' = TRUE
  /\ busy' = FALSE
  /\ queue' = <<>>
  /\ state' = [j \in AllJobs |-> IF \E n \in DOMAIN queue : queue[n] = j
                                 THEN "cancelled" ELSE state[j]]
  /\ CancelRequest({queue[n] : n \in DOMAIN queue} \cap DOMAIN requests)
  /\ strand' = Tail(strand)
  /\ UNCHANGED <<exec, kind, conn, atRoom, success, replies, pushed, started>>

-----------------------------------------------------------------------------
(* room_channel: the timer's and the channel's thread *)

(* The timeout handler: send_cancel, then the job's task. *)
OnTimeout(j) ==
  /\ toRoom' = Append(toRoom, [op |-> "cancel", id |-> j])
  /\ cancels' = cancels \cup {j}
  /\ strand' = Append(strand, [op |-> "timeout", job |-> j])

(* Variant of TimeoutCallback: does not tell the Room server. *)
TimeoutCallbackSilent(j) ==
  /\ Pending!TimerCall(j)
  /\ strand' = Append(strand, [op |-> "timeout", job |-> j])
  /\ UNCHANGED <<exec, schedVars, kind, state, conn, roomVars, historyVars>>

(* Variant of TimeoutCallback: tells the Room server and not the job. *)
TimeoutCallbackLost(j) ==
  /\ Pending!TimerCall(j)
  /\ toRoom' = Append(toRoom, [op |-> "cancel", id |-> j])
  /\ cancels' = cancels \cup {j}
  /\ UNCHANGED <<strand, exec, schedVars, kind, state, conn, atRoom, success, replies, pushed,
                 started>>

TimeoutCallback(j) ==
  /\ Pending!TimerCall(j)
  /\ OnTimeout(j)
  /\ UNCHANGED <<exec, schedVars, kind, state, conn, atRoom, success, replies, pushed, started>>

(* complete()'s callback: the response, or the timeout if it came late. *)
ResponseCallback ==
  /\ Pending!CompleteCall
  /\ \/ waiter.late /\ OnTimeout(waiter.id)
     \/ /\ ~waiter.late
        /\ strand' = Append(strand, [op |-> "response", job |-> waiter.id])
        /\ UNCHANGED <<toRoom, cancels>>
  /\ UNCHANGED <<exec, schedVars, kind, state, conn, atRoom, success, replies, pushed, started>>

ElsewhereUnchanged ==
  UNCHANGED <<strand, exec, schedVars, kind, state, conn, roomVars, historyVars>>

TimerStep == (Pending!TimerWake \/ Pending!TimerExpire \/ Pending!TimerWait) /\ ElsewhereUnchanged
WaiterStep == (Pending!CompleteTake \/ Pending!CompleteUnknown) /\ ElsewhereUnchanged
TimePasses == clock + TimeOwed < MaxTime /\ Pending!Tick /\ ElsewhereUnchanged

-----------------------------------------------------------------------------
(* The Room server, external *)

(* It reads the next message; a cancellation may come too late. *)
RoomReads ==
  /\ toRoom # <<>>
  /\ LET msg == Head(toRoom)
     IN  \/ msg.op = "request" /\ atRoom' = atRoom \cup {msg.id}
         \/ msg.op = "cancel" /\ atRoom' = atRoom \ {msg.id}
         \/ msg.op # "request" /\ UNCHANGED atRoom
  /\ toRoom' = Tail(toRoom)
  /\ UNCHANGED <<pendingVars, strand, exec, schedVars, kind, state, conn, success, historyVars>>

RoomAnswers(j, answer) ==
  /\ j \in atRoom
  /\ Pending!CompleteBegin(j)
  /\ atRoom' = atRoom \ {j}
  /\ success' = [success EXCEPT ![j] = answer]
  /\ UNCHANGED <<strand, exec, schedVars, kind, state, conn, toRoom, historyVars>>

-----------------------------------------------------------------------------

Arrivals ==
  \/ \E j \in Jobs, k \in Kinds : Receive(j, k)
  \/ Disconnect
  \/ \E j \in Jobs, answer \in BOOLEAN : RoomAnswers(j, answer)

Strand ==
  \/ Push \/ PushRejected \/ RunRoomJob \/ SendRequest \/ RunForward \/ RunDeliver
  \/ RunLogout \/ RunStop \/ RunResponse \/ RunTimeout \/ Shutdown

Timer == TimerStep \/ \E j \in Jobs : TimeoutCallback(j)
Waiter == WaiterStep \/ ResponseCallback

Next == Arrivals \/ Strand \/ Timer \/ Waiter \/ TimePasses \/ RoomReads

Spec == Init /\ [][Next]_vars

(* Threads run, time passes and a stopping connection closes; the Room     *)
(* server and the client are owed nothing.                                 *)
Fairness ==
  /\ WF_vars(Strand) /\ WF_vars(Timer) /\ WF_vars(Waiter) /\ WF_vars(TimePasses)
  /\ WF_vars(conn = "stopping" /\ Disconnect)

FairSpec == Spec /\ Fairness

-----------------------------------------------------------------------------
(* Properties *)

IsPrefix(s, t) == Len(s) <= Len(t) /\ SubSeq(s, 1, Len(s)) = SubSeq(t, 1, Len(s))

(* "Has role running logic serialization": jobs start in the order they    *)
(* were pushed, each at most once, and until shutdown the only one between *)
(* its run() and its done() is the front of the queue; running_ is set     *)
(* exactly while the queue is not empty.                                   *)
JobsSerialized ==
  /\ IsPrefix(started, pushed)
  /\ busy = (queue # <<>>)
  /\ \A j \in AllJobs : state[j] = "running" => queue # <<>> /\ Head(queue) = j
  /\ exec.pc = "run" => queue # <<>> /\ exec.job = Head(queue) /\ exec.job \notin Range(started)

(* However response, timeout, shutdown and late answers race, a room job   *)
(* answers the client exactly once when it is done and never when it was   *)
(* cancelled by the shutdown.                                              *)
AnsweredOnce ==
  \A j \in Jobs :
    kind[j] = "room" => Len(replies[j]) = IF state[j] = "done" THEN 1 ELSE 0

(* The client is told of a timeout only when the Room server has been told *)
(* to cancel, and never of success once it has been told to cancel.        *)
CancelMatchesAnswer ==
  \A j \in Jobs :
    /\ replies[j] = <<"timeout">> => j \in cancels
    /\ j \in cancels => replies[j] \in {<<>>, <<"timeout">>}

(* Every job that reaches the strand ends, even if the Room server never   *)
(* answers: the timer and the shutdown see to it.                          *)
JobsEnd == \A j \in AllJobs : state[j] = "posted" ~> Finished(j)

=============================================================================
