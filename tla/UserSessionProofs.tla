------------------------- MODULE UserSessionProofs -------------------------
(***************************************************************************)
(* A session of the User server runs its jobs one after another and        *)
(* answers each room job once, for every number of jobs, every timeout and *)
(* whatever arrives in which order.                                        *)
(*                                                                         *)
(* The invariant: Running and Lineup say where the scheduler stands,       *)
(* Posted what is on the strand, Requested what a job's request has to do  *)
(* with its state and its answer; the table of pending requests keeps the  *)
(* invariant that PendingRequestsProofs proves of it.                      *)
(***************************************************************************)
EXTENDS UserSession, TLAPS

(* What is proved of the table, for the jobs as ids. *)
Table == INSTANCE PendingRequestsProofs WITH Ids <- Jobs

Tasks == [op : {"push", "shutdown", "response", "timeout"}, job : AllJobs \cup {NoId}]
Places == [job : AllJobs \cup {NoId}, pc : {"idle", "run", "send"}]
JobStates == {"new", "posted", "queued", "running", "done", "cancelled"}

(* Types of the scheduler's, the strand's and the history's variables. *)
SessionTypes ==
  /\ strand \in Seq(Tasks)
  /\ exec \in Places
  /\ queue \in Seq(AllJobs) /\ pushed \in Seq(AllJobs) /\ started \in Seq(AllJobs)
  /\ busy \in BOOLEAN /\ stopped \in BOOLEAN
  /\ state \in [AllJobs -> JobStates]
  /\ DOMAIN kind = AllJobs /\ DOMAIN replies = AllJobs
  /\ cancels \subseteq Jobs

(* The strand is between jobs, or inside run() or send_request() of the    *)
(* front of the queue; a front that is not about to run is running.        *)
Running ==
  /\ exec.pc = "idle" => exec = NoJob
  /\ exec.pc # "idle" => Len(queue) > 0 /\ exec.job = queue[1]
  /\ exec.pc = "run" => state[queue[1]] = "queued"
  /\ exec.pc # "run" /\ Len(queue) > 0 => state[queue[1]] = "running"
  /\ busy = (Len(queue) > 0)
  /\ stopped => Len(queue) = 0

(* The queue is the end of what was pushed, and what has started is in     *)
(* front of it, with the front of the queue once that runs.                *)
Lineup ==
  /\ \A n \in 2..Len(queue) : state[queue[n]] = "queued"
  /\ \A j \in AllJobs : state[j] = "running" => Len(queue) > 0 /\ queue[1] = j
  /\ \A n \in 1..Len(pushed) : state[pushed[n]] \notin {"new", "posted"}
  /\ \A m, n \in 1..Len(pushed) : pushed[m] = pushed[n] => m = n
  /\ Len(queue) <= Len(pushed)
  /\ \A n \in 1..Len(queue) : queue[n] = pushed[Len(pushed) - Len(queue) + n]
  /\ Len(started) <= Len(pushed)
  /\ \A n \in 1..Len(started) : started[n] = pushed[n]
  /\ ~stopped => Len(started) = (Len(pushed) - Len(queue)) +
                   (IF Len(queue) = 0 \/ exec.pc = "run" THEN 0 ELSE 1)

(* What is on the strand: a posted job once, and of a room job the         *)
(* callback its request had.                                               *)
Posted ==
  /\ \A n \in 1..Len(strand) : strand[n].op = "push" =>
       strand[n].job \in AllJobs /\ state[strand[n].job] = "posted"
  /\ \A m, n \in 1..Len(strand) :
       strand[m].op = "push" /\ strand[n].op = "push" /\ strand[m].job = strand[n].job => m = n
  /\ \A n \in 1..Len(strand) : strand[n].op = "response" =>
       strand[n].job \in Jobs /\ outcome[strand[n].job] = <<"response">>
  /\ \A n \in 1..Len(strand) : strand[n].op = "timeout" =>
       strand[n].job \in Jobs /\ outcome[strand[n].job] = <<"timeout">>

(* A request is that of a room job that was run; the client's answer is    *)
(* the one its callback calls for; the Room server was told to cancel      *)
(* exactly what timed out or was given up.                                 *)
Requested ==
  /\ kind[StopJob] # "room"
  /\ \A j \in DOMAIN deadline :
       kind[j] = "room" /\ state[j] \in {"running", "done", "cancelled"}
  /\ \A j \in AllJobs : state[j] = "running" => kind[j] = "room"
  /\ \A j \in AllJobs : state[j] # "done" => replies[j] = <<>>
  /\ \A j \in AllJobs : kind[j] # "room" => replies[j] \in {<<>>, <<"bye">>, <<"delivered">>}
  /\ \A j \in Jobs : kind[j] = "room" /\ state[j] = "done" =>
       \/ outcome[j] = <<"response">> /\ replies[j] \in {<<"ok">>, <<"failed">>}
       \/ outcome[j] = <<"timeout">> /\ replies[j] = <<"timeout">>
  /\ \A j \in Jobs : outcome[j] = <<"timeout">> => j \in cancels
  /\ \A j \in cancels : j \in dropped \/ outcome[j] = <<"timeout">>

SessionInv == SessionTypes /\ Running /\ Lineup /\ Posted /\ Requested

-----------------------------------------------------------------------------
(* Sequences *)

(* Append adds at the end and keeps what was there. *)
LEMMA AppendFacts ==
  ASSUME NEW S, NEW s \in Seq(S), NEW x \in S
  PROVE  /\ Append(s, x) \in Seq(S)
         /\ Len(s) \in Nat /\ Len(Append(s, x)) = Len(s) + 1
         /\ Append(s, x)[Len(s) + 1] = x
         /\ \A n \in 1..Len(s) : Append(s, x)[n] = s[n]
         /\ \A n \in 1..Len(Append(s, x)) : n \in 1..Len(s) \/ n = Len(s) + 1
  OBVIOUS

(* Tail drops the first, Head. *)
LEMMA TailFacts ==
  ASSUME NEW S, NEW s \in Seq(S), s # <<>>
  PROVE  /\ Tail(s) \in Seq(S)
         /\ Len(s) \in Nat /\ Len(s) > 0 /\ 1 \in 1..Len(s)
         /\ Head(s) = s[1] /\ s[1] \in S
         /\ Len(Tail(s)) = Len(s) - 1
         /\ \A n \in 1..Len(Tail(s)) : n + 1 \in 1..Len(s) /\ Tail(s)[n] = s[n + 1]
  OBVIOUS

(* A sequence is empty when it has no elements. *)
LEMMA EmptyFacts ==
  ASSUME NEW S, NEW s \in Seq(S)
  PROVE  Len(s) \in Nat /\ (s = <<>> <=> Len(s) = 0)
  OBVIOUS

-----------------------------------------------------------------------------
(* The table of pending requests *)

(* What the table's parameters satisfy. *)
LEMMA TableParameters == Table!PendingAssumption
  BY SessionAssumption DEF Table!PendingAssumption

(* Where a request is: one that waits, or that a thread is about to call   *)
(* back, was added, and has neither been called back nor given up.         *)
LEMMA TableFacts ==
  ASSUME Table!PendingInv
  PROVE  /\ DOMAIN requests \subseteq DOMAIN deadline /\ DOMAIN deadline \subseteq Jobs
         /\ DOMAIN outcome = Jobs
         /\ \A j \in Jobs : outcome[j] \in {<<>>, <<"response">>, <<"timeout">>}
         /\ \A j \in DOMAIN requests : outcome[j] = <<>> /\ j \notin dropped
         /\ \A j \in timer.expired :
              j \in DOMAIN deadline /\ outcome[j] = <<>> /\ j \notin dropped
         /\ waiter.pc = "call" =>
              /\ waiter.id \in DOMAIN deadline
              /\ outcome[waiter.id] = <<>> /\ waiter.id \notin dropped
         /\ \A j \in dropped : j \in DOMAIN deadline /\ outcome[j] = <<>>
         /\ \A j \in Jobs : outcome[j] # <<>> => j \in DOMAIN deadline
<1>1. /\ DOMAIN requests \subseteq DOMAIN deadline /\ DOMAIN deadline \subseteq Jobs
      /\ DOMAIN outcome = Jobs /\ timer.expired \subseteq Jobs
      /\ waiter.pc = "call" => waiter.id \in Jobs
      /\ dropped \subseteq Jobs
  BY DEF Table!PendingInv, Table!TypeOK
<1>2. \A j \in Jobs : outcome[j] \in {<<>>, <<"response">>, <<"timeout">>}
  BY Zenon DEF Table!PendingInv, Table!Answered
<1> USE DEF Table!Waiting, Table!Completing, Table!Expiring, Table!Called, Table!Dropped
<1>3. \A j \in Jobs :
        /\ j \in DOMAIN requests \/ j \in timer.expired \/ j \in dropped => outcome[j] = <<>>
        /\ j \in DOMAIN requests \/ j \in timer.expired => j \notin dropped
        /\ j \in timer.expired \/ j \in dropped \/ outcome[j] # <<>> => j \in DOMAIN deadline
  BY Zenon DEF Table!PendingInv, Table!Located
<1>4. waiter.pc = "call" =>
        /\ waiter.id \in DOMAIN deadline
        /\ outcome[waiter.id] = <<>> /\ waiter.id \notin dropped
  BY Zenon, <1>1 DEF Table!PendingInv, Table!Located
<1> QED BY Zenon, <1>1, <1>2, <1>3, <1>4

(* The table when the session begins: started, and empty. *)
LEMMA TableStart == Init => Table!PendingInv
<1> SUFFICES ASSUME Init PROVE Table!PendingInv
  OBVIOUS
<1>1. /\ clock = 0
      /\ requests = [k \in {} |-> 0] /\ deadline = [k \in {} |-> 0] /\ arrived = [k \in {} |-> 0]
      /\ running = TRUE /\ owner = "started" /\ dropped = {}
      /\ outcome = [id \in Jobs |-> <<>>]
      /\ timer = [pc |-> "wait", now |-> 0, expired |-> {}]
      /\ waiter = [pc |-> "idle", id |-> NoId, now |-> 0, late |-> FALSE]
  BY Zenon DEF Init, EmptyMap
<1>2. Table!TypeOK
  <2>1. <<>> \in Seq({"response", "timeout"})
    OBVIOUS
  <2>2. outcome \in [Jobs -> Seq({"response", "timeout"})]
    BY Zenon, <1>1, <2>1
  <2>3. timer \in [pc : {"off", "wait", "expire", "call"}, now : Nat, expired : SUBSET Jobs]
    BY <1>1
  <2>4. waiter \in [pc : {"idle", "take", "call"}, id : Jobs \cup {NoId}, now : Nat,
                    late : BOOLEAN] /\ waiter.pc = "idle"
    BY <1>1
  <2>5. DOMAIN requests = {} /\ DOMAIN deadline = {} /\ DOMAIN arrived = {} /\ clock \in Nat
    BY <1>1
  <2> QED BY Zenon, <1>1, <2>2, <2>3, <2>4, <2>5 DEF Table!TypeOK
<1>3. /\ DOMAIN requests = {} /\ DOMAIN deadline = {}
      /\ waiter.pc = "idle" /\ timer.expired = {} /\ timer.pc = "wait"
      /\ timer.now = 0 /\ waiter.now = 0 /\ 0 <= clock
      /\ \A id \in Jobs : outcome[id] = <<>>
  BY <1>1
<1>4. Table!Located
  BY <1>1, <1>3 DEF Table!Located, Table!Waiting, Table!Completing, Table!Expiring, Table!Called,
     Table!Dropped
<1>5. Table!Timed
  BY <1>1, <1>3 DEF Table!Timed, Table!Completing, Table!Expiring
<1>6. Table!Answered
  BY <1>3 DEF Table!Answered
<1>7. Table!QuietAfterStop
  BY <1>1, <1>3 DEF Table!QuietAfterStop
<1> QED BY Zenon, <1>2, <1>4, <1>5, <1>6, <1>7 DEF Table!PendingInv

(* Every step of the session is a step of the table, or leaves it alone. *)
LEMMA TablePart ==
  ASSUME SessionInv, Table!PendingInv, [Next]_vars
  PROVE  [Table!Next]_Table!vars
<1> USE DEF Pending!EmptyMap, Pending!With, Pending!Without, Pending!NoResponse, Pending!TimerOff,
            Table!EmptyMap, Table!With, Table!Without, Table!NoResponse, Table!TimerOff
<1>1. CASE UNCHANGED pendingVars
  BY Zenon, <1>1 DEF pendingVars, Table!vars
<1>2. CASE TimePasses
  BY Zenon, <1>2 DEF TimePasses, Pending!Tick, Table!Tick, Table!Next
<1>3. CASE RunRoomJob
  <2>1. exec.job \in AllJobs /\ kind[exec.job] = "room"
    <3>1. exec.pc = "run" /\ kind[exec.job] = "room"
      BY Zenon, <1>3 DEF RunRoomJob, Runs
    <3>2. exec.job = queue[1] /\ Len(queue) > 0 /\ queue \in Seq(AllJobs)
      BY <3>1 DEF SessionInv, SessionTypes, Running
    <3>3. queue[1] \in AllJobs
      BY <3>2
    <3> QED BY Zenon, <3>1, <3>2, <3>3
  <2>2. exec.job \in Jobs
    BY Zenon, <2>1 DEF SessionInv, Requested, AllJobs
  <2> QED BY Zenon, <1>3, <2>2 DEF RunRoomJob, Pending!Add, Table!Add, Table!Next
<1>4. ASSUME NEW id \in DOMAIN requests, Pending!Cancel(id)
      PROVE  Table!Next
  <2>1. id \in Jobs
    BY Zenon, <1>4, TableFacts
  <2> QED BY Zenon, <1>4, <2>1 DEF Pending!Cancel, Table!Cancel, Table!Next
<1>5. CASE Shutdown
  <2>1. \/ UNCHANGED pendingVars
        \/ \E id \in DOMAIN requests : Pending!Cancel(id)
    BY Zenon, <1>5 DEF Shutdown, CancelRequest
  <2> QED BY Zenon, <1>1, <1>4, <2>1
<1>6. CASE Timer
  <2>1. CASE Pending!TimerWake
    BY Zenon, <2>1 DEF Pending!TimerWake, Table!TimerWake, Table!Next, Table!Timer
  <2>2. CASE Pending!TimerExpire
    BY Zenon, <2>2 DEF Pending!TimerExpire, Table!TimerExpire, Table!Next, Table!Timer
  <2>3. CASE Pending!TimerWait
    BY Zenon, <2>3 DEF Pending!TimerWait, Table!TimerWait, Table!Next, Table!Timer
  <2>4. ASSUME NEW id \in Jobs, Pending!TimerCall(id)
        PROVE  Table!Next
    BY Zenon, <2>4 DEF Pending!TimerCall, Table!TimerCall, Table!Next, Table!Timer
  <2> QED BY Zenon, <1>6, <2>1, <2>2, <2>3, <2>4 DEF Timer, TimerStep, TimeoutCallback
<1>7. CASE Waiter
  <2>1. CASE Pending!CompleteTake
    BY Zenon, <2>1 DEF Pending!CompleteTake, Table!CompleteTake, Table!Next, Table!Complete
  <2>2. CASE Pending!CompleteUnknown
    BY Zenon, <2>2 DEF Pending!CompleteUnknown, Table!CompleteUnknown, Table!Next, Table!Complete
  <2>3. CASE Pending!CompleteCall
    BY Zenon, <2>3 DEF Pending!CompleteCall, Table!CompleteCall, Table!Next, Table!Complete
  <2> QED BY Zenon, <1>7, <2>1, <2>2, <2>3 DEF Waiter, WaiterStep, ResponseCallback
<1>8. ASSUME NEW j \in Jobs, NEW answer \in BOOLEAN, RoomAnswers(j, answer)
      PROVE  Table!Next
  BY Zenon, <1>8 DEF RoomAnswers, Pending!CompleteBegin, Table!CompleteBegin, Table!Next
<1>9. CASE Arrivals
  BY Zenon, <1>1, <1>8, <1>9 DEF Arrivals, Receive, Disconnect
<1>10. CASE Strand
  BY Zenon, <1>1, <1>3, <1>5, <1>10 DEF Strand, Push, PushRejected, SendRequest, RunForward,
     RunDeliver, RunLogout, RunStop, RunResponse, RunTimeout
<1>11. CASE RoomReads \/ UNCHANGED vars
  BY Zenon, <1>1, <1>11 DEF RoomReads, vars
<1> QED BY Zenon, <1>2, <1>6, <1>7, <1>9, <1>10, <1>11 DEF Next

-----------------------------------------------------------------------------
(* The strand *)

(* Taking the first task keeps what is said of the others. *)
LEMMA PostedTail ==
  ASSUME SessionTypes, Posted, strand # <<>>, strand' = Tail(strand), outcome' = outcome,
         \A j \in AllJobs : state[j] = "posted" /\ ~(strand[1].op = "push" /\ strand[1].job = j)
                            => state'[j] = "posted"
  PROVE  strand' \in Seq(Tasks) /\ Posted'
<1>1. strand \in Seq(Tasks)
  BY Zenon DEF SessionTypes
<1>2. /\ strand' \in Seq(Tasks) /\ 1 \in 1..Len(strand) /\ Len(strand) \in Nat
      /\ \A n \in 1..Len(strand') : n + 1 \in 1..Len(strand) /\ strand'[n] = strand[n + 1]
  BY Zenon, <1>1, TailFacts
<1>3. \A n \in 1..Len(strand') : n + 1 # 1
  OBVIOUS
<1>4. \A n \in 1..Len(strand') : strand'[n].op = "push" =>
        strand'[n].job \in AllJobs /\ state'[strand'[n].job] = "posted"
  BY <1>2, <1>3 DEF Posted
<1>5. ASSUME NEW m \in 1..Len(strand'), NEW n \in 1..Len(strand'),
             strand'[m].op = "push", strand'[n].op = "push", strand'[m].job = strand'[n].job
      PROVE  m = n
  <2>1. m + 1 = n + 1
    BY Zenon, <1>2, <1>5 DEF Posted
  <2> QED BY <2>1
<1>6. \A n \in 1..Len(strand') :
        /\ strand'[n].op = "response" =>
             strand'[n].job \in Jobs /\ outcome'[strand'[n].job] = <<"response">>
        /\ strand'[n].op = "timeout" =>
             strand'[n].job \in Jobs /\ outcome'[strand'[n].job] = <<"timeout">>
  <2> SUFFICES ASSUME NEW n \in 1..Len(strand')
               PROVE  /\ strand'[n].op = "response" =>
                           strand'[n].job \in Jobs /\ outcome'[strand'[n].job] = <<"response">>
                      /\ strand'[n].op = "timeout" =>
                           strand'[n].job \in Jobs /\ outcome'[strand'[n].job] = <<"timeout">>
    BY Zenon
  <2>1. n + 1 \in 1..Len(strand) /\ strand'[n] = strand[n + 1] /\ outcome' = outcome
    BY Zenon, <1>2
  <2>2. /\ strand[n + 1].op = "response" =>
             strand[n + 1].job \in Jobs /\ outcome[strand[n + 1].job] = <<"response">>
        /\ strand[n + 1].op = "timeout" =>
             strand[n + 1].job \in Jobs /\ outcome[strand[n + 1].job] = <<"timeout">>
    BY Zenon, <2>1 DEF Posted
  <2> QED BY Zenon, <2>1, <2>2
<1> QED BY Zenon, <1>2, <1>4, <1>5, <1>6 DEF Posted

(* Posting a task that satisfies what is said of it. *)
LEMMA PostedAppend ==
  ASSUME SessionTypes, Posted, NEW t \in Tasks, strand' = Append(strand, t),
         \A j \in AllJobs : state[j] = "posted" => state'[j] = "posted",
         \A j \in Jobs : outcome[j] # <<>> => outcome'[j] = outcome[j],
         t.op = "push" => t.job \in AllJobs /\ state[t.job] # "posted" /\ state'[t.job] = "posted",
         t.op = "response" => t.job \in Jobs /\ outcome'[t.job] = <<"response">>,
         t.op = "timeout" => t.job \in Jobs /\ outcome'[t.job] = <<"timeout">>
  PROVE  strand' \in Seq(Tasks) /\ Posted'
<1>1. strand \in Seq(Tasks)
  BY Zenon DEF SessionTypes
<1>2. /\ strand' \in Seq(Tasks)
      /\ \A n \in 1..Len(strand') :
           \/ n \in 1..Len(strand) /\ strand'[n] = strand[n]
           \/ n = Len(strand) + 1 /\ strand'[n] = t
  BY <1>1, AppendFacts
<1>3. <<"response">> # <<>> /\ <<"timeout">> # <<>>
  OBVIOUS
<1>4. \A n \in 1..Len(strand') : strand'[n].op = "push" =>
        strand'[n].job \in AllJobs /\ state'[strand'[n].job] = "posted"
  BY <1>2 DEF Posted
<1>5. \A m, n \in 1..Len(strand') :
        strand'[m].op = "push" /\ strand'[n].op = "push" /\ strand'[m].job = strand'[n].job
        => m = n
  BY <1>2 DEF Posted
<1>6. ASSUME NEW n \in 1..Len(strand'), strand'[n].op = "response"
      PROVE  strand'[n].job \in Jobs /\ outcome'[strand'[n].job] = <<"response">>
  <2>1. CASE strand'[n] = t
    BY Zenon, <1>6, <2>1
  <2>2. CASE n \in 1..Len(strand) /\ strand'[n] = strand[n]
    <3>1. strand[n].job \in Jobs /\ outcome[strand[n].job] = <<"response">>
      BY Zenon, <1>6, <2>2 DEF Posted
    <3> QED BY Zenon, <1>3, <2>2, <3>1
  <2> QED BY Zenon, <1>2, <2>1, <2>2
<1>7. ASSUME NEW n \in 1..Len(strand'), strand'[n].op = "timeout"
      PROVE  strand'[n].job \in Jobs /\ outcome'[strand'[n].job] = <<"timeout">>
  <2>1. CASE strand'[n] = t
    BY Zenon, <1>7, <2>1
  <2>2. CASE n \in 1..Len(strand) /\ strand'[n] = strand[n]
    <3>1. strand[n].job \in Jobs /\ outcome[strand[n].job] = <<"timeout">>
      BY Zenon, <1>7, <2>2 DEF Posted
    <3> QED BY Zenon, <1>3, <2>2, <3>1
  <2> QED BY Zenon, <1>2, <2>1, <2>2
<1> QED BY Zenon, <1>2, <1>4, <1>5, <1>6, <1>7 DEF Posted

(* Nothing is taken or posted. *)
LEMMA PostedSame ==
  ASSUME SessionTypes, Posted, UNCHANGED <<strand, outcome>>,
         \A j \in AllJobs : state[j] = "posted" => state'[j] = "posted"
  PROVE  strand' \in Seq(Tasks) /\ Posted'
<1>1. strand' \in Seq(Tasks)
  BY Zenon DEF SessionTypes
<1> QED BY Zenon, <1>1 DEF Posted

-----------------------------------------------------------------------------
(* The scheduler *)

(* Lengths are numbers, and what is queued, pushed or started is a job. *)
LEMMA LineFacts ==
  ASSUME SessionTypes
  PROVE  /\ Len(queue) \in Nat /\ Len(pushed) \in Nat /\ Len(started) \in Nat
         /\ Len(strand) \in Nat
         /\ \A n \in 1..Len(queue) : queue[n] \in AllJobs
         /\ \A n \in 1..Len(pushed) : pushed[n] \in AllJobs
         /\ queue = <<>> <=> Len(queue) = 0
         /\ strand = <<>> <=> Len(strand) = 0
         /\ Len(queue) > 0 => queue[1] \in AllJobs /\ Head(queue) = queue[1]
         /\ state \in [AllJobs -> JobStates]
<1>1. /\ queue \in Seq(AllJobs) /\ pushed \in Seq(AllJobs) /\ started \in Seq(AllJobs)
      /\ strand \in Seq(Tasks) /\ state \in [AllJobs -> JobStates]
  BY Zenon DEF SessionTypes
<1> QED BY <1>1

(* A step that only touches jobs which are not in the scheduler yet. *)
LEMMA SchedulerSame ==
  ASSUME SessionTypes, Running, Lineup, UNCHANGED <<exec, queue, busy, stopped, pushed, started>>,
         \A j \in AllJobs :
           \/ state'[j] = state[j]
           \/ state[j] \in {"new", "posted"} /\ state'[j] \in {"posted", "cancelled"}
  PROVE  Running' /\ Lineup'
<1>1. \A j \in AllJobs :
        /\ state[j] \notin {"new", "posted"} => state'[j] = state[j]
        /\ state'[j] \in {"running", "queued"} => state[j] = state'[j]
        /\ state[j] \in {"queued", "running"} => state'[j] = state[j]
  OBVIOUS
<1>2. Running'
  <2>1. Len(queue) > 0 => queue[1] \in AllJobs
    BY Zenon, LineFacts
  <2> QED BY <1>1, <2>1 DEF Running
<1>3. \A n \in 2..Len(queue) : state'[queue[n]] = "queued"
  <2>1. \A n \in 2..Len(queue) : queue[n] \in AllJobs /\ state[queue[n]] = "queued"
    <3>1. \A n \in 2..Len(queue) : n \in 1..Len(queue)
      BY LineFacts
    <3> QED BY Zenon, <3>1, LineFacts DEF Lineup
  <2> QED BY <1>1, <2>1
<1>4. \A j \in AllJobs : state'[j] = "running" => Len(queue) > 0 /\ queue[1] = j
  BY <1>1 DEF Lineup
<1>5. \A n \in 1..Len(pushed) : state'[pushed[n]] \notin {"new", "posted"}
  BY Zenon, <1>1, LineFacts DEF Lineup
<1> QED BY <1>2, <1>3, <1>4, <1>5 DEF Lineup

(* push_and_run: the job is queued, and run at once if the queue was       *)
(* empty.                                                                  *)
LEMMA SchedulerPush ==
  ASSUME SessionTypes, Running, Lineup, ~stopped, exec = NoJob,
         NEW j \in AllJobs, state[j] = "posted",
         queue' = Append(queue, j), pushed' = Append(pushed, j), busy' = TRUE,
         exec' = IF busy THEN NoJob ELSE [job |-> Head(queue'), pc |-> "run"],
         state' = [state EXCEPT ![j] = "queued"],
         UNCHANGED <<stopped, started>>
  PROVE  /\ queue' \in Seq(AllJobs) /\ pushed' \in Seq(AllJobs)
         /\ exec' \in Places
         /\ Running' /\ Lineup'
<1>1. queue \in Seq(AllJobs) /\ pushed \in Seq(AllJobs) /\ state \in [AllJobs -> JobStates]
  BY Zenon DEF SessionTypes
<1>2. /\ queue' \in Seq(AllJobs) /\ Len(queue) \in Nat /\ Len(queue') = Len(queue) + 1
      /\ queue'[Len(queue) + 1] = j
      /\ \A n \in 1..Len(queue) : queue'[n] = queue[n]
      /\ \A n \in 1..Len(queue') : n \in 1..Len(queue) \/ n = Len(queue) + 1
  BY <1>1, AppendFacts
<1>3. /\ pushed' \in Seq(AllJobs) /\ Len(pushed) \in Nat /\ Len(pushed') = Len(pushed) + 1
      /\ pushed'[Len(pushed) + 1] = j
      /\ \A n \in 1..Len(pushed) : pushed'[n] = pushed[n]
      /\ \A n \in 1..Len(pushed') : n \in 1..Len(pushed) \/ n = Len(pushed) + 1
  BY <1>1, AppendFacts
<1>4. /\ state'[j] = "queued"
      /\ \A k \in AllJobs : k # j => state'[k] = state[k]
  BY <1>1
<1>5. /\ \A n \in 1..Len(queue) : queue[n] \in AllJobs /\ queue[n] # j
      /\ \A n \in 1..Len(pushed) : pushed[n] \in AllJobs /\ pushed[n] # j
  <2>1. \A n \in 1..Len(pushed) : pushed[n] \in AllJobs /\ pushed[n] # j
    BY LineFacts DEF Lineup
  <2>2. \A n \in 1..Len(queue) :
          /\ queue[n] = pushed[Len(pushed) - Len(queue) + n]
          /\ Len(pushed) - Len(queue) + n \in 1..Len(pushed)
    BY <1>2, <1>3 DEF Lineup
  <2> QED BY Zenon, <2>1, <2>2
<1>6. exec.pc = "idle"
  BY DEF NoJob
<1>7. Head(queue') = queue'[1] /\ queue'[1] \in AllJobs
  BY <1>2
<1>8. exec' \in Places
  BY <1>7 DEF NoJob, Places
<1>9. Running'
  <2>1. CASE busy
    <3>1. /\ Len(queue) > 0 /\ queue'[1] = queue[1] /\ queue[1] \in AllJobs /\ queue[1] # j
          /\ Len(queue') > 0
      <4>1. Len(queue) > 0
        BY Zenon, <2>1 DEF Running
      <4> QED BY <1>2, <1>5, <4>1
    <3>2. state[queue[1]] = "running"
      BY <1>6, <3>1 DEF Running
    <3>3. exec' = NoJob /\ exec'.pc = "idle"
      BY <2>1 DEF NoJob
    <3>4. busy' = (Len(queue') > 0)
      BY <3>1
    <3> QED BY <1>4, <3>1, <3>2, <3>3, <3>4 DEF Running
  <2>2. CASE ~busy
    <3>1. Len(queue) = 0 /\ queue'[1] = j /\ Len(queue') > 0
      <4>1. ~(Len(queue) > 0)
        BY Zenon, <2>2 DEF Running
      <4> QED BY <1>2, <4>1
    <3>2. exec' = [job |-> j, pc |-> "run"]
      BY Zenon, <1>7, <2>2, <3>1
    <3>3. exec'.pc = "run" /\ exec'.job = j
      BY <3>2
    <3>4. busy' = (Len(queue') > 0)
      BY <3>1
    <3> QED BY <1>4, <3>1, <3>3, <3>4 DEF Running
  <2> QED BY <2>1, <2>2 DEF SessionTypes
<1>10. \A n \in 2..Len(queue') : state'[queue'[n]] = "queued"
  <2> SUFFICES ASSUME NEW n \in 2..Len(queue') PROVE state'[queue'[n]] = "queued"
    OBVIOUS
  <2>1. CASE n = Len(queue) + 1
    BY <1>2, <1>4, <2>1
  <2>2. CASE n \in 2..Len(queue)
    <3>1. n \in 1..Len(queue) /\ state[queue[n]] = "queued"
      BY <1>2, <2>2 DEF Lineup
    <3> QED BY <1>2, <1>4, <1>5, <3>1
  <2> QED BY <1>2, <2>1, <2>2
<1>11. \A k \in AllJobs : state'[k] = "running" => Len(queue') > 0 /\ queue'[1] = k
  <2>1. Len(queue) > 0 => 1 \in 1..Len(queue)
    BY <1>2
  <2> QED BY <1>2, <1>4, <2>1 DEF Lineup
<1>12. \A n \in 1..Len(pushed') : state'[pushed'[n]] \notin {"new", "posted"}
  <2>1. \A n \in 1..Len(pushed) : state[pushed[n]] \notin {"new", "posted"}
    BY Zenon DEF Lineup
  <2> QED BY <1>3, <1>4, <1>5, <2>1
<1>13. \A m, n \in 1..Len(pushed') : pushed'[m] = pushed'[n] => m = n
  BY <1>3, <1>5 DEF Lineup
<1>14. Len(queue') <= Len(pushed')
  BY <1>2, <1>3 DEF Lineup
<1>15. \A n \in 1..Len(queue') : queue'[n] = pushed'[Len(pushed') - Len(queue') + n]
  <2> SUFFICES ASSUME NEW n \in 1..Len(queue')
               PROVE  queue'[n] = pushed'[Len(pushed') - Len(queue') + n]
    OBVIOUS
  <2>1. Len(pushed') - Len(queue') + n = Len(pushed) - Len(queue) + n
    BY <1>2, <1>3
  <2>2. CASE n = Len(queue) + 1
    <3>1. Len(pushed) - Len(queue) + n = Len(pushed) + 1
      BY <1>2, <1>3, <2>2
    <3> QED BY <1>2, <1>3, <2>1, <2>2, <3>1
  <2>3. CASE n \in 1..Len(queue)
    <3>1. Len(pushed) - Len(queue) + n \in 1..Len(pushed)
      BY <1>2, <1>3, <2>3 DEF Lineup
    <3> QED BY <1>2, <1>3, <2>1, <2>3, <3>1 DEF Lineup
  <2> QED BY <1>2, <2>2, <2>3
<1>16. /\ Len(started) <= Len(pushed')
       /\ \A n \in 1..Len(started) : started[n] = pushed'[n]
  <2>1. \A n \in 1..Len(started) : n \in 1..Len(pushed)
    BY <1>3, LineFacts DEF Lineup
  <2>2. Len(started) <= Len(pushed')
    BY <1>3, LineFacts DEF Lineup
  <2> QED BY Zenon, <1>3, <2>1, <2>2 DEF Lineup
<1>17. Len(started) = (Len(pushed') - Len(queue')) +
                        (IF Len(queue') = 0 \/ exec'.pc = "run" THEN 0 ELSE 1)
  <2>1. Len(started) = (Len(pushed) - Len(queue)) + (IF Len(queue) = 0 THEN 0 ELSE 1)
    BY <1>6 DEF Lineup
  <2>2. exec'.pc = "run" <=> Len(queue) = 0
    <3>1. busy <=> Len(queue) > 0
      BY <1>2 DEF Running
    <3>2. busy => exec'.pc = "idle"
      BY DEF NoJob
    <3>3. ~busy => exec'.pc = "run"
      BY DEF NoJob
    <3> QED BY <1>2, <3>1, <3>2, <3>3
  <2> QED BY <1>2, <1>3, <2>1, <2>2
<1> QED BY Zenon, <1>2, <1>3, <1>8, <1>9, <1>10, <1>11, <1>12, <1>13, <1>14, <1>15, <1>16, <1>17
       DEF Lineup

(* What starts is the front of the queue, the next of what was pushed. *)
LEMMA SchedulerStarts ==
  ASSUME SessionTypes, Running, Lineup, exec.pc = "run", started' = Append(started, exec.job)
  PROVE  /\ Len(queue) > 0 /\ exec.job = queue[1] /\ queue[1] \in AllJobs
         /\ state[queue[1]] = "queued" /\ ~stopped
         /\ started' \in Seq(AllJobs)
         /\ Len(started') = (Len(pushed) - Len(queue)) + 1
         /\ \A n \in 1..Len(started') : started'[n] = pushed[n]
<1>1. Len(queue) > 0 /\ exec.job = queue[1] /\ state[queue[1]] = "queued" /\ ~stopped
  <2>1. exec.pc # "idle"
    OBVIOUS
  <2>2. Len(queue) > 0 /\ exec.job = queue[1] /\ state[queue[1]] = "queued"
    BY Zenon, <2>1 DEF Running
  <2>3. Len(queue) # 0
    BY <2>2
  <2> QED BY Zenon, <2>2, <2>3 DEF Running
<1>2. queue[1] \in AllJobs /\ started \in Seq(AllJobs)
  BY Zenon, <1>1, LineFacts DEF SessionTypes
<1>3. /\ started' \in Seq(AllJobs) /\ Len(started) \in Nat /\ Len(started') = Len(started) + 1
      /\ started'[Len(started) + 1] = queue[1]
      /\ \A n \in 1..Len(started) : started'[n] = started[n]
      /\ \A n \in 1..Len(started') : n \in 1..Len(started) \/ n = Len(started) + 1
  BY <1>1, <1>2, AppendFacts
<1>4. Len(started) = Len(pushed) - Len(queue)
  <2>1. Len(started) = (Len(pushed) - Len(queue)) + 0
    BY Zenon, <1>1 DEF Lineup
  <2> QED BY <1>3, <2>1, LineFacts
<1>5. queue[1] = pushed[Len(started) + 1]
  <2>1. 1 \in 1..Len(queue)
    BY <1>1, LineFacts
  <2>2. queue[1] = pushed[Len(pushed) - Len(queue) + 1]
    BY Zenon, <2>1 DEF Lineup
  <2> QED BY <1>4, <2>2
<1>6. \A n \in 1..Len(started') : started'[n] = pushed[n]
  BY <1>3, <1>5 DEF Lineup
<1> QED BY <1>1, <1>2, <1>3, <1>4, <1>6

(* run() of a room job: the front of the queue runs. *)
LEMMA SchedulerRun ==
  ASSUME SessionTypes, Running, Lineup, exec.pc = "run", started' = Append(started, exec.job),
         exec' = [exec EXCEPT !.pc = "send"],
         state' = [state EXCEPT ![exec.job] = "running"],
         UNCHANGED <<queue, busy, stopped, pushed>>
  PROVE  /\ started' \in Seq(AllJobs)
         /\ exec' \in Places
         /\ Running' /\ Lineup'
<1>1. /\ Len(queue) > 0 /\ exec.job = queue[1] /\ queue[1] \in AllJobs
      /\ state[queue[1]] = "queued" /\ ~stopped
      /\ started' \in Seq(AllJobs)
      /\ Len(started') = (Len(pushed) - Len(queue)) + 1
      /\ \A n \in 1..Len(started') : started'[n] = pushed[n]
  BY Zenon, SchedulerStarts
<1>2. exec' \in Places /\ exec'.pc = "send" /\ exec'.job = queue[1]
  <2>1. exec \in Places
    BY Zenon DEF SessionTypes
  <2> QED BY <1>1, <2>1 DEF Places
<1>3. /\ state'[queue[1]] = "running"
      /\ \A k \in AllJobs : k # queue[1] => state'[k] = state[k]
  BY <1>1, LineFacts
<1>4. Running'
  <2>1. exec'.pc # "idle" /\ exec'.pc # "run"
    BY <1>2
  <2> QED BY Zenon, <1>1, <1>2, <1>3, <2>1 DEF Running
<1>5. \A n \in 2..Len(queue) : state'[queue[n]] = "queued"
  <2> SUFFICES ASSUME NEW n \in 2..Len(queue) PROVE state'[queue[n]] = "queued"
    OBVIOUS
  <2>1. n \in 1..Len(queue) /\ 1 \in 1..Len(queue) /\ n # 1
    BY <1>1, LineFacts
  <2>2. queue[n] # queue[1]
    <3> DEFINE d == Len(pushed) - Len(queue)
    <3>1. /\ queue[n] = pushed[d + n] /\ queue[1] = pushed[d + 1]
      BY Zenon, <2>1 DEF Lineup
    <3>2. d + n \in 1..Len(pushed) /\ d + 1 \in 1..Len(pushed) /\ d + n # d + 1
      BY <2>1, LineFacts DEF Lineup
    <3> HIDE DEF d
    <3> QED BY Zenon, <3>1, <3>2 DEF Lineup
  <2>3. queue[n] \in AllJobs /\ state[queue[n]] = "queued"
    BY Zenon, <2>1, LineFacts DEF Lineup
  <2> QED BY <1>3, <2>2, <2>3
<1>6. \A k \in AllJobs : state'[k] = "running" => Len(queue) > 0 /\ queue[1] = k
  BY Zenon, <1>1, <1>3 DEF Lineup
<1>7. \A n \in 1..Len(pushed) : state'[pushed[n]] \notin {"new", "posted"}
  <2>1. \A n \in 1..Len(pushed) : pushed[n] \in AllJobs /\ state[pushed[n]] \notin {"new", "posted"}
    BY Zenon, LineFacts DEF Lineup
  <2> QED BY <1>3, <2>1
<1>8. /\ Len(started') <= Len(pushed)
      /\ Len(started') = (Len(pushed) - Len(queue)) +
                           (IF Len(queue) = 0 \/ exec'.pc = "run" THEN 0 ELSE 1)
  BY <1>1, <1>2, LineFacts
<1> QED BY Zenon, <1>1, <1>2, <1>4, <1>5, <1>6, <1>7, <1>8 DEF Lineup

(* send_request returns, and so does run(). *)
LEMMA SchedulerSent ==
  ASSUME SessionTypes, Running, Lineup, exec.pc = "send", exec' = NoJob,
         UNCHANGED <<queue, busy, stopped, pushed, started, state>>
  PROVE  exec' \in Places /\ Running' /\ Lineup'
<1>1. exec' \in Places /\ exec'.pc = "idle" /\ exec.pc # "run" /\ exec'.pc # "run"
  BY DEF NoJob, Places
<1>2. Running'
  BY Zenon, <1>1 DEF Running
<1> QED BY Zenon, <1>1, <1>2 DEF Lineup

(* done() of the front of the queue: complete_current() starts the next.   *)
LEMMA SchedulerDone ==
  ASSUME SessionTypes, Running, Lineup, Len(queue) > 0, CompleteCurrent,
         state'[queue[1]] = "done",
         \A k \in AllJobs \ {queue[1]} :
           state'[k] = state[k] \/ (state[k] = "new" /\ state'[k] = "posted"),
         started' \in Seq(AllJobs),
         Len(started') = (Len(pushed) - Len(queue)) + 1,
         \A n \in 1..Len(started') : started'[n] = pushed[n],
         UNCHANGED <<stopped, pushed>>
  PROVE  /\ queue' \in Seq(AllJobs) /\ busy' \in BOOLEAN
         /\ exec' \in Places
         /\ Running' /\ Lineup'
<1>1. queue \in Seq(AllJobs) /\ queue # <<>> /\ queue[1] \in AllJobs /\ ~stopped
      /\ Len(queue) \in Nat /\ Len(pushed) \in Nat
  <2>1. queue # <<>> /\ Len(queue) # 0 /\ queue \in Seq(AllJobs) /\ queue[1] \in AllJobs
        /\ Len(queue) \in Nat /\ Len(pushed) \in Nat
    BY LineFacts DEF SessionTypes
  <2> QED BY Zenon, <2>1 DEF Running
<1>2. /\ queue' = Tail(queue)
      /\ busy' = (Tail(queue) # <<>>)
      /\ exec' = IF Tail(queue) = <<>> THEN NoJob ELSE [job |-> Head(Tail(queue)), pc |-> "run"]
  BY Zenon, <1>1 DEF CompleteCurrent
<1>3. /\ queue' \in Seq(AllJobs) /\ Len(queue') = Len(queue) - 1
      /\ \A n \in 1..Len(queue') : n + 1 \in 1..Len(queue) /\ queue'[n] = queue[n + 1]
  BY <1>1, <1>2, TailFacts
<1>4. /\ Len(queue') \in Nat /\ (Tail(queue) = <<>> <=> Len(queue') = 0)
      /\ Len(queue') > 0 => Head(Tail(queue)) = queue'[1] /\ queue'[1] \in AllJobs
      /\ Len(queue') > 0 <=> ~(Len(queue') = 0)
  <2>1. Len(queue') \in Nat /\ (queue' = <<>> <=> Len(queue') = 0)
    BY <1>3
  <2>2. Len(queue') > 0 => Head(queue') = queue'[1] /\ queue'[1] \in AllJobs
    BY <1>3
  <2>3. Len(queue') > 0 <=> ~(Len(queue') = 0)
    BY <2>1
  <2> QED BY Zenon, <1>2, <2>1, <2>2, <2>3
<1>5. CASE Len(queue') = 0
  <2>1. exec' = NoJob /\ exec'.pc = "idle" /\ exec' \in Places
    BY <1>2, <1>4, <1>5 DEF NoJob, Places
  <2>2. busy' = (Len(queue') > 0) /\ busy' \in BOOLEAN
    <3>1. (Tail(queue) # <<>>) = FALSE /\ (Len(queue') > 0) = FALSE
      BY <1>4, <1>5
    <3> QED BY Zenon, <1>2, <3>1
  <2>3. Running'
    BY <1>5, <2>1, <2>2 DEF Running
  <2>4. \A k \in AllJobs : state'[k] # "running"
    <3> SUFFICES ASSUME NEW k \in AllJobs, state'[k] = "running" PROVE FALSE
      OBVIOUS
    <3>1. k # queue[1]
      OBVIOUS
    <3>2. state[k] = "running"
      BY <3>1
    <3> QED BY Zenon, <3>1, <3>2 DEF Lineup
  <2>5. \A n \in 1..Len(pushed) : state'[pushed[n]] \notin {"new", "posted"}
    <3>1. \A n \in 1..Len(pushed) : pushed[n] \in AllJobs /\ state[pushed[n]] \notin {"new", "posted"}
      BY Zenon, LineFacts DEF Lineup
    <3> QED BY <3>1
  <2>6. /\ Len(started') <= Len(pushed)
        /\ Len(started') = (Len(pushed) - Len(queue')) + 0
        /\ Len(queue') <= Len(pushed)
    BY <1>1, <1>3, <1>5
  <2>7. 1..Len(queue') = {} /\ 2..Len(queue') = {}
    BY <1>5
  <2>8. /\ \A n \in 2..Len(queue') : state'[queue'[n]] = "queued"
        /\ \A n \in 1..Len(queue') : queue'[n] = pushed'[Len(pushed') - Len(queue') + n]
    BY Zenon, <2>7
  <2>9. ~stopped' => Len(started') = (Len(pushed') - Len(queue')) +
                          (IF Len(queue') = 0 \/ exec'.pc = "run" THEN 0 ELSE 1)
    BY Zenon, <1>5, <2>6
  <2>10. pushed' = pushed /\ \A m, n \in 1..Len(pushed') : pushed'[m] = pushed'[n] => m = n
    <3>1. \A m, n \in 1..Len(pushed) : pushed[m] = pushed[n] => m = n
      BY Zenon DEF Lineup
    <3>2. pushed' = pushed
      OBVIOUS
    <3> QED BY <3>1, <3>2
  <2>11. /\ \A k \in AllJobs : state'[k] = "running" => Len(queue') > 0 /\ queue'[1] = k
         /\ \A n \in 1..Len(pushed') : state'[pushed'[n]] \notin {"new", "posted"}
         /\ Len(queue') <= Len(pushed') /\ Len(started') <= Len(pushed')
         /\ \A n \in 1..Len(started') : started'[n] = pushed'[n]
    BY Zenon, <2>4, <2>5, <2>6, <2>10
  <2>12. Lineup'
    BY Zenon, <2>8, <2>9, <2>10, <2>11 DEF Lineup
  <2> QED BY Zenon, <1>3, <2>1, <2>2, <2>3, <2>12
<1>6. CASE Len(queue') > 0
  <2>1. exec' = [job |-> queue'[1], pc |-> "run"]
    BY Zenon, <1>2, <1>4, <1>6
  <2>2. exec' \in Places /\ exec'.pc = "run" /\ exec'.job = queue'[1]
    BY <1>4, <1>6, <2>1 DEF Places
  <2>3. busy' = (Len(queue') > 0) /\ busy' \in BOOLEAN
    <3>1. (Tail(queue) # <<>>) = TRUE /\ (Len(queue') > 0) = TRUE
      BY <1>4, <1>6
    <3> QED BY Zenon, <1>2, <3>1
  <2> DEFINE d == Len(pushed) - Len(queue)
  <2>4. \A n \in 1..Len(queue') :
          /\ n + 1 \in 2..Len(queue) /\ queue'[n] = queue[n + 1]
          /\ queue'[n] = pushed[Len(pushed) - Len(queue') + n]
          /\ queue'[n] # queue[1] /\ queue'[n] \in AllJobs
    <3> SUFFICES ASSUME NEW n \in 1..Len(queue')
                 PROVE  /\ n + 1 \in 2..Len(queue) /\ queue'[n] = queue[n + 1]
                        /\ queue'[n] = pushed[Len(pushed) - Len(queue') + n]
                        /\ queue'[n] # queue[1] /\ queue'[n] \in AllJobs
      OBVIOUS
    <3>1. /\ n + 1 \in 1..Len(queue) /\ queue'[n] = queue[n + 1]
          /\ 1 \in 1..Len(queue) /\ n + 1 \in 2..Len(queue) /\ n + 1 # 1
      BY <1>1, <1>3
    <3>2. queue[n + 1] = pushed[d + (n + 1)] /\ queue[1] = pushed[d + 1]
      BY Zenon, <3>1 DEF Lineup
    <3>3. /\ d + (n + 1) \in 1..Len(pushed) /\ d + 1 \in 1..Len(pushed)
          /\ d + (n + 1) # d + 1
          /\ Len(pushed) - Len(queue') + n = d + (n + 1)
      BY <1>1, <1>3, <3>1 DEF Lineup
    <3> HIDE DEF d
    <3>4. queue[n + 1] # queue[1]
      BY <3>2, <3>3 DEF Lineup
    <3>5. queue[n + 1] \in AllJobs
      BY Zenon, <3>1, LineFacts
    <3> QED BY Zenon, <3>1, <3>2, <3>3, <3>4, <3>5
  <2>5. \A n \in 1..Len(queue') : state'[queue'[n]] = "queued"
    <3>1. \A n \in 1..Len(queue') : state[queue'[n]] = "queued"
      <4> SUFFICES ASSUME NEW n \in 1..Len(queue') PROVE state[queue'[n]] = "queued"
        OBVIOUS
      <4>1. n + 1 \in 2..Len(queue) /\ queue'[n] = queue[n + 1]
        BY Zenon, <2>4
      <4>2. state[queue[n + 1]] = "queued"
        BY Zenon, <4>1 DEF Lineup
      <4> QED BY Zenon, <4>1, <4>2
    <3> QED BY <2>4, <3>1
  <2>6. Running'
    <3>1. exec'.pc # "idle" /\ 1 \in 1..Len(queue')
      BY <1>4, <1>6, <2>2
    <3> QED BY Zenon, <1>1, <1>6, <2>2, <2>3, <2>5, <3>1 DEF Running
  <2>7. \A n \in 2..Len(queue') : n \in 1..Len(queue')
    OBVIOUS
  <2>8. \A k \in AllJobs : state'[k] # "running"
    <3> SUFFICES ASSUME NEW k \in AllJobs, state'[k] = "running" PROVE FALSE
      OBVIOUS
    <3>1. k # queue[1]
      OBVIOUS
    <3>2. state[k] = "running"
      BY <3>1
    <3> QED BY Zenon, <3>1, <3>2 DEF Lineup
  <2>9. \A n \in 1..Len(pushed) : state'[pushed[n]] \notin {"new", "posted"}
    <3>1. \A n \in 1..Len(pushed) : pushed[n] \in AllJobs /\ state[pushed[n]] \notin {"new", "posted"}
      BY Zenon, LineFacts DEF Lineup
    <3> QED BY <3>1
  <2>10. /\ Len(started') <= Len(pushed)
         /\ Len(started') = (Len(pushed) - Len(queue')) + 0
         /\ Len(queue') <= Len(pushed)
    BY <1>1, <1>3, <1>6 DEF Lineup
  <2> QED BY <1>3, <2>2, <2>3, <2>4, <2>5, <2>6, <2>7, <2>8, <2>9, <2>10 DEF Lineup
<1> QED BY Zenon, <1>4, <1>5, <1>6

(* shutdown(): nothing is queued any more, and nothing runs. *)
LEMMA SchedulerShutdown ==
  ASSUME SessionTypes, Running, Lineup, exec = NoJob,
         stopped' = TRUE, busy' = FALSE, queue' = <<>>,
         state' = [j \in AllJobs |-> IF \E n \in DOMAIN queue : queue[n] = j
                                     THEN "cancelled" ELSE state[j]],
         UNCHANGED <<exec, pushed, started>>
  PROVE  /\ queue' \in Seq(AllJobs)
         /\ Running' /\ Lineup'
         /\ \A j \in AllJobs : \/ state'[j] = state[j] /\ state[j] # "running"
                               \/ state[j] \in {"queued", "running"} /\ state'[j] = "cancelled"
<1>1. /\ queue' \in Seq(AllJobs) /\ Len(queue') = 0 /\ DOMAIN queue = 1..Len(queue)
      /\ exec'.pc = "idle" /\ exec.pc = "idle"
  BY DEF SessionTypes, NoJob
<1>2. \A n \in 1..Len(queue) : state[queue[n]] \in {"queued", "running"}
  <2> SUFFICES ASSUME NEW n \in 1..Len(queue) PROVE state[queue[n]] \in {"queued", "running"}
    OBVIOUS
  <2>1. CASE n = 1
    <3>1. Len(queue) > 0 /\ exec.pc # "run"
      BY <1>1, <2>1, LineFacts
    <3> QED BY Zenon, <2>1, <3>1 DEF Running
  <2>2. CASE n # 1
    <3>1. n \in 2..Len(queue)
      BY <2>2
    <3> QED BY Zenon, <3>1 DEF Lineup
  <2> QED BY <2>1, <2>2
<1>3. \A j \in AllJobs : state[j] = "running" => \E n \in 1..Len(queue) : queue[n] = j
  <2>1. Len(queue) > 0 => 1 \in 1..Len(queue)
    BY LineFacts
  <2> QED BY Zenon, <2>1 DEF Lineup
<1>4. \A j \in AllJobs : \/ state'[j] = state[j] /\ state[j] # "running"
                         \/ state[j] \in {"queued", "running"} /\ state'[j] = "cancelled"
  BY Zenon, <1>1, <1>2, <1>3
<1>5. Running'
  <2>1. (Len(queue') > 0) = FALSE /\ exec'.pc # "run"
    BY <1>1
  <2> QED BY Zenon, <1>1, <2>1 DEF Running
<1>6. \A j \in AllJobs : state'[j] # "running"
  BY <1>4
<1>7. \A n \in 1..Len(pushed) : state'[pushed[n]] \notin {"new", "posted"}
  <2>1. \A n \in 1..Len(pushed) : pushed[n] \in AllJobs /\ state[pushed[n]] \notin {"new", "posted"}
    BY Zenon, LineFacts DEF Lineup
  <2> QED BY <1>4, <2>1
<1>8. 1..Len(queue') = {} /\ 2..Len(queue') = {} /\ Len(queue') <= Len(pushed)
  BY <1>1, LineFacts
<1>9. /\ \A n \in 2..Len(queue') : state'[queue'[n]] = "queued"
      /\ \A n \in 1..Len(queue') : queue'[n] = pushed[Len(pushed) - Len(queue') + n]
  BY Zenon, <1>8
<1>10. Lineup'
  BY Zenon, <1>6, <1>7, <1>8, <1>9 DEF Lineup
<1> QED BY Zenon, <1>1, <1>4, <1>5, <1>10

-----------------------------------------------------------------------------
(* Requests and answers *)

(* A step that neither answers nor sends, and finishes no job. *)
LEMMA RequestedSame ==
  ASSUME SessionTypes, Requested, DOMAIN deadline \subseteq Jobs,
         UNCHANGED <<kind, replies, cancels, deadline, outcome, dropped>>,
         \A j \in AllJobs :
           \/ state'[j] = state[j]
           \/ state[j] \in {"new", "posted", "queued"} /\ state'[j] \in {"posted", "queued", "cancelled"}
  PROVE  Requested'
<1>1. \A j \in AllJobs :
        /\ state[j] \in {"running", "done", "cancelled"} => state'[j] = state[j]
        /\ state'[j] \in {"running", "done"} => state[j] = state'[j]
        /\ state'[j] # "done" => state[j] # "done"
  OBVIOUS
<1>2. DOMAIN deadline \subseteq AllJobs /\ Jobs \subseteq AllJobs
  BY Zenon DEF AllJobs
<1>3. \A j \in DOMAIN deadline : state'[j] \in {"running", "done", "cancelled"}
  BY Zenon, <1>1, <1>2 DEF Requested
<1>4. \A j \in AllJobs : state'[j] = "running" => kind[j] = "room"
  BY <1>1 DEF Requested
<1>5. \A j \in AllJobs : state'[j] # "done" => replies[j] = <<>>
  BY Zenon, <1>1 DEF Requested
<1>6. \A j \in Jobs : kind[j] = "room" /\ state'[j] = "done" =>
        \/ outcome[j] = <<"response">> /\ replies[j] \in {<<"ok">>, <<"failed">>}
        \/ outcome[j] = <<"timeout">> /\ replies[j] = <<"timeout">>
  <2>1. \A j \in Jobs : state'[j] = "done" => state[j] = "done"
    BY <1>1, <1>2
  <2> QED BY Zenon, <2>1 DEF Requested
<1> QED BY Zenon, <1>3, <1>4, <1>5, <1>6 DEF Requested

(* The parts of the invariant that a step leaves alone together. *)
LEMMA QuietStep ==
  ASSUME SessionInv, Table!PendingInv,
         UNCHANGED <<strand, exec, queue, busy, stopped, kind, state, replies, cancels, pushed,
                     started, deadline, outcome, dropped>>
  PROVE  SessionInv'
<1> USE DEF SessionInv
<1>1. SessionTypes'
  BY Zenon DEF SessionTypes
<1>2. Running' /\ Lineup'
  BY Zenon, SchedulerSame
<1>3. Posted'
  BY Zenon, PostedSame
<1>4. Requested'
  BY Zenon, RequestedSame, TableFacts
<1> QED BY Zenon, <1>1, <1>2, <1>3, <1>4

(* The threads of room_channel, the Room server and the clock. *)
LEMMA ElsewhereStep ==
  ASSUME SessionInv, Table!PendingInv,
         \/ TimerStep \/ WaiterStep \/ TimePasses \/ RoomReads \/ UNCHANGED vars
         \/ \E j \in Jobs, answer \in BOOLEAN : RoomAnswers(j, answer)
  PROVE  SessionInv'
<1>1. UNCHANGED <<strand, exec, queue, busy, stopped, kind, state, replies, cancels, pushed,
                  started>>
  BY Zenon DEF TimerStep, WaiterStep, TimePasses, RoomReads, RoomAnswers, ElsewhereUnchanged,
     vars, schedVars, historyVars
<1>2. UNCHANGED <<deadline, outcome, dropped>>
  BY Zenon DEF TimerStep, WaiterStep, TimePasses, RoomReads, RoomAnswers, vars, pendingVars,
     Pending!TimerWake, Pending!TimerExpire, Pending!TimerWait, Pending!CompleteTake,
     Pending!CompleteUnknown, Pending!CompleteBegin, Pending!Tick
<1> QED BY Zenon, <1>1, <1>2, QuietStep

(* A message for the session is posted as a job. *)
LEMMA ReceiveStep ==
  ASSUME SessionInv, Table!PendingInv, NEW j \in Jobs, NEW k \in Kinds, Receive(j, k)
  PROVE  SessionInv'
<1> USE DEF SessionInv
<1>1. /\ state[j] = "new"
      /\ kind' = [kind EXCEPT ![j] = k]
      /\ state' = [state EXCEPT ![j] = "posted"]
      /\ strand' = Append(strand, [op |-> "push", job |-> j])
      /\ UNCHANGED <<exec, queue, busy, stopped, replies, cancels, pushed, started, deadline,
                     outcome, dropped>>
  BY Zenon DEF Receive, schedVars, historyVars, pendingVars
<1>2. /\ state \in [AllJobs -> JobStates] /\ DOMAIN kind = AllJobs
      /\ j \in AllJobs /\ j # StopJob /\ Jobs \subseteq AllJobs /\ StopJob \in AllJobs
  BY Zenon, SessionAssumption DEF SessionTypes, AllJobs
<1>3. /\ state'[j] = "posted" /\ \A i \in AllJobs : i # j => state'[i] = state[i]
      /\ state' \in [AllJobs -> JobStates]
      /\ DOMAIN kind' = AllJobs
      /\ \A i \in AllJobs : i # j => kind'[i] = kind[i]
  BY <1>1, <1>2 DEF JobStates
<1>4. strand' \in Seq(Tasks) /\ Posted'
  <2> DEFINE t == [op |-> "push", job |-> j]
  <2>1. t \in Tasks /\ t.op = "push" /\ t.job = j
    BY <1>2 DEF Tasks
  <2>2. t.op # "response" /\ t.op # "timeout"
    BY <2>1
  <2>3. strand' = Append(strand, t)
    BY Zenon, <1>1
  <2> HIDE DEF t
  <2>4. /\ \A i \in AllJobs : state[i] = "posted" => state'[i] = "posted"
        /\ \A i \in Jobs : outcome[i] # <<>> => outcome'[i] = outcome[i]
        /\ state[t.job] # "posted" /\ state'[t.job] = "posted"
    BY <1>1, <1>3, <2>1
  <2> QED BY Zenon, <1>2, <2>1, <2>2, <2>3, <2>4, PostedAppend
<1>5. SessionTypes'
  BY Zenon, <1>1, <1>3, <1>4 DEF SessionTypes
<1>6. Running' /\ Lineup'
  <2>1. \A i \in AllJobs :
          \/ state'[i] = state[i]
          \/ state[i] \in {"new", "posted"} /\ state'[i] \in {"posted", "cancelled"}
    BY <1>1, <1>3
  <2> QED BY Zenon, <1>1, <2>1, SchedulerSame
<1>7. Requested'
  <2>1. j \notin DOMAIN deadline /\ DOMAIN deadline \subseteq Jobs
    <3>1. \A i \in DOMAIN deadline : state[i] \in {"running", "done", "cancelled"}
      BY Zenon DEF Requested
    <3>2. DOMAIN deadline \subseteq Jobs
      BY Zenon, TableFacts
    <3> QED BY <1>1, <3>1, <3>2
  <2>2. kind'[StopJob] # "room"
    BY Zenon, <1>2, <1>3 DEF Requested
  <2>3. \A i \in DOMAIN deadline :
          kind'[i] = "room" /\ state'[i] \in {"running", "done", "cancelled"}
    <3>1. \A i \in DOMAIN deadline : i # j /\ i \in AllJobs
      BY Zenon, <1>2, <2>1
    <3> QED BY Zenon, <1>3, <3>1 DEF Requested
  <2>4. \A i \in AllJobs : state'[i] = "running" => kind'[i] = "room"
    <3>1. state'[j] # "running"
      BY <1>3
    <3> QED BY Zenon, <1>3, <3>1 DEF Requested
  <2>5. replies[j] = <<>>
    <3>1. state[j] # "done"
      BY <1>1
    <3> QED BY Zenon, <1>2, <3>1 DEF Requested
  <2>6. /\ \A i \in AllJobs : state'[i] # "done" => replies[i] = <<>>
        /\ \A i \in AllJobs : kind'[i] # "room" =>
             replies[i] \in {<<>>, <<"bye">>, <<"delivered">>}
    BY Zenon, <1>3, <2>5 DEF Requested
  <2>7. \A i \in Jobs : kind'[i] = "room" /\ state'[i] = "done" =>
          \/ outcome[i] = <<"response">> /\ replies[i] \in {<<"ok">>, <<"failed">>}
          \/ outcome[i] = <<"timeout">> /\ replies[i] = <<"timeout">>
    <3>1. state'[j] # "done"
      BY <1>3
    <3> QED BY Zenon, <1>2, <1>3, <3>1 DEF Requested
  <2> QED BY Zenon, <1>1, <2>2, <2>3, <2>4, <2>6, <2>7 DEF Requested
<1> QED BY Zenon, <1>4, <1>5, <1>6, <1>7

(* The connection has closed: the scheduler's shutdown is posted. *)
LEMMA DisconnectStep ==
  ASSUME SessionInv, Table!PendingInv, Disconnect
  PROVE  SessionInv'
<1> USE DEF SessionInv
<1>1. /\ strand' = Append(strand, [op |-> "shutdown", job |-> NoId])
      /\ UNCHANGED <<exec, queue, busy, stopped, kind, state, replies, cancels, pushed, started,
                     deadline, outcome, dropped>>
  BY Zenon DEF Disconnect, schedVars, historyVars, pendingVars
<1>2. strand' \in Seq(Tasks) /\ Posted'
  <2> DEFINE t == [op |-> "shutdown", job |-> NoId]
  <2>1. t \in Tasks /\ t.op # "push" /\ t.op # "response" /\ t.op # "timeout"
    BY DEF Tasks
  <2>2. strand' = Append(strand, t)
    BY Zenon, <1>1
  <2> HIDE DEF t
  <2> QED BY Zenon, <1>1, <2>1, <2>2, PostedAppend
<1>3. SessionTypes'
  BY Zenon, <1>1, <1>2 DEF SessionTypes
<1>4. Running' /\ Lineup'
  BY Zenon, <1>1, SchedulerSame
<1>5. Requested'
  BY Zenon, <1>1, RequestedSame, TableFacts
<1> QED BY Zenon, <1>2, <1>3, <1>4, <1>5

(* A task is taken from the strand between two jobs. *)
LEMMA TakeFacts ==
  ASSUME SessionTypes, NEW op, Take(op)
  PROVE  /\ exec = NoJob /\ exec.pc = "idle" /\ strand # <<>>
         /\ Head(strand) = strand[1] /\ 1 \in 1..Len(strand) /\ strand[1].op = op
<1>1. exec = NoJob /\ strand # <<>> /\ Head(strand).op = op /\ strand \in Seq(Tasks)
  BY Zenon DEF Take, SessionTypes
<1>2. Head(strand) = strand[1] /\ 1 \in 1..Len(strand)
  BY Zenon, <1>1, TailFacts
<1>3. exec.pc = "idle"
  BY <1>1 DEF NoJob
<1> QED BY Zenon, <1>1, <1>2, <1>3

(* push_and_run: a posted job is queued, or cancelled after shutdown(). *)
LEMMA PushStep ==
  ASSUME SessionInv, Table!PendingInv, Push \/ PushRejected
  PROVE  SessionInv'
<1> USE DEF SessionInv
<1> DEFINE j == strand[1].job
<1>0. Take("push")
  BY Zenon DEF Push, PushRejected
<1>1. /\ exec = NoJob /\ strand # <<>> /\ strand' = Tail(strand)
      /\ Head(strand) = strand[1] /\ strand[1].op = "push"
      /\ j \in AllJobs /\ state[j] = "posted"
      /\ UNCHANGED <<kind, replies, cancels, started, stopped, deadline, outcome, dropped>>
  <2>1. /\ exec = NoJob /\ strand # <<>> /\ Head(strand) = strand[1] /\ 1 \in 1..Len(strand)
        /\ strand[1].op = "push"
    BY Zenon, <1>0, TakeFacts
  <2>2. j \in AllJobs /\ state[j] = "posted"
    BY Zenon, <2>1 DEF Posted
  <2>3. /\ strand' = Tail(strand)
        /\ UNCHANGED <<kind, replies, cancels, started, stopped, deadline, outcome, dropped>>
    BY Zenon DEF Push, PushRejected, schedVars, historyVars, pendingVars
  <2> QED BY Zenon, <2>1, <2>2, <2>3
<1>2. state \in [AllJobs -> JobStates]
  BY Zenon DEF SessionTypes
<1> HIDE DEF j
<1>3. /\ state' \in [AllJobs -> JobStates] /\ state'[j] \in {"queued", "cancelled"}
      /\ \A i \in AllJobs : i # j => state'[i] = state[i]
  <2>1. CASE Push
    <3>1. state' = [state EXCEPT ![j] = "queued"]
      BY Zenon, <1>1, <2>1 DEF Push, j
    <3> QED BY <1>1, <1>2, <3>1 DEF JobStates
  <2>2. CASE PushRejected
    <3>1. state' = [state EXCEPT ![j] = "cancelled"]
      BY Zenon, <1>1, <2>2 DEF PushRejected, j
    <3> QED BY <1>1, <1>2, <3>1 DEF JobStates
  <2> QED BY Zenon, <2>1, <2>2
<1>4. /\ queue' \in Seq(AllJobs) /\ pushed' \in Seq(AllJobs) /\ exec' \in Places
      /\ busy' \in BOOLEAN /\ Running' /\ Lineup'
  <2>1. CASE Push
    <3>1. /\ ~stopped
          /\ queue' = Append(queue, j) /\ pushed' = Append(pushed, j) /\ busy' = TRUE
          /\ exec' = IF busy THEN NoJob ELSE [job |-> Head(queue'), pc |-> "run"]
          /\ state' = [state EXCEPT ![j] = "queued"]
      BY Zenon, <1>1, <2>1 DEF Push, j
    <3> QED BY Zenon, <1>1, <3>1, SchedulerPush
  <2>2. CASE PushRejected
    <3>1. UNCHANGED <<exec, queue, busy, stopped, pushed, started>>
      BY Zenon, <2>2 DEF PushRejected, schedVars, historyVars
    <3>2. state'[j] = "cancelled"
      <4>1. state' = [state EXCEPT ![j] = "cancelled"]
        BY Zenon, <1>1, <2>2 DEF PushRejected, j
      <4> QED BY Zenon, <1>1, <1>2, <4>1
    <3>3. \A i \in AllJobs :
            \/ state'[i] = state[i]
            \/ state[i] \in {"new", "posted"} /\ state'[i] \in {"posted", "cancelled"}
      BY Zenon, <1>1, <1>3, <3>2
    <3>4. Running' /\ Lineup'
      BY Zenon, <3>1, <3>3, SchedulerSame
    <3> QED BY Zenon, <3>1, <3>4 DEF SessionTypes
  <2> QED BY Zenon, <2>1, <2>2
<1>5. strand' \in Seq(Tasks) /\ Posted'
  <2>1. \A i \in AllJobs : state[i] = "posted" /\ ~(strand[1].op = "push" /\ strand[1].job = i)
                           => state'[i] = "posted"
    BY Zenon, <1>1, <1>3 DEF j
  <2> QED BY Zenon, <1>1, <2>1, PostedTail
<1>6. Requested'
  <2>1. \A i \in AllJobs :
          \/ state'[i] = state[i]
          \/ /\ state[i] \in {"new", "posted", "queued"}
             /\ state'[i] \in {"posted", "queued", "cancelled"}
    <3>1. state'[j] \in {"posted", "queued", "cancelled"} /\ state[j] \in {"new", "posted", "queued"}
      BY <1>1, <1>3
    <3> QED BY Zenon, <1>3, <3>1
  <2> QED BY Zenon, <1>1, <2>1, RequestedSame, TableFacts
<1>7. SessionTypes'
  BY Zenon, <1>1, <1>3, <1>4, <1>5 DEF SessionTypes
<1> QED BY Zenon, <1>4, <1>5, <1>6, <1>7

(* run() of a room job adds its request to the table. *)
LEMMA RunRoomJobStep ==
  ASSUME SessionInv, Table!PendingInv, RunRoomJob
  PROVE  SessionInv'
<1> USE DEF SessionInv
<1> DEFINE j == queue[1]
<1>1. /\ exec.pc = "run" /\ kind[exec.job] = "room"
      /\ started' = Append(started, exec.job)
      /\ exec' = [exec EXCEPT !.pc = "send"]
      /\ state' = [state EXCEPT ![exec.job] = "running"]
      /\ DOMAIN deadline' = DOMAIN deadline \cup {exec.job}
      /\ UNCHANGED <<strand, queue, busy, stopped, kind, replies, cancels, pushed, outcome, dropped>>
  BY Zenon DEF RunRoomJob, Runs, Starts, Pending!Add, Pending!With, schedVars
<1>2. /\ exec.job = j /\ j \in AllJobs /\ state[j] = "queued"
  BY Zenon, <1>1, SchedulerStarts
<1>3. /\ started' \in Seq(AllJobs) /\ exec' \in Places /\ Running' /\ Lineup'
  BY Zenon, <1>1, SchedulerRun
<1>4. state \in [AllJobs -> JobStates]
  BY Zenon DEF SessionTypes
<1> HIDE DEF j
<1>5. /\ state' \in [AllJobs -> JobStates] /\ state'[j] = "running"
      /\ \A i \in AllJobs : i # j => state'[i] = state[i]
  BY <1>1, <1>2, <1>4 DEF JobStates
<1>6. strand' \in Seq(Tasks) /\ Posted'
  <2>1. \A i \in AllJobs : state[i] = "posted" => state'[i] = "posted"
    BY <1>2, <1>5
  <2> QED BY Zenon, <1>1, <2>1, PostedSame
<1>7. Requested'
  <2>1. \A i \in DOMAIN deadline' :
          kind[i] = "room" /\ state'[i] \in {"running", "done", "cancelled"}
    <3> SUFFICES ASSUME NEW i \in DOMAIN deadline'
                 PROVE  kind[i] = "room" /\ state'[i] \in {"running", "done", "cancelled"}
      OBVIOUS
    <3>1. CASE i = j
      BY Zenon, <1>1, <1>2, <1>5, <3>1
    <3>2. CASE i # j
      <4>1. i \in DOMAIN deadline
        BY Zenon, <1>1, <1>2, <3>2
      <4>2. i \in AllJobs
        BY Zenon, <4>1, TableFacts DEF AllJobs
      <4> QED BY Zenon, <1>5, <3>2, <4>1, <4>2 DEF Requested
    <3> QED BY <3>1, <3>2
  <2>2. \A i \in AllJobs : state'[i] = "running" => kind[i] = "room"
    BY Zenon, <1>1, <1>2, <1>5 DEF Requested
  <2>3. \A i \in AllJobs : state'[i] # "done" => replies[i] = <<>>
    <3>1. state[j] # "done"
      BY <1>2
    <3> QED BY Zenon, <1>2, <1>5, <3>1 DEF Requested
  <2>4. \A i \in Jobs : state'[i] = "done" => state[i] = "done"
    <3>1. Jobs \subseteq AllJobs
      BY DEF AllJobs
    <3> QED BY <1>5, <3>1
  <2> QED BY Zenon, <1>1, <2>1, <2>2, <2>3, <2>4 DEF Requested
<1>8. SessionTypes'
  BY Zenon, <1>1, <1>3, <1>5, <1>6 DEF SessionTypes
<1> QED BY Zenon, <1>3, <1>6, <1>7, <1>8

(* The channel has taken the request. *)
LEMMA SendRequestStep ==
  ASSUME SessionInv, Table!PendingInv, SendRequest
  PROVE  SessionInv'
<1> USE DEF SessionInv
<1>1. /\ exec.pc = "send" /\ exec' = NoJob
      /\ UNCHANGED <<strand, queue, busy, stopped, kind, state, replies, cancels, pushed, started,
                     deadline, outcome, dropped>>
  BY Zenon DEF SendRequest, schedVars, historyVars, pendingVars
<1>2. exec' \in Places /\ Running' /\ Lineup'
  BY Zenon, <1>1, SchedulerSent
<1>3. strand' \in Seq(Tasks) /\ Posted'
  BY Zenon, <1>1, PostedSame
<1>4. Requested'
  BY Zenon, <1>1, RequestedSame, TableFacts
<1>5. SessionTypes'
  BY Zenon, <1>1, <1>2 DEF SessionTypes
<1> QED BY Zenon, <1>2, <1>3, <1>4, <1>5

(* A job that sends no request answers in its run(), if at all, and is     *)
(* done; job_logout enqueues job_stop besides.                             *)
LEMMA AtOnceStep ==
  ASSUME SessionInv, Table!PendingInv, exec.pc = "run", kind[exec.job] # "room",
         Starts, CompleteCurrent,
         UNCHANGED <<stopped, cancels, pushed, deadline, outcome, dropped>>,
         state' \in [AllJobs -> JobStates], state'[exec.job] = "done",
         \A k \in AllJobs \ {exec.job} :
           state'[k] = state[k] \/ (k = StopJob /\ state[k] = "new" /\ state'[k] = "posted"),
         DOMAIN kind' = AllJobs, DOMAIN replies' = AllJobs,
         \A k \in AllJobs : kind'[k] = kind[k] \/ (k = StopJob /\ kind'[k] = "unknown"),
         \A k \in AllJobs \ {exec.job} : replies'[k] = replies[k],
         replies'[exec.job] \in {<<>>, <<"bye">>, <<"delivered">>},
         strand' \in Seq(Tasks), Posted'
  PROVE  SessionInv'
<1> USE DEF SessionInv
<1> DEFINE j == exec.job
<1>1. /\ Len(queue) > 0 /\ j = queue[1] /\ j \in AllJobs /\ state[j] = "queued"
      /\ started' \in Seq(AllJobs)
      /\ Len(started') = (Len(pushed) - Len(queue)) + 1
      /\ \A n \in 1..Len(started') : started'[n] = pushed[n]
  BY Zenon, SchedulerStarts DEF Starts
<1>2. /\ queue' \in Seq(AllJobs) /\ busy' \in BOOLEAN /\ exec' \in Places /\ Running' /\ Lineup'
  <2>1. state'[queue[1]] = "done"
    BY Zenon, <1>1
  <2>2. \A k \in AllJobs \ {queue[1]} :
          state'[k] = state[k] \/ (state[k] = "new" /\ state'[k] = "posted")
    BY Zenon, <1>1
  <2> QED BY Zenon, <1>1, <2>1, <2>2, SchedulerDone
<1>3. SessionTypes'
  BY Zenon, <1>1, <1>2 DEF SessionTypes
<1>4. Requested'
  <2>0. "unknown" # "room" /\ Jobs \subseteq AllJobs /\ StopJob \notin Jobs /\ StopJob \in AllJobs
    BY SessionAssumption DEF AllJobs
  <2>1. kind'[StopJob] # "room" /\ kind'[j] # "room"
    BY Zenon, <1>1, <2>0 DEF Requested
  <2>2. \A i \in AllJobs : kind'[i] = "room" <=> kind[i] = "room"
    BY Zenon, <2>0, <2>1 DEF Requested
  <2>3. \A i \in AllJobs : i # j => (state'[i] = "done" <=> state[i] = "done")
    <3> SUFFICES ASSUME NEW i \in AllJobs, i # j
                 PROVE  state'[i] = "done" <=> state[i] = "done"
      OBVIOUS
    <3>1. state'[i] = state[i] \/ (state[i] = "new" /\ state'[i] = "posted")
      BY Zenon
    <3> QED BY <3>1
  <2>4. \A i \in AllJobs : i # j => (state'[i] = "running" <=> state[i] = "running")
    <3> SUFFICES ASSUME NEW i \in AllJobs, i # j
                 PROVE  state'[i] = "running" <=> state[i] = "running"
      OBVIOUS
    <3>1. state'[i] = state[i] \/ (state[i] = "new" /\ state'[i] = "posted")
      BY Zenon
    <3> QED BY <3>1
  <2>5. \A i \in DOMAIN deadline' :
          kind'[i] = "room" /\ state'[i] \in {"running", "done", "cancelled"}
    <3> SUFFICES ASSUME NEW i \in DOMAIN deadline
                 PROVE  kind'[i] = "room" /\ state'[i] \in {"running", "done", "cancelled"}
      BY Zenon
    <3>1. i \in Jobs /\ i \in AllJobs /\ kind[i] = "room" /\ state[i] \in {"running", "done", "cancelled"}
      BY Zenon, <2>0, TableFacts DEF Requested
    <3>2. i # j /\ i # StopJob
      BY Zenon, <2>0, <3>1
    <3>3. state'[i] = state[i]
      BY Zenon, <3>1, <3>2
    <3> QED BY Zenon, <2>2, <3>1, <3>3
  <2>6. \A i \in AllJobs : state'[i] = "running" => kind'[i] = "room"
    <3>1. state'[j] # "running"
      OBVIOUS
    <3> QED BY Zenon, <2>2, <2>4, <3>1 DEF Requested
  <2>7. \A i \in AllJobs : state'[i] # "done" => replies'[i] = <<>>
    <3> SUFFICES ASSUME NEW i \in AllJobs, state'[i] # "done"
                 PROVE  replies'[i] = <<>>
      BY Zenon
    <3>1. i # j
      BY Zenon
    <3>2. state[i] # "done" /\ replies'[i] = replies[i]
      BY Zenon, <2>3, <3>1
    <3> QED BY Zenon, <3>2 DEF Requested
  <2>8. \A i \in AllJobs : kind'[i] # "room" => replies'[i] \in {<<>>, <<"bye">>, <<"delivered">>}
    BY Zenon, <2>2 DEF Requested
  <2>9. \A i \in Jobs : kind'[i] = "room" /\ state'[i] = "done" =>
          \/ outcome'[i] = <<"response">> /\ replies'[i] \in {<<"ok">>, <<"failed">>}
          \/ outcome'[i] = <<"timeout">> /\ replies'[i] = <<"timeout">>
    <3> SUFFICES ASSUME NEW i \in Jobs, kind'[i] = "room", state'[i] = "done"
                 PROVE  \/ outcome'[i] = <<"response">> /\ replies'[i] \in {<<"ok">>, <<"failed">>}
                        \/ outcome'[i] = <<"timeout">> /\ replies'[i] = <<"timeout">>
      BY Zenon
    <3>1. i \in AllJobs /\ i # j
      BY Zenon, <2>0, <2>1
    <3>2. kind[i] = "room" /\ state[i] = "done" /\ replies'[i] = replies[i] /\ outcome' = outcome
      BY Zenon, <2>2, <2>3, <3>1
    <3>3. \/ outcome[i] = <<"response">> /\ replies[i] \in {<<"ok">>, <<"failed">>}
          \/ outcome[i] = <<"timeout">> /\ replies[i] = <<"timeout">>
      BY Zenon, <3>2 DEF Requested
    <3> QED BY Zenon, <3>2, <3>3
  <2> QED BY Zenon, <2>1, <2>5, <2>6, <2>7, <2>8, <2>9 DEF Requested
<1> QED BY Zenon, <1>2, <1>3, <1>4

(* job_forward_message, the jobs that deliver a message, and job_stop. *)
LEMMA RunDoneStep ==
  ASSUME SessionInv, Table!PendingInv, RunForward \/ RunDeliver \/ RunStop
  PROVE  SessionInv'
<1> USE DEF SessionInv
<1>1. /\ exec.pc = "run" /\ kind[exec.job] \in {"forward", "deliver", "unknown"}
      /\ Starts /\ CompleteCurrent
      /\ state' = [state EXCEPT ![exec.job] = "done"]
      /\ UNCHANGED <<strand, kind, stopped, cancels, pushed, deadline, outcome, dropped>>
  BY Zenon DEF RunForward, RunDeliver, RunStop, Runs, Done, pendingVars
<1>2. /\ exec.job \in AllJobs /\ state[exec.job] = "queued"
  BY Zenon, <1>1, SchedulerStarts DEF Starts
<1>3. kind[exec.job] # "room"
  BY <1>1
<1>4. /\ state' \in [AllJobs -> JobStates] /\ state'[exec.job] = "done"
      /\ \A k \in AllJobs \ {exec.job} : state'[k] = state[k]
  <2>1. state \in [AllJobs -> JobStates] /\ "done" \in JobStates
    BY Zenon DEF SessionTypes, JobStates
  <2> QED BY Zenon, <1>1, <1>2, <2>1
<1>5. strand' \in Seq(Tasks) /\ Posted'
  <2>1. \A i \in AllJobs : state[i] = "posted" => state'[i] = "posted"
    <3>1. state[exec.job] # "posted"
      BY <1>2
    <3> QED BY Zenon, <1>4, <3>1
  <2> QED BY Zenon, <1>1, <2>1, PostedSame
<1>6. replies[exec.job] = <<>> /\ DOMAIN replies = AllJobs /\ DOMAIN kind = AllJobs
  <2>1. state[exec.job] # "done"
    BY <1>2
  <2> QED BY Zenon, <1>2, <2>1 DEF Requested, SessionTypes
<1>7. /\ DOMAIN replies' = AllJobs
      /\ \A k \in AllJobs \ {exec.job} : replies'[k] = replies[k]
      /\ replies'[exec.job] \in {<<>>, <<"bye">>, <<"delivered">>}
  <2>1. \/ replies' = replies
        \/ replies' = [replies EXCEPT ![exec.job] = Append(@, "delivered")]
    BY Zenon DEF RunForward, RunDeliver, RunStop, Reply
  <2>2. Append(<<>>, "delivered") = <<"delivered">>
    OBVIOUS
  <2> QED BY Zenon, <1>2, <1>6, <2>1, <2>2
<1> QED BY Zenon, <1>1, <1>3, <1>4, <1>5, <1>6, <1>7, AtOnceStep

(* job_logout *)
LEMMA RunLogoutStep ==
  ASSUME SessionInv, Table!PendingInv, RunLogout
  PROVE  SessionInv'
<1> USE DEF SessionInv
<1>1. /\ exec.pc = "run" /\ kind[exec.job] = "logout"
      /\ Starts /\ CompleteCurrent
      /\ replies' = [replies EXCEPT ![exec.job] = Append(@, "bye")]
      /\ UNCHANGED <<stopped, cancels, pushed, deadline, outcome, dropped>>
  BY Zenon DEF RunLogout, Runs, Done, Reply, pendingVars
<1>2. /\ exec.job \in AllJobs /\ state[exec.job] = "queued"
  BY Zenon, <1>1, SchedulerStarts DEF Starts
<1>3. kind[exec.job] # "room" /\ state[exec.job] # "done" /\ state[exec.job] # "posted"
      /\ state[exec.job] # "new"
  BY <1>1, <1>2
<1>4. /\ state \in [AllJobs -> JobStates] /\ DOMAIN replies = AllJobs /\ DOMAIN kind = AllJobs
      /\ StopJob \in AllJobs
  BY Zenon DEF SessionTypes, AllJobs
<1>5. /\ DOMAIN replies' = AllJobs
      /\ \A k \in AllJobs \ {exec.job} : replies'[k] = replies[k]
      /\ replies'[exec.job] \in {<<>>, <<"bye">>, <<"delivered">>}
  <2>1. replies[exec.job] = <<>>
    BY Zenon, <1>2, <1>3 DEF Requested
  <2>2. Append(<<>>, "bye") = <<"bye">>
    OBVIOUS
  <2> QED BY Zenon, <1>1, <1>2, <1>4, <2>1, <2>2
<1>6. CASE Done /\ UNCHANGED <<strand, kind>>
  <2>1. state' = [state EXCEPT ![exec.job] = "done"]
    BY Zenon, <1>6 DEF Done
  <2>2. /\ state' \in [AllJobs -> JobStates] /\ state'[exec.job] = "done"
        /\ \A k \in AllJobs \ {exec.job} : state'[k] = state[k]
    BY Zenon, <1>2, <1>4, <2>1 DEF JobStates
  <2>3. \A i \in AllJobs : state[i] = "posted" => state'[i] = "posted"
    BY Zenon, <1>3, <2>2
  <2>4. strand' \in Seq(Tasks) /\ Posted'
    BY Zenon, <1>1, <1>6, <2>3, PostedSame
  <2> QED BY Zenon, <1>1, <1>3, <1>4, <1>5, <1>6, <2>2, <2>4, AtOnceStep
<1>7. CASE /\ state[StopJob] = "new"
           /\ kind' = [kind EXCEPT ![StopJob] = "unknown"]
           /\ strand' = Append(strand, [op |-> "push", job |-> StopJob])
           /\ state' = [state EXCEPT ![exec.job] = "done", ![StopJob] = "posted"]
  <2>0. exec.job # StopJob
    BY Zenon, <1>3, <1>7
  <2>1. /\ state' \in [AllJobs -> JobStates] /\ state'[exec.job] = "done"
        /\ state'[StopJob] = "posted"
        /\ \A k \in AllJobs \ {exec.job} : k # StopJob => state'[k] = state[k]
    BY <1>2, <1>4, <1>7, <2>0 DEF JobStates
  <2>2. /\ DOMAIN kind' = AllJobs
        /\ \A k \in AllJobs : kind'[k] = kind[k] \/ (k = StopJob /\ kind'[k] = "unknown")
    BY Zenon, <1>4, <1>7
  <2>3. strand' \in Seq(Tasks) /\ Posted'
    <3> DEFINE t == [op |-> "push", job |-> StopJob]
    <3>1. t \in Tasks /\ t.op = "push" /\ t.job = StopJob /\ t.op # "response" /\ t.op # "timeout"
      BY <1>4 DEF Tasks
    <3>2. state[StopJob] # "posted"
      BY <1>7
    <3>3. \A i \in AllJobs : state[i] = "posted" => state'[i] = "posted"
      BY Zenon, <1>3, <2>1
    <3> HIDE DEF t
    <3>4. strand' = Append(strand, t)
      BY Zenon, <1>7 DEF t
    <3> QED BY Zenon, <1>1, <1>4, <2>1, <3>1, <3>2, <3>3, <3>4, PostedAppend
  <2>4. \A k \in AllJobs \ {exec.job} :
          state'[k] = state[k] \/ (k = StopJob /\ state[k] = "new" /\ state'[k] = "posted")
    BY Zenon, <1>7, <2>1
  <2> QED BY Zenon, <1>1, <1>3, <1>4, <1>5, <2>1, <2>2, <2>3, <2>4, AtOnceStep
<1> QED BY Zenon, <1>6, <1>7 DEF RunLogout

(* A callback's task of a room job that is still running: the client is    *)
(* answered, and the next job starts.                                      *)
LEMMA FinishStep ==
  ASSUME SessionInv, Table!PendingInv, NEW op \in {"response", "timeout"}, Take(op),
         NEW text, op = "response" => text \in {"ok", "failed"}, op = "timeout" => text = "timeout",
         ~Finished(Head(strand).job), Reply(Head(strand).job, text), Finish(Head(strand).job),
         strand' = Tail(strand),
         UNCHANGED <<stopped, kind, cancels, pushed, started, deadline, outcome, dropped>>
  PROVE  SessionInv'
<1> USE DEF SessionInv
<1> DEFINE j == strand[1].job
<1>0. op # "push" /\ op \in {"response", "timeout"}
  OBVIOUS
<1>1. /\ exec = NoJob /\ exec.pc = "idle" /\ strand # <<>> /\ Head(strand) = strand[1]
      /\ strand[1].op = op /\ j \in Jobs /\ outcome[j] = <<op>>
  <2>1. /\ exec = NoJob /\ exec.pc = "idle" /\ strand # <<>> /\ Head(strand) = strand[1]
        /\ 1 \in 1..Len(strand) /\ strand[1].op = op
    BY Zenon, TakeFacts
  <2>2. j \in Jobs /\ outcome[j] = <<op>>
    BY Zenon, <1>0, <2>1 DEF Posted
  <2> QED BY Zenon, <2>1, <2>2
<1> HIDE DEF j
<1>2. j \in DOMAIN deadline /\ j \in AllJobs
  <2>1. outcome[j] # <<>>
    BY <1>1
  <2> QED BY Zenon, <1>1, <2>1, TableFacts DEF AllJobs
<1>3. kind[j] = "room" /\ state[j] = "running"
  <2>1. kind[j] = "room" /\ state[j] \in {"running", "done", "cancelled"}
    BY Zenon, <1>2 DEF Requested
  <2>2. state[j] \notin {"done", "cancelled"}
    BY Zenon, <1>1 DEF Finished, j
  <2> QED BY <2>1, <2>2
<1>4. /\ Len(queue) > 0 /\ queue[1] = j /\ CompleteCurrent
      /\ state' = [state EXCEPT ![j] = "done"]
      /\ replies' = [replies EXCEPT ![j] = Append(@, text)]
  BY Zenon, <1>1, <1>2, <1>3 DEF Lineup, Finish, Reply, j
<1>5. /\ state' \in [AllJobs -> JobStates] /\ state'[j] = "done"
      /\ \A k \in AllJobs : k # j => state'[k] = state[k]
  <2>1. state \in [AllJobs -> JobStates] /\ "done" \in JobStates
    BY Zenon DEF SessionTypes, JobStates
  <2> QED BY Zenon, <1>2, <1>4, <2>1
<1>6. /\ queue' \in Seq(AllJobs) /\ busy' \in BOOLEAN /\ exec' \in Places /\ Running' /\ Lineup'
  <2>1. /\ ~stopped /\ started' \in Seq(AllJobs)
        /\ \A n \in 1..Len(started') : started'[n] = pushed[n]
    <3>1. Len(queue) # 0
      BY <1>4
    <3> QED BY Zenon, <3>1 DEF Running, SessionTypes, Lineup
  <2>2. Len(started') = (Len(pushed) - Len(queue)) + 1
    <3>1. Len(started) = (Len(pushed) - Len(queue)) +
                         (IF Len(queue) = 0 \/ exec.pc = "run" THEN 0 ELSE 1)
      BY Zenon, <2>1 DEF Lineup
    <3>2. ~(Len(queue) = 0 \/ exec.pc = "run")
      BY <1>1, <1>4
    <3> QED BY Zenon, <3>1, <3>2
  <2>3. state'[queue[1]] = "done"
    BY Zenon, <1>4, <1>5
  <2>4. \A k \in AllJobs \ {queue[1]} :
          state'[k] = state[k] \/ (state[k] = "new" /\ state'[k] = "posted")
    BY Zenon, <1>4, <1>5
  <2> QED BY Zenon, <1>4, <2>1, <2>2, <2>3, <2>4, SchedulerDone
<1>7. strand' \in Seq(Tasks) /\ Posted'
  <2>1. \A i \in AllJobs : state[i] = "posted" /\ ~(strand[1].op = "push" /\ strand[1].job = i)
                           => state'[i] = "posted"
    <3>1. state[j] # "posted"
      BY <1>3
    <3> QED BY Zenon, <1>5, <3>1
  <2> QED BY Zenon, <1>1, <2>1, PostedTail
<1>8. /\ DOMAIN replies' = AllJobs /\ replies'[j] = <<text>>
      /\ \A k \in AllJobs : k # j => replies'[k] = replies[k]
  <2>1. DOMAIN replies = AllJobs /\ replies[j] = <<>>
    <3>1. state[j] # "done"
      BY <1>3
    <3> QED BY Zenon, <1>2, <3>1 DEF SessionTypes, Requested
  <2>2. Append(<<>>, text) = <<text>>
    OBVIOUS
  <2> QED BY Zenon, <1>2, <1>4, <2>1, <2>2
<1>9. SessionTypes'
  BY Zenon, <1>5, <1>6, <1>7, <1>8 DEF SessionTypes
<1>10. Requested'
  <2>0. Jobs \subseteq AllJobs
    BY Zenon DEF AllJobs
  <2>1. \A i \in DOMAIN deadline' :
          kind'[i] = "room" /\ state'[i] \in {"running", "done", "cancelled"}
    <3> SUFFICES ASSUME NEW i \in DOMAIN deadline
                 PROVE  kind[i] = "room" /\ state'[i] \in {"running", "done", "cancelled"}
      BY Zenon
    <3>1. i \in AllJobs
      BY Zenon, <2>0, TableFacts
    <3> QED BY Zenon, <1>5, <3>1 DEF Requested
  <2>2. \A i \in AllJobs : state'[i] = "running" => kind'[i] = "room"
    BY Zenon, <1>3, <1>5 DEF Requested
  <2>3. \A i \in AllJobs : state'[i] # "done" => replies'[i] = <<>>
    <3> SUFFICES ASSUME NEW i \in AllJobs, state'[i] # "done"
                 PROVE  replies'[i] = <<>>
      BY Zenon
    <3>1. i # j
      BY Zenon, <1>5
    <3>2. state[i] # "done" /\ replies'[i] = replies[i]
      BY Zenon, <1>5, <1>8, <3>1
    <3> QED BY Zenon, <3>2 DEF Requested
  <2>4. \A i \in AllJobs : kind'[i] # "room" => replies'[i] \in {<<>>, <<"bye">>, <<"delivered">>}
    BY Zenon, <1>3, <1>8 DEF Requested
  <2>5. \A i \in Jobs : kind'[i] = "room" /\ state'[i] = "done" =>
          \/ outcome'[i] = <<"response">> /\ replies'[i] \in {<<"ok">>, <<"failed">>}
          \/ outcome'[i] = <<"timeout">> /\ replies'[i] = <<"timeout">>
    <3> SUFFICES ASSUME NEW i \in Jobs, kind[i] = "room", state'[i] = "done"
                 PROVE  \/ outcome[i] = <<"response">> /\ replies'[i] \in {<<"ok">>, <<"failed">>}
                        \/ outcome[i] = <<"timeout">> /\ replies'[i] = <<"timeout">>
      BY Zenon
    <3>1. CASE i = j
      <4>1. CASE op = "response"
        <5>1. outcome[i] = <<"response">> /\ (text = "ok" \/ text = "failed")
          BY Zenon, <1>1, <3>1, <4>1
        <5>2. replies'[i] = <<"ok">> \/ replies'[i] = <<"failed">>
          BY Zenon, <1>8, <3>1, <5>1
        <5> QED BY Zenon, <5>1, <5>2
      <4>2. CASE op = "timeout"
        BY Zenon, <1>1, <1>8, <3>1, <4>2
      <4> QED BY Zenon, <1>0, <4>1, <4>2
    <3>2. CASE i # j
      <4>1. state[i] = "done" /\ replies'[i] = replies[i]
        BY Zenon, <1>5, <1>8, <2>0, <3>2
      <4>2. \/ outcome[i] = <<"response">> /\ replies[i] \in {<<"ok">>, <<"failed">>}
            \/ outcome[i] = <<"timeout">> /\ replies[i] = <<"timeout">>
        BY Zenon, <4>1 DEF Requested
      <4> QED BY Zenon, <4>1, <4>2
    <3> QED BY <3>1, <3>2
  <2> QED BY Zenon, <2>1, <2>2, <2>3, <2>4, <2>5 DEF Requested
<1> QED BY Zenon, <1>6, <1>7, <1>9, <1>10

(* The tasks that response and timeout callbacks post; of a finished job   *)
(* they do nothing.                                                        *)
LEMMA OutcomeStep ==
  ASSUME SessionInv, Table!PendingInv, RunResponse \/ RunTimeout
  PROVE  SessionInv'
<1> USE DEF SessionInv
<1>1. /\ strand' = Tail(strand)
      /\ UNCHANGED <<stopped, kind, cancels, pushed, started, deadline, outcome, dropped>>
  BY Zenon DEF RunResponse, RunTimeout, pendingVars
<1>2. CASE UNCHANGED <<replies, state, queue, busy, exec>>
  <2>1. strand # <<>>
    BY Zenon DEF RunResponse, RunTimeout, Take
  <2>2. strand' \in Seq(Tasks) /\ Posted'
    BY Zenon, <1>1, <1>2, <2>1, PostedTail
  <2>3. Running' /\ Lineup'
    BY Zenon, <1>1, <1>2, SchedulerSame
  <2>4. Requested'
    BY Zenon, <1>1, <1>2, RequestedSame, TableFacts
  <2>5. SessionTypes'
    BY Zenon, <1>1, <1>2, <2>2 DEF SessionTypes
  <2> QED BY Zenon, <2>2, <2>3, <2>4, <2>5
<1>3. CASE RunResponse /\ ~Finished(Head(strand).job)
  <2>1. Take("response") /\ Finish(Head(strand).job)
    BY Zenon, <1>3 DEF RunResponse
  <2>2. PICK text \in {"ok", "failed"} : Reply(Head(strand).job, text)
    BY Zenon, <1>3 DEF RunResponse
  <2>3. "response" # "timeout"
    OBVIOUS
  <2> QED BY Zenon, <1>1, <1>3, <2>1, <2>2, <2>3, FinishStep
<1>4. CASE RunTimeout /\ ~Finished(Head(strand).job)
  <2>1. Take("timeout") /\ Finish(Head(strand).job) /\ Reply(Head(strand).job, "timeout")
    BY Zenon, <1>4 DEF RunTimeout
  <2>2. "response" # "timeout"
    OBVIOUS
  <2> QED BY Zenon, <1>1, <1>4, <2>1, <2>2, FinishStep
<1> QED BY Zenon, <1>2, <1>3, <1>4 DEF RunResponse, RunTimeout

(* shutdown(): of the queued jobs only the front can have a request, which *)
(* is given up and the Room server told.                                   *)
LEMMA ShutdownStep ==
  ASSUME SessionInv, Table!PendingInv, Shutdown
  PROVE  SessionInv'
<1> USE DEF SessionInv
<1> DEFINE ids == {queue[n] : n \in DOMAIN queue} \cap DOMAIN requests
<1>1. /\ Take("shutdown") /\ stopped' = TRUE /\ busy' = FALSE /\ queue' = <<>>
      /\ state' = [j \in AllJobs |-> IF \E n \in DOMAIN queue : queue[n] = j
                                     THEN "cancelled" ELSE state[j]]
      /\ strand' = Tail(strand) /\ CancelRequest(ids)
      /\ UNCHANGED <<exec, kind, replies, pushed, started>>
  BY Zenon DEF Shutdown
<1> HIDE DEF ids
<1>2. /\ exec = NoJob /\ strand # <<>> /\ strand[1].op = "shutdown"
  BY Zenon, <1>1, TakeFacts
<1>3. /\ queue' \in Seq(AllJobs) /\ Running' /\ Lineup'
      /\ \A j \in AllJobs : \/ state'[j] = state[j] /\ state[j] # "running"
                            \/ state[j] \in {"queued", "running"} /\ state'[j] = "cancelled"
  BY Zenon, <1>1, <1>2, SchedulerShutdown
<1>4. /\ UNCHANGED <<deadline, outcome>>
      /\ \/ UNCHANGED <<cancels, dropped>>
         \/ \E id \in ids : dropped' = dropped \cup {id} /\ cancels' = cancels \cup ids
  BY Zenon, <1>1 DEF CancelRequest, Pending!Cancel, pendingVars
<1>5. \A i \in ids : i \in Jobs /\ i = queue[1]
  <2> SUFFICES ASSUME NEW i \in ids
               PROVE  i \in Jobs /\ i = queue[1]
    BY Zenon
  <2>1. PICK n \in DOMAIN queue : i = queue[n]
    BY Zenon DEF ids
  <2>2. i \in DOMAIN deadline /\ i \in Jobs
    BY Zenon, TableFacts DEF ids
  <2>3. state[i] # "queued"
    <3>1. state[i] \in {"running", "done", "cancelled"}
      BY Zenon, <2>2 DEF Requested
    <3> QED BY <3>1
  <2>4. n = 1 \/ n \in 2..Len(queue)
    BY <2>1 DEF SessionTypes
  <2> QED BY Zenon, <2>1, <2>2, <2>3, <2>4 DEF Lineup
<1>6. /\ cancels' \subseteq Jobs /\ cancels \subseteq cancels' /\ dropped \subseteq dropped'
      /\ \A i \in cancels' : i \in cancels \/ i \in dropped'
  BY Zenon, <1>4, <1>5 DEF SessionTypes
<1>7. state' \in [AllJobs -> JobStates]
  <2>1. state \in [AllJobs -> JobStates] /\ "cancelled" \in JobStates
    BY Zenon DEF SessionTypes, JobStates
  <2> QED BY Zenon, <1>1, <2>1
<1>8. strand' \in Seq(Tasks) /\ Posted'
  <2>1. \A i \in AllJobs : state[i] = "posted" /\ ~(strand[1].op = "push" /\ strand[1].job = i)
                           => state'[i] = "posted"
    BY <1>3
  <2> QED BY Zenon, <1>1, <1>2, <1>4, <2>1, PostedTail
<1>9. SessionTypes'
  BY Zenon, <1>1, <1>3, <1>6, <1>7, <1>8 DEF SessionTypes
<1>10. Requested'
  <2>0. Jobs \subseteq AllJobs
    BY Zenon DEF AllJobs
  <2>1. \A i \in DOMAIN deadline' :
          kind'[i] = "room" /\ state'[i] \in {"running", "done", "cancelled"}
    <3> SUFFICES ASSUME NEW i \in DOMAIN deadline
                 PROVE  kind[i] = "room" /\ state'[i] \in {"running", "done", "cancelled"}
      BY Zenon, <1>1, <1>4
    <3>1. i \in AllJobs
      BY Zenon, <2>0, TableFacts
    <3> QED BY Zenon, <1>3, <3>1 DEF Requested
  <2>2. \A i \in AllJobs : state'[i] # "running"
    BY <1>3
  <2>3. \A i \in AllJobs : state'[i] = "done" <=> state[i] = "done"
    BY <1>3
  <2>4. \A i \in AllJobs : state'[i] # "done" => replies'[i] = <<>>
    BY Zenon, <1>1, <2>3 DEF Requested
  <2>5. \A i \in Jobs : kind'[i] = "room" /\ state'[i] = "done" =>
          \/ outcome'[i] = <<"response">> /\ replies'[i] \in {<<"ok">>, <<"failed">>}
          \/ outcome'[i] = <<"timeout">> /\ replies'[i] = <<"timeout">>
    <3> SUFFICES ASSUME NEW i \in Jobs, kind[i] = "room", state[i] = "done"
                 PROVE  \/ outcome[i] = <<"response">> /\ replies[i] \in {<<"ok">>, <<"failed">>}
                        \/ outcome[i] = <<"timeout">> /\ replies[i] = <<"timeout">>
      BY Zenon, <1>1, <1>4, <2>0, <2>3
    <3> QED BY Zenon DEF Requested
  <2>6. \A i \in Jobs : outcome'[i] = <<"timeout">> => i \in cancels'
    BY Zenon, <1>4, <1>6 DEF Requested
  <2>7. \A i \in cancels' : i \in dropped' \/ outcome'[i] = <<"timeout">>
    BY Zenon, <1>4, <1>6 DEF Requested
  <2>8. /\ kind'[StopJob] # "room"
        /\ \A i \in AllJobs : kind'[i] # "room" => replies'[i] \in {<<>>, <<"bye">>, <<"delivered">>}
    BY Zenon, <1>1 DEF Requested
  <2> QED BY Zenon, <2>1, <2>2, <2>4, <2>5, <2>6, <2>7, <2>8 DEF Requested
<1> QED BY Zenon, <1>3, <1>8, <1>9, <1>10

(* A callback of the table posts its task, and a timeout tells the Room    *)
(* server.                                                                 *)
LEMMA CallbackStep ==
  ASSUME SessionInv, Table!PendingInv, NEW j \in DOMAIN deadline,
         outcome[j] = <<>>, j \notin dropped,
         NEW op \in {"response", "timeout"},
         outcome' = [outcome EXCEPT ![j] = Append(@, op)],
         strand' = Append(strand, [op |-> op, job |-> j]),
         op = "timeout" => cancels' = cancels \cup {j},
         op = "response" => cancels' = cancels,
         UNCHANGED <<exec, queue, busy, stopped, kind, state, replies, pushed, started, deadline,
                     dropped>>
  PROVE  SessionInv'
<1> USE DEF SessionInv
<1>0. j \in Jobs /\ j \in AllJobs /\ DOMAIN outcome = Jobs /\ Jobs \subseteq AllJobs
  BY Zenon, TableFacts DEF AllJobs
<1>1. /\ outcome'[j] = <<op>>
      /\ \A i \in Jobs : i # j => outcome'[i] = outcome[i]
  <2>1. Append(<<>>, op) = <<op>>
    OBVIOUS
  <2> QED BY Zenon, <1>0, <2>1
<1>2. strand' \in Seq(Tasks) /\ Posted'
  <2> DEFINE t == [op |-> op, job |-> j]
  <2>1. t \in Tasks /\ t.op = op /\ t.job = j /\ op # "push"
    BY <1>0 DEF Tasks
  <2>2. strand' = Append(strand, t)
    BY Zenon
  <2>3. \A i \in Jobs : outcome[i] # <<>> => outcome'[i] = outcome[i]
    BY Zenon, <1>1
  <2> HIDE DEF t
  <2>4. t.op = "push" => t.job \in AllJobs /\ state[t.job] # "posted" /\ state'[t.job] = "posted"
    BY Zenon, <2>1
  <2>5. /\ t.op = "response" => t.job \in Jobs /\ outcome'[t.job] = <<"response">>
        /\ t.op = "timeout" => t.job \in Jobs /\ outcome'[t.job] = <<"timeout">>
    BY Zenon, <1>0, <1>1, <2>1
  <2> QED BY Zenon, <2>1, <2>2, <2>3, <2>4, <2>5, PostedAppend
<1>3. Running' /\ Lineup'
  BY Zenon, SchedulerSame
<1>4. cancels' \subseteq Jobs /\ cancels \subseteq cancels'
  BY Zenon, <1>0 DEF SessionTypes
<1>5. SessionTypes'
  BY Zenon, <1>2, <1>4 DEF SessionTypes
<1>6. Requested'
  <2>1. \A i \in Jobs : kind'[i] = "room" /\ state'[i] = "done" =>
          \/ outcome'[i] = <<"response">> /\ replies'[i] \in {<<"ok">>, <<"failed">>}
          \/ outcome'[i] = <<"timeout">> /\ replies'[i] = <<"timeout">>
    <3> SUFFICES ASSUME NEW i \in Jobs, kind[i] = "room", state[i] = "done"
                 PROVE  \/ outcome'[i] = <<"response">> /\ replies[i] \in {<<"ok">>, <<"failed">>}
                        \/ outcome'[i] = <<"timeout">> /\ replies[i] = <<"timeout">>
      BY Zenon
    <3>1. \/ outcome[i] = <<"response">> /\ replies[i] \in {<<"ok">>, <<"failed">>}
          \/ outcome[i] = <<"timeout">> /\ replies[i] = <<"timeout">>
      BY Zenon DEF Requested
    <3>2. <<"response">> # <<>> /\ <<"timeout">> # <<>>
      OBVIOUS
    <3>3. outcome[i] # <<>>
      BY Zenon, <3>1, <3>2
    <3> QED BY Zenon, <1>1, <3>1, <3>3
  <2>2. \A i \in Jobs : outcome'[i] = <<"timeout">> => i \in cancels'
    <3> SUFFICES ASSUME NEW i \in Jobs, outcome'[i] = <<"timeout">>
                 PROVE  i \in cancels'
      BY Zenon
    <3>1. CASE i = j
      <4>1. op = "timeout"
        BY <1>1, <3>1
      <4> QED BY Zenon, <3>1, <4>1
    <3>2. CASE i # j
      BY Zenon, <1>1, <1>4, <3>2 DEF Requested
    <3> QED BY <3>1, <3>2
  <2>3. \A i \in cancels' : i \in dropped' \/ outcome'[i] = <<"timeout">>
    <3> SUFFICES ASSUME NEW i \in cancels'
                 PROVE  i \in dropped \/ outcome'[i] = <<"timeout">>
      BY Zenon
    <3>1. CASE i \in cancels
      <4>1. i \in dropped \/ outcome[i] = <<"timeout">>
        BY Zenon, <3>1 DEF Requested
      <4>2. i # j
        BY <4>1
      <4>3. i \in Jobs
        BY Zenon, <3>1 DEF SessionTypes
      <4> QED BY Zenon, <1>1, <4>1, <4>2, <4>3
    <3>2. CASE i \notin cancels
      <4>1. op = "timeout" /\ i = j
        BY Zenon, <3>2
      <4> QED BY Zenon, <1>1, <4>1
    <3> QED BY <3>1, <3>2
  <2>4. /\ kind'[StopJob] # "room"
        /\ \A i \in DOMAIN deadline' :
             kind'[i] = "room" /\ state'[i] \in {"running", "done", "cancelled"}
        /\ \A i \in AllJobs : state'[i] = "running" => kind'[i] = "room"
        /\ \A i \in AllJobs : state'[i] # "done" => replies'[i] = <<>>
        /\ \A i \in AllJobs : kind'[i] # "room" => replies'[i] \in {<<>>, <<"bye">>, <<"delivered">>}
    BY Zenon DEF Requested
  <2> QED BY Zenon, <2>1, <2>2, <2>3, <2>4 DEF Requested
<1> QED BY Zenon, <1>2, <1>3, <1>5, <1>6

(* The timer's and the channel's thread call back. *)
LEMMA CallStep ==
  ASSUME SessionInv, Table!PendingInv,
         (\E j \in Jobs : TimeoutCallback(j)) \/ ResponseCallback
  PROVE  SessionInv'
<1> USE DEF schedVars
<1>0. "response" # "timeout"
  OBVIOUS
<1>1. ASSUME NEW j \in Jobs, TimeoutCallback(j)
      PROVE  SessionInv'
  <2>1. /\ j \in timer.expired
        /\ outcome' = [outcome EXCEPT ![j] = Append(@, "timeout")]
        /\ strand' = Append(strand, [op |-> "timeout", job |-> j])
        /\ cancels' = cancels \cup {j}
        /\ UNCHANGED <<exec, queue, busy, stopped, kind, state, replies, pushed, started, deadline,
                       dropped>>
    BY Zenon, <1>1 DEF TimeoutCallback, OnTimeout, Pending!TimerCall
  <2>2. j \in DOMAIN deadline /\ outcome[j] = <<>> /\ j \notin dropped
    BY Zenon, <2>1, TableFacts
  <2> QED BY Zenon, <1>0, <2>1, <2>2, CallbackStep
<1>2. CASE ResponseCallback
  <2>1. /\ waiter.pc = "call"
        /\ UNCHANGED <<exec, queue, busy, stopped, kind, state, replies, pushed, started, deadline,
                       dropped>>
    BY Zenon, <1>2 DEF ResponseCallback, Pending!CompleteCall
  <2>2. waiter.id \in DOMAIN deadline /\ outcome[waiter.id] = <<>> /\ waiter.id \notin dropped
    BY Zenon, <2>1, TableFacts
  <2>3. CASE waiter.late
    <3>1. /\ outcome' = [outcome EXCEPT ![waiter.id] = Append(@, "timeout")]
          /\ strand' = Append(strand, [op |-> "timeout", job |-> waiter.id])
          /\ cancels' = cancels \cup {waiter.id}
      BY Zenon, <1>2, <2>3 DEF ResponseCallback, OnTimeout, Pending!CompleteCall
    <3> QED BY Zenon, <1>0, <2>1, <2>2, <3>1, CallbackStep
  <2>4. CASE ~waiter.late
    <3>1. /\ outcome' = [outcome EXCEPT ![waiter.id] = Append(@, "response")]
          /\ strand' = Append(strand, [op |-> "response", job |-> waiter.id])
          /\ cancels' = cancels
      BY Zenon, <1>2, <2>4 DEF ResponseCallback, Pending!CompleteCall
    <3> QED BY Zenon, <1>0, <2>1, <2>2, <3>1, CallbackStep
  <2> QED BY Zenon, <2>3, <2>4
<1> QED BY Zenon, <1>1, <1>2

-----------------------------------------------------------------------------
(* The session *)

(* A new session: nothing posted, nothing queued. *)
LEMMA SessionStart == Init => SessionInv
<1> SUFFICES ASSUME Init
             PROVE  SessionInv
  OBVIOUS
<1>1. /\ strand = <<>> /\ exec = NoJob /\ queue = <<>> /\ pushed = <<>> /\ started = <<>>
      /\ busy = FALSE /\ stopped = FALSE /\ cancels = {} /\ dropped = {}
      /\ state = [j \in AllJobs |-> "new"] /\ kind = [j \in AllJobs |-> "none"]
      /\ replies = [j \in AllJobs |-> <<>>] /\ outcome = [j \in Jobs |-> <<>>]
      /\ deadline = EmptyMap
  BY Zenon DEF Init
<1>2. /\ \A S : <<>> \in Seq(S)
      /\ Len(<<>>) = 0
      /\ \A n \in 1..0 : FALSE
      /\ \A n \in 2..0 : FALSE
  OBVIOUS
<1>3. NoJob \in Places /\ NoJob.pc = "idle" /\ NoJob.pc # "run"
  BY DEF NoJob, Places
<1>4. /\ \A j \in AllJobs : state[j] = "new" /\ kind[j] = "none" /\ replies[j] = <<>>
      /\ \A j \in Jobs : outcome[j] = <<>>
      /\ DOMAIN kind = AllJobs /\ DOMAIN replies = AllJobs
      /\ state \in [AllJobs -> JobStates]
  BY Zenon, <1>1 DEF JobStates
<1>5. \A j \in DOMAIN deadline : FALSE
  BY Zenon, <1>1 DEF EmptyMap
<1>6. SessionTypes
  BY Zenon, <1>1, <1>2, <1>3, <1>4 DEF SessionTypes
<1>7. Running
  <2>1. (Len(queue) > 0) = FALSE /\ Len(queue) = 0
    BY <1>1
  <2> QED BY Zenon, <1>1, <1>3, <2>1 DEF Running
<1>8. Lineup
  BY <1>1, <1>3, <1>4 DEF Lineup
<1>9. Posted
  BY Zenon, <1>1, <1>2 DEF Posted
<1>10. Requested
  <2>1. /\ \A j \in AllJobs : kind[j] # "room" /\ state[j] # "running" /\ state[j] # "done"
        /\ \A j \in Jobs : outcome[j] # <<"timeout">>
        /\ StopJob \in AllJobs
        /\ \A j \in AllJobs : replies[j] \in {<<>>, <<"bye">>, <<"delivered">>}
    BY <1>4 DEF AllJobs
  <2>2. /\ kind[StopJob] # "room"
        /\ \A j \in Jobs : ~(kind[j] = "room" /\ state[j] = "done")
        /\ \A j \in cancels : FALSE
    BY Zenon, <1>1, <2>1 DEF AllJobs
  <2> QED BY Zenon, <1>4, <1>5, <2>1, <2>2 DEF Requested
<1> QED BY Zenon, <1>6, <1>7, <1>8, <1>9, <1>10 DEF SessionInv

(* Every step of every thread keeps the invariant. *)
LEMMA SessionStep ==
  ASSUME SessionInv, Table!PendingInv, [Next]_vars
  PROVE  SessionInv'
<1>1. CASE Arrivals
  BY Zenon, <1>1, ReceiveStep, DisconnectStep, ElsewhereStep DEF Arrivals
<1>2. CASE Strand
  BY Zenon, <1>2, PushStep, RunRoomJobStep, SendRequestStep, RunDoneStep, RunLogoutStep,
     OutcomeStep, ShutdownStep DEF Strand
<1>3. CASE Timer \/ Waiter
  BY Zenon, <1>3, ElsewhereStep, CallStep DEF Timer, Waiter
<1>4. CASE TimePasses \/ RoomReads \/ UNCHANGED vars
  BY Zenon, <1>4, ElsewhereStep
<1> QED BY Zenon, <1>1, <1>2, <1>3, <1>4 DEF Next

(* The session's invariant and the table's hold together in every state of *)
(* user_session, job_scheduler and room_channel.                           *)
THEOREM SessionAlways == Spec => [](SessionInv /\ Table!PendingInv)
<1>1. Init => SessionInv /\ Table!PendingInv
  BY Zenon, SessionStart, TableStart
<1>2. SessionInv /\ Table!PendingInv /\ [Next]_vars => (SessionInv /\ Table!PendingInv)'
  <2> SUFFICES ASSUME SessionInv, Table!PendingInv, [Next]_vars
               PROVE  SessionInv' /\ Table!PendingInv'
    BY Zenon
  <2>1. SessionInv'
    BY Zenon, SessionStep
  <2>2. Table!PendingInv'
    BY Zenon, TablePart, TableParameters, Table!PendingStep
  <2> QED BY Zenon, <2>1, <2>2
<1> QED BY <1>1, <1>2, PTL DEF Spec

(* job_scheduler runs a session's jobs one at a time, in the order in      *)
(* which push_and_run accepted them, however many there are, whatever      *)
(* their kinds and whenever responses, timeouts and the shutdown come.     *)
THEOREM SessionSerializesJobs == Spec => []JobsSerialized
<1>1. SessionInv => JobsSerialized
  <2> SUFFICES ASSUME SessionInv
               PROVE  JobsSerialized
    BY Zenon
  <2> USE DEF SessionInv
  <2>0. /\ Len(queue) \in Nat /\ Len(pushed) \in Nat /\ Len(started) \in Nat
        /\ queue = <<>> <=> Len(queue) = 0
        /\ Len(queue) > 0 => queue[1] \in AllJobs /\ Head(queue) = queue[1]
    BY Zenon, LineFacts
  <2>1. IsPrefix(started, pushed)
    <3>1. /\ started \in Seq(AllJobs) /\ pushed \in Seq(AllJobs) /\ Len(started) <= Len(pushed)
          /\ \A n \in 1..Len(started) : started[n] = pushed[n]
      BY Zenon DEF SessionTypes, Lineup
    <3>2. SubSeq(started, 1, Len(started)) = SubSeq(pushed, 1, Len(started))
      BY <3>1
    <3> QED BY Zenon, <3>1, <3>2 DEF IsPrefix
  <2>2. busy = (queue # <<>>)
    <3>1. (Len(queue) > 0) <=> (queue # <<>>)
      BY <2>0
    <3>2. busy = (Len(queue) > 0)
      BY Zenon DEF Running
    <3>3. CASE Len(queue) > 0
      <4>1. (Len(queue) > 0) = TRUE
        BY <3>3
      <4>2. (queue # <<>>) = TRUE
        BY Zenon, <3>1, <3>3
      <4> QED BY Zenon, <3>2, <4>1, <4>2
    <3>4. CASE ~(Len(queue) > 0)
      <4>1. (Len(queue) > 0) = FALSE
        BY <3>4
      <4>2. (queue # <<>>) = FALSE
        BY Zenon, <3>1, <3>4
      <4> QED BY Zenon, <3>2, <4>1, <4>2
    <3> QED BY Zenon, <3>3, <3>4
  <2>3. \A j \in AllJobs : state[j] = "running" => queue # <<>> /\ Head(queue) = j
    <3> SUFFICES ASSUME NEW j \in AllJobs, state[j] = "running"
                 PROVE  queue # <<>> /\ Head(queue) = j
      BY Zenon
    <3>1. Len(queue) > 0 /\ queue[1] = j
      BY Zenon DEF Lineup
    <3> QED BY <2>0, <3>1
  <2>4. ASSUME exec.pc = "run"
        PROVE  queue # <<>> /\ exec.job = Head(queue) /\ exec.job \notin Range(started)
    <3>1. Len(queue) > 0 /\ exec.job = queue[1] /\ ~stopped
      <4>1. Len(queue) > 0 /\ exec.job = queue[1]
        <5>1. exec.pc # "idle"
          BY <2>4
        <5> QED BY Zenon, <5>1 DEF Running
      <4>2. Len(queue) # 0
        BY <4>1
      <4> QED BY Zenon, <4>1, <4>2 DEF Running
    <3>2. Len(started) = Len(pushed) - Len(queue)
      <4>1. Len(started) = (Len(pushed) - Len(queue)) +
                           (IF Len(queue) = 0 \/ exec.pc = "run" THEN 0 ELSE 1)
        BY Zenon, <3>1 DEF Lineup
      <4> QED BY <2>0, <2>4, <4>1
    <3>3. queue[1] = pushed[Len(pushed) - Len(queue) + 1]
      <4>1. 1 \in 1..Len(queue)
        BY <2>0, <3>1
      <4> QED BY Zenon, <4>1 DEF Lineup
    <3>4. Len(started) + 1 \in 1..Len(pushed) /\ pushed[Len(started) + 1] = exec.job
      <4>1. Len(queue) <= Len(pushed)
        BY Zenon DEF Lineup
      <4> QED BY <2>0, <3>1, <3>2, <3>3, <4>1
    <3>5. ASSUME NEW n \in DOMAIN started, started[n] = exec.job
          PROVE  FALSE
      <4>1. n \in 1..Len(started) /\ n \in 1..Len(pushed) /\ n # Len(started) + 1
        <5>1. started \in Seq(AllJobs) /\ Len(started) <= Len(pushed)
          BY Zenon DEF SessionTypes, Lineup
        <5> QED BY <2>0, <3>5, <5>1
      <4>2. started[n] = pushed[n]
        BY Zenon, <4>1 DEF Lineup
      <4> QED BY Zenon, <3>4, <3>5, <4>1, <4>2 DEF Lineup
    <3>6. exec.job \notin Range(started)
      BY Zenon, <3>5 DEF Range
    <3> QED BY <2>0, <3>1, <3>6
  <2> QED BY Zenon, <2>1, <2>2, <2>3, <2>4 DEF JobsSerialized
<1> QED BY <1>1, SessionAlways, PTL

(* A room job that is done has answered the client exactly once, and one   *)
(* that the shutdown cancelled never, however the response, the timeout    *)
(* and the shutdown race.                                                  *)
THEOREM SessionAnswersOnce == Spec => []AnsweredOnce
<1>1. SessionInv => AnsweredOnce
  <2> SUFFICES ASSUME SessionInv, NEW j \in Jobs, kind[j] = "room"
               PROVE  Len(replies[j]) = IF state[j] = "done" THEN 1 ELSE 0
    BY Zenon DEF AnsweredOnce
  <2>0. j \in AllJobs
    BY Zenon DEF AllJobs
  <2>1. CASE state[j] = "done"
    <3>1. replies[j] = <<"ok">> \/ replies[j] = <<"failed">> \/ replies[j] = <<"timeout">>
      BY Zenon, <2>1 DEF SessionInv, Requested
    <3>2. Len(replies[j]) = 1
      BY <3>1
    <3> QED BY Zenon, <2>1, <3>2
  <2>2. CASE state[j] # "done"
    <3>1. replies[j] = <<>>
      BY Zenon, <2>0, <2>2 DEF SessionInv, Requested
    <3>2. Len(replies[j]) = 0
      BY <3>1
    <3> QED BY Zenon, <2>2, <3>2
  <2> QED BY Zenon, <2>1, <2>2
<1> QED BY <1>1, SessionAlways, PTL

(* A client that was told of a timeout has had its request cancelled at    *)
(* the Room server, and one whose request was cancelled is never told      *)
(* that it succeeded.                                                      *)
THEOREM SessionCancelsMatch == Spec => []CancelMatchesAnswer
<1>1. SessionInv /\ Table!PendingInv => CancelMatchesAnswer
  <2> SUFFICES ASSUME SessionInv, Table!PendingInv, NEW j \in Jobs
               PROVE  /\ replies[j] = <<"timeout">> => j \in cancels
                      /\ j \in cancels => replies[j] \in {<<>>, <<"timeout">>}
    BY Zenon DEF CancelMatchesAnswer
  <2> USE DEF SessionInv
  <2>0. j \in AllJobs
    BY Zenon DEF AllJobs
  <2>1. state[j] # "done" => replies[j] = <<>>
    BY Zenon, <2>0 DEF Requested
  <2>2. kind[j] # "room" => replies[j] \in {<<>>, <<"bye">>, <<"delivered">>}
    BY Zenon, <2>0 DEF Requested
  <2>3. kind[j] = "room" /\ state[j] = "done" =>
          \/ outcome[j] = <<"response">> /\ replies[j] \in {<<"ok">>, <<"failed">>}
          \/ outcome[j] = <<"timeout">> /\ replies[j] = <<"timeout">>
    BY Zenon DEF Requested
  <2>4. /\ outcome[j] = <<"timeout">> => j \in cancels
        /\ j \in cancels => j \in dropped \/ outcome[j] = <<"timeout">>
    BY Zenon DEF Requested
  <2>5. ASSUME replies[j] = <<"timeout">>
        PROVE  j \in cancels
    <3>1. outcome[j] = <<"timeout">>
      BY <2>1, <2>2, <2>3, <2>5
    <3> QED BY Zenon, <2>4, <3>1
  <2>6. ASSUME j \in cancels
        PROVE  replies[j] \in {<<>>, <<"timeout">>}
    <3>1. j \in DOMAIN deadline /\ (outcome[j] = <<>> \/ outcome[j] = <<"timeout">>)
      <4>1. CASE j \in dropped
        BY Zenon, <4>1, TableFacts
      <4>2. CASE outcome[j] = <<"timeout">>
        <5>1. outcome[j] # <<>>
          BY <4>2
        <5> QED BY Zenon, <4>2, <5>1, TableFacts
      <4> QED BY Zenon, <2>4, <2>6, <4>1, <4>2
    <3>2. kind[j] = "room"
      BY Zenon, <3>1 DEF Requested
    <3>3. <<"response">> # <<>> /\ <<"response">> # <<"timeout">> /\ <<"timeout">> # <<>>
      OBVIOUS
    <3> QED BY Zenon, <2>1, <2>3, <3>1, <3>2, <3>3
  <2> QED BY Zenon, <2>5, <2>6
<1> QED BY <1>1, SessionAlways, PTL

=============================================================================
