-------------------------- MODULE PendingRequests --------------------------
(***************************************************************************)
(* The User server's registry of requests that wait for a response,        *)
(* message/pending_requests.hpp.  Four parties use it: sessions add and    *)
(* cancel requests, the channel's thread completes them (variable waiter), *)
(* the timer thread expires them (variable timer), and the channel's owner *)
(* starts and stops it (variable owner).                                   *)
(*                                                                         *)
(* A step is a section under requests_mutex_ or timer_mutex_, a callback,  *)
(* or a reading of the clock: complete() and expire() read it before they  *)
(* take the lock, and call back after they have released it.               *)
(***************************************************************************)
EXTENDS Sequences, Maps, PendingParameters

VARIABLES
  clock,
  requests,   \* requests_: a function from the waiting ids to their deadline
  running,    \* running_
  timer,      \* the timer thread: pc, its `now`, the expired requests to call
  waiter,     \* the channel's thread in complete(): pc, id, `now`, verdict
  owner,      \* progress of stop()
  deadline,   \* history: the deadline every id was added with
  arrived,    \* history: the `now` of the complete() that took the id
  outcome,    \* history: the callbacks made for an id
  dropped     \* history: ids that cancel() or clear() removed

vars == <<clock, requests, running, timer, waiter, owner, deadline, arrived, outcome,
          dropped>>

TimerOff == [pc |-> "off", now |-> 0, expired |-> {}]
NoResponse == [pc |-> "idle", id |-> NoId, now |-> 0, late |-> FALSE]

Init ==
  /\ clock = 0
  /\ requests = EmptyMap
  /\ running = FALSE
  /\ timer = TimerOff
  /\ waiter = NoResponse
  /\ owner = "new"
  /\ deadline = EmptyMap
  /\ arrived = EmptyMap
  /\ outcome = [id \in Ids |-> <<>>]
  /\ dropped = {}

Tick ==
  /\ clock < MaxTime
  /\ clock' = clock + 1
  /\ UNCHANGED <<requests, running, timer, waiter, owner, deadline, arrived, outcome,
                 dropped>>

-----------------------------------------------------------------------------
(* Sessions *)

(* No session sends requests once the channel is being destroyed. *)
Add(id) ==
  /\ owner # "cleared"
  /\ id \notin DOMAIN deadline
  /\ clock + Timeout <= MaxTime
  /\ requests' = With(requests, id, clock + Timeout)
  /\ deadline' = With(deadline, id, clock + Timeout)
  /\ UNCHANGED <<clock, running, timer, waiter, owner, arrived, outcome, dropped>>

(* cancel() returning true; otherwise it changes nothing. *)
Cancel(id) ==
  /\ id \in DOMAIN requests
  /\ requests' = Without(requests, {id})
  /\ dropped' = dropped \cup {id}
  /\ UNCHANGED <<clock, running, timer, waiter, owner, deadline, arrived, outcome>>

-----------------------------------------------------------------------------
(* The channel's thread: complete() *)

(* A response arrives, possibly not the first one with this id. *)
CompleteBegin(id) ==
  /\ waiter.pc = "idle"
  /\ owner \notin {"quitting", "cleared"}
  /\ waiter' = [NoResponse EXCEPT !.pc = "take", !.id = id, !.now = clock]
  /\ UNCHANGED <<clock, requests, running, timer, owner, deadline, arrived, outcome,
                 dropped>>

(* Variant of CompleteTake: looks the request up without removing it. *)
CompletePeek ==
  /\ waiter.pc = "take"
  /\ waiter.id \in DOMAIN requests
  /\ arrived' = With(arrived, waiter.id, waiter.now)
  /\ waiter' = [waiter EXCEPT !.pc = "call", !.late = waiter.now >= requests[waiter.id]]
  /\ UNCHANGED <<clock, requests, running, timer, owner, deadline, outcome, dropped>>

CompleteTake ==
  /\ waiter.pc = "take"
  /\ waiter.id \in DOMAIN requests
  /\ requests' = Without(requests, {waiter.id})
  /\ arrived' = With(arrived, waiter.id, waiter.now)
  /\ waiter' = [waiter EXCEPT !.pc = "call", !.late = waiter.now >= requests[waiter.id]]
  /\ UNCHANGED <<clock, running, timer, owner, deadline, outcome, dropped>>

CompleteUnknown ==
  /\ waiter.pc = "take"
  /\ waiter.id \notin DOMAIN requests
  /\ waiter' = NoResponse
  /\ UNCHANGED <<clock, requests, running, timer, owner, deadline, arrived, outcome,
                 dropped>>

CompleteCall ==
  /\ waiter.pc = "call"
  /\ outcome' = [outcome EXCEPT ![waiter.id] =
                   Append(@, IF waiter.late THEN "timeout" ELSE "response")]
  /\ waiter' = NoResponse
  /\ UNCHANGED <<clock, requests, running, timer, owner, deadline, arrived, dropped>>

-----------------------------------------------------------------------------
(* The timer's thread *)

(* wait_for has timed out; clock::now() *)
TimerWake ==
  /\ timer.pc = "wait"
  /\ running
  /\ timer' = [timer EXCEPT !.pc = "expire", !.now = clock]
  /\ UNCHANGED <<clock, requests, running, waiter, owner, deadline, arrived, outcome,
                 dropped>>

(* expire(), under the lock *)
TimerExpire ==
  /\ timer.pc = "expire"
  /\ LET expired == {id \in DOMAIN requests : timer.now >= requests[id]}
     IN  /\ requests' = Without(requests, expired)
         /\ timer' = [timer EXCEPT !.pc = "call", !.expired = expired]
  /\ UNCHANGED <<clock, running, waiter, owner, deadline, arrived, outcome, dropped>>

(* expire(), one on_timeout() after another *)
TimerCall(id) ==
  /\ timer.pc = "call"
  /\ id \in timer.expired
  /\ outcome' = [outcome EXCEPT ![id] = Append(@, "timeout")]
  /\ timer' = [timer EXCEPT !.expired = @ \ {id}]
  /\ UNCHANGED <<clock, requests, running, waiter, owner, deadline, arrived, dropped>>

(* Variant of TimerWait: the timer's loop ends after one round. *)
TimerOnce ==
  /\ timer.pc = "call"
  /\ timer.expired = {}
  /\ timer' = TimerOff
  /\ UNCHANGED <<clock, requests, running, waiter, owner, deadline, arrived, outcome,
                 dropped>>

TimerWait ==
  /\ timer.pc = "call"
  /\ timer.expired = {}
  /\ timer' = [timer EXCEPT !.pc = "wait"]
  /\ UNCHANGED <<clock, requests, running, waiter, owner, deadline, arrived, outcome,
                 dropped>>

TimerExit ==
  /\ timer.pc = "wait"
  /\ ~running
  /\ timer' = TimerOff
  /\ UNCHANGED <<clock, requests, running, waiter, owner, deadline, arrived, outcome,
                 dropped>>

-----------------------------------------------------------------------------
(* The channel's owner: start() and stop(), not called from callbacks *)

Start ==
  /\ owner = "new"
  /\ owner' = "started"
  /\ running' = TRUE
  /\ timer' = [timer EXCEPT !.pc = "wait"]
  /\ UNCHANGED <<clock, requests, waiter, deadline, arrived, outcome, dropped>>

StopRequest ==
  /\ owner = "started"
  /\ owner' = "stopping"
  /\ running' = FALSE
  /\ UNCHANGED <<clock, requests, timer, waiter, deadline, arrived, outcome, dropped>>

(* timer_.join() and clear() *)
StopJoin ==
  /\ owner = "stopping"
  /\ timer.pc = "off"
  /\ owner' = "stopped"
  /\ requests' = EmptyMap
  /\ dropped' = dropped \cup DOMAIN requests
  /\ UNCHANGED <<clock, running, timer, waiter, deadline, arrived, outcome>>

(* room_channel::stop() then stops the channel, whose thread takes no      *)
(* further response, and clears again what was added meanwhile.            *)
StopChannel ==
  /\ owner = "stopped"
  /\ owner' = "quitting"
  /\ UNCHANGED <<clock, requests, running, timer, waiter, deadline, arrived, outcome,
                 dropped>>

ClearAgain ==
  /\ owner = "quitting"
  /\ waiter.pc = "idle"
  /\ owner' = "cleared"
  /\ requests' = EmptyMap
  /\ dropped' = dropped \cup DOMAIN requests
  /\ UNCHANGED <<clock, running, timer, waiter, deadline, arrived, outcome>>

-----------------------------------------------------------------------------

Complete == CompleteTake \/ CompleteUnknown \/ CompleteCall
Timer ==
  \/ TimerWake \/ TimerExpire \/ TimerWait \/ TimerExit
  \/ \E id \in Ids : TimerCall(id)
Stop == StopJoin \/ StopChannel \/ ClearAgain

Destroyed == owner = "cleared" /\ UNCHANGED vars

Next ==
  \/ Tick
  \/ \E id \in Ids :
       \/ Add(id)
       \/ Cancel(id)
       \/ CompleteBegin(id)
  \/ Complete \/ Timer
  \/ Start \/ StopRequest \/ Stop
  \/ Destroyed

Spec == Init /\ [][Next]_vars

-----------------------------------------------------------------------------
(* Properties *)

(* Type correctness of the table and of the two threads' local state.      *)
TypeOK ==
  /\ clock \in Nat
  /\ DOMAIN deadline \subseteq Ids
  /\ \A id \in DOMAIN deadline : deadline[id] \in Nat
  /\ DOMAIN requests \subseteq DOMAIN deadline
  /\ \A id \in DOMAIN requests : requests[id] = deadline[id]
  /\ running \in BOOLEAN
  /\ timer \in [pc : {"off", "wait", "expire", "call"}, now : Nat, expired : SUBSET Ids]
  /\ waiter \in [pc : {"idle", "take", "call"}, id : Ids \cup {NoId}, now : Nat,
                 late : BOOLEAN]
  /\ waiter.pc # "idle" => waiter.id \in Ids
  /\ owner \in {"new", "started", "stopping", "stopped", "quitting", "cleared"}
  /\ DOMAIN arrived \subseteq Ids
  /\ \A id \in DOMAIN arrived : arrived[id] \in Nat
  /\ outcome \in [Ids -> Seq({"response", "timeout"})]
  /\ dropped \subseteq Ids

(* Where a request can be: in the table, in the channel's or the timer's   *)
(* thread on its way to a callback, called back, or removed by cancel() or *)
(* clear().                                                                *)
FateNames == {"waiting", "completing", "expiring", "called", "dropped"}

Fates(id) ==
  {f \in FateNames :
     \/ f = "waiting" /\ id \in DOMAIN requests
     \/ f = "completing" /\ waiter.pc = "call" /\ waiter.id = id
     \/ f = "expiring" /\ id \in timer.expired
     \/ f = "called" /\ outcome[id] # <<>>
     \/ f = "dropped" /\ id \in dropped}

(* However response, timeout, cancellation and stop() race, a request has  *)
(* exactly one fate: it is called back at most once, never after cancel()  *)
(* has returned true or stop() has cleared it, and is never lost.          *)
OneFate ==
  \A id \in DOMAIN deadline :
    Len(outcome[id]) <= 1 /\ \E f \in FateNames : Fates(id) = {f}

(* on_timeout() is never called before the deadline.                       *)
TimeoutNotEarly ==
  \A id \in Ids : outcome[id] = <<"timeout">> => clock >= deadline[id]

(* "A response arriving after its deadline is late even between timer      *)
(* ticks": on_response is only called when complete() was entered before   *)
(* the deadline.                                                           *)
ResponseInTime ==
  \A id \in Ids : outcome[id] = <<"response">> => arrived[id] < deadline[id]

(* Once stop() has returned the timer has no callback in progress.         *)
QuietAfterStop == owner \in {"stopped", "quitting", "cleared"} => timer.pc = "off"

=============================================================================
