--------------------------- MODULE QueuedRequests ---------------------------
(***************************************************************************)
(* The Room server's registry of admitted requests, message/               *)
(* queued_requests.hpp: active_ maps a request key to the ticket of the    *)
(* operation that is queued for it, terminal_ remembers finished or        *)
(* cancelled keys for a bounded time so that duplicates are refused.       *)
(*                                                                         *)
(* Every method runs under mutex_, so a method is one action.  Its `now`   *)
(* argument is clock::now() read by the caller BEFORE it gets the lock:    *)
(* a call may therefore run with a `now` up to MaxDelay ticks old, and     *)
(* calls are not ordered by their `now`.                                   *)
(***************************************************************************)
EXTENDS Integers, FiniteSets, Maps

CONSTANTS
  Keys,       \* request keys: (routing id, request id) pairs
  Tickets,    \* ticket objects that can be allocated
  Capacity,   \* capacity_
  Retention,  \* retention_, in ticks
  MaxClock,   \* bound on the clock
  MaxDelay    \* bound on how stale `now` can be when the lock is taken

ASSUME RegistryAssumption ==
  /\ IsFiniteSet(Keys)
  /\ Capacity \in Nat
  /\ Retention \in Nat
  /\ MaxClock \in Nat
  /\ MaxDelay \in Nat

VARIABLES
  clock,      \* steady_clock
  active,     \* active_: a function from the active keys to their tickets
  terminal,   \* terminal_: a function from remembered keys to their expiry
  ticket,     \* ticket::state_; "unused" before make_shared<ticket>()
  holder,     \* the key each allocated ticket was handed out for
  finished    \* history: the tickets for which finish() has returned true

vars == <<clock, active, terminal, ticket, holder, finished>>

TicketState == {"unused", "queued", "started", "cancelled"}

Init ==
  /\ clock = 0
  /\ active = EmptyMap
  /\ terminal = EmptyMap
  /\ ticket = [t \in Tickets |-> "unused"]
  /\ holder = EmptyMap
  /\ finished = {}

-----------------------------------------------------------------------------
(* Values of `now` that a call entering the lock at this moment can carry. *)
Now == {n \in 0..clock : clock - n <= MaxDelay}

-----------------------------------------------------------------------------
(* Private helpers of the class *)

(* Variant of Pruned: the expiry comparison is off by one. *)
PrunedEarly(now) == Without(terminal, {k \in DOMAIN terminal : now + 1 >= terminal[k]})

Pruned(now) == Without(terminal, {k \in DOMAIN terminal : now >= terminal[k]})

Oldest(table) ==
  {k \in DOMAIN table : \A j \in DOMAIN table : table[k] <= table[j]}

(* The tables remember(id, now) can leave.  min_element breaks ties by the *)
(* order of the keys, which is left open here.                             *)
Remember(table, id, now) ==
  IF Capacity = 0
  THEN {table}
  ELSE {With(Without(table, evicted), id, now + Retention) :
          evicted \in IF Size(table) >= Capacity
                      THEN {{k} : k \in Oldest(table)}
                      ELSE {{}}}

-----------------------------------------------------------------------------
(* Public operations *)

(* Variant of Refusable: does not look for a terminal record. *)
RefusableIfActive(id, now) == id \in DOMAIN active \/ Size(active) >= Capacity

Refusable(id, now) ==
  \/ id \in DOMAIN active
  \/ id \in DOMAIN Pruned(now)
  \/ Size(active) >= Capacity

(* admit(id, now) returning a new ticket t *)
Admit(id, t, now) ==
  /\ ~Refusable(id, now)
  /\ ticket[t] = "unused"
  /\ active' = With(active, id, t)
  /\ terminal' = Pruned(now)
  /\ ticket' = [ticket EXCEPT ![t] = "queued"]
  /\ holder' = With(holder, t, id)
  /\ UNCHANGED <<clock, finished>>

(* admit(id, now) returning the null ticket *)
Refuse(id, now) ==
  /\ Refusable(id, now)
  /\ terminal' = Pruned(now)
  /\ UNCHANGED <<clock, active, ticket, holder, finished>>

(* Variant of Cancel: moves an active request to the terminal ones. *)
CancelErases(id, now) ==
  /\ id \in DOMAIN active
  /\ ticket' = [ticket EXCEPT ![active[id]] = IF @ = "queued" THEN "cancelled" ELSE @]
  /\ active' = Without(active, {id})
  /\ terminal' \in Remember(Pruned(now), id, now)
  /\ UNCHANGED <<clock, holder, finished>>

(* cancel(id, now) *)
Cancel(id, now) ==
  /\ \/ /\ id \in DOMAIN active
        /\ ticket' = [ticket EXCEPT ![active[id]] =
                        IF @ = "queued" THEN "cancelled" ELSE @]
        /\ terminal' = Pruned(now)
     \/ /\ id \notin DOMAIN active
        /\ terminal' \in IF id \in DOMAIN Pruned(now)
                         THEN {Pruned(now)}
                         ELSE Remember(Pruned(now), id, now)
        /\ UNCHANGED ticket
  /\ UNCHANGED <<clock, active, holder, finished>>

(* finish(id, t, now) returning true *)
Finish(id, t, now) ==
  /\ id \in DOMAIN active
  /\ active[id] = t
  /\ active' = Without(active, {id})
  /\ terminal' \in Remember(Pruned(now), id, now)
  /\ finished' = finished \cup {t}
  /\ UNCHANGED <<clock, ticket, holder>>

(* finish(id, t, now) returning false *)
FinishStale(id, t, now) ==
  /\ id \in DOMAIN active => active[id] # t
  /\ UNCHANGED vars

(* ticket::try_start(), called without the registry's lock *)
TryStart(t) ==
  /\ ticket' = [ticket EXCEPT ![t] = IF @ = "queued" THEN "started" ELSE @]
  /\ UNCHANGED <<clock, active, terminal, holder, finished>>

Tick ==
  /\ clock < MaxClock
  /\ clock' = clock + 1
  /\ UNCHANGED <<active, terminal, ticket, holder, finished>>

(* Whoever holds a ticket may start it, and finish it more than once: the  *)
(* completion callback finishes it, and so does handle_request's catch.    *)
Held == DOMAIN holder

Next ==
  \/ Tick
  \/ \E k \in Keys, now \in Now :
       \/ \E t \in Tickets : Admit(k, t, now)
       \/ Refuse(k, now)
       \/ Cancel(k, now)
  \/ \E t \in Held :
       \/ TryStart(t)
       \/ \E now \in Now : Finish(holder[t], t, now)
       \/ \E now \in Now : FinishStale(holder[t], t, now)

Spec == Init /\ [][Next]_vars

-----------------------------------------------------------------------------
(* Properties *)

(* Type correctness of the registry's two maps and of its tickets.         *)
TypeOK ==
  /\ clock \in Nat
  /\ DOMAIN active \subseteq Keys
  /\ \A k \in DOMAIN active : active[k] \in Tickets
  /\ DOMAIN terminal \subseteq Keys
  /\ \A k \in DOMAIN terminal : terminal[k] \in Nat
  /\ ticket \in [Tickets -> TicketState]
  /\ DOMAIN holder = {t \in Tickets : ticket[t] # "unused"}
  /\ \A t \in DOMAIN holder : holder[t] \in Keys
  /\ finished \subseteq DOMAIN holder

(* A key is never active and terminal at once: admit() refuses a           *)
(* remembered key, cancel() remembers only an inactive one, and finish()   *)
(* erases the key from active_ before it remembers it.                     *)
ActiveTerminalDisjoint == DOMAIN active \cap DOMAIN terminal = {}

(* Neither map outgrows capacity_: admit() refuses at the limit and        *)
(* remember() evicts one record before it inserts one.                     *)
CapacityRespected == Size(active) <= Capacity /\ Size(terminal) <= Capacity

(* "Active tickets stay reachable until the queued operation consumes      *)
(* them": a ticket is the one its key maps to in active_ exactly until     *)
(* finish() has returned true for it, whatever stale finish() calls,       *)
(* cancellations and re-admissions of the key happen in between.           *)
ReachableUntilFinished ==
  \A t \in DOMAIN holder :
    t \notin finished <=> /\ holder[t] \in DOMAIN active
                         /\ active[holder[t]] = t

KeepsRecords ==
  \A k \in DOMAIN terminal :
    /\ k \notin DOMAIN terminal' =>
         \/ clock >= terminal[k]
         \/ Size(terminal) = Capacity /\ k \in Oldest(terminal)
    /\ k \in DOMAIN active' => clock >= terminal[k]

(* A terminal record is lost only when its time is over, or when the table *)
(* is full and no other record is older (prune() and remember()), and its  *)
(* key becomes active again only after that time: duplicates stay          *)
(* suppressed for the whole retention period even though calls reach the   *)
(* lock with stale times.                                                  *)
DuplicatesSuppressed == [][KeepsRecords]_vars

KeepsWinner ==
  \A t \in Tickets :
    ticket[t] \in {"started", "cancelled"} => ticket'[t] = ticket[t]

(* The race between try_start() and cancel() has one winner for ever:      *)
(* neither call moves a ticket out of kStarted or kCancelled.              *)
RaceHasOneWinner == [][KeepsWinner]_vars

=============================================================================
