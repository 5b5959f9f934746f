-------------------------- MODULE RequestPathProofs --------------------------
(***************************************************************************)
(* The request registry keeps its promises for every set of keys and       *)
(* tickets, every capacity and every retention; and the two servers'       *)
(* registries together keep RequestPromise, for every number of requests   *)
(* and of restarts of the User server.                                     *)
(***************************************************************************)
EXTENDS RequestPath, FiniteSetTheorems, TLAPS

-----------------------------------------------------------------------------
(* The registry *)

(* The inductive invariant.  The disjointness of the maps needs the size   *)
(* bounds nowhere, but finish() keeps terminal_ disjoint from active_ only *)
(* because its key leaves active_, and the history of finished tickets     *)
(* needs the types of both maps.                                           *)
RegistryInv ==
  /\ TypeOK
  /\ ActiveTerminalDisjoint
  /\ CapacityRespected
  /\ ReachableUntilFinished

(* A set of keys is finite: its size is a natural number, and a subset of  *)
(* it is smaller unless it is the whole set.                               *)
LEMMA KeySetSize ==
  ASSUME NEW S \in SUBSET Keys
  PROVE  /\ Cardinality(S) \in Nat
         /\ \A T \in SUBSET S : /\ Cardinality(T) <= Cardinality(S)
                                /\ Cardinality(T) = Cardinality(S) => T = S
<1>1. IsFiniteSet(S)
  BY FS_Subset, RegistryAssumption
<1>2. Cardinality(S) \in Nat
  BY <1>1, FS_CardinalityType
<1>3. ASSUME NEW T \in SUBSET S
      PROVE  /\ Cardinality(T) <= Cardinality(S)
             /\ Cardinality(T) = Cardinality(S) => T = S
  BY <1>1, FS_Subset
<1> QED BY <1>2, <1>3

(* Adding a key to a set of keys, or removing one of its members, moves    *)
(* its size by at most one.                                                *)
LEMMA KeySetStep ==
  ASSUME NEW S \in SUBSET Keys, NEW k
  PROVE  /\ Cardinality(S \cup {k}) \in Nat
         /\ Cardinality(S \cup {k}) <= Cardinality(S) + 1
         /\ k \in S => Cardinality(S \ {k}) = Cardinality(S) - 1
<1>1. IsFiniteSet(S)
  BY FS_Subset, RegistryAssumption
<1>2. Cardinality(S) \in Nat
  BY KeySetSize
<1>3. Cardinality(S \cup {k}) = IF k \in S THEN Cardinality(S) ELSE Cardinality(S) + 1
  BY <1>1, FS_AddElement
<1>4. Cardinality(S \ {k}) = IF k \in S THEN Cardinality(S) - 1 ELSE Cardinality(S)
  BY <1>1, FS_RemoveElement
<1> QED BY <1>2, <1>3, <1>4

(* The times a call can carry are naturals no later than the clock.        *)
LEMMA NowInPast ==
  ASSUME clock \in Nat, NEW now \in Now
  PROVE  now \in Nat /\ now <= clock
BY DEF Now

(* prune(now) keeps exactly the records that expire after now.             *)
LEMMA PrunedTable ==
  ASSUME TypeOK, NEW now \in Nat
  PROVE  /\ DOMAIN Pruned(now) = {k \in DOMAIN terminal : now < terminal[k]}
         /\ \A k \in DOMAIN Pruned(now) : Pruned(now)[k] = terminal[k]
         /\ Size(Pruned(now)) \in Nat
         /\ Size(Pruned(now)) <= Size(terminal)
         /\ Size(Pruned(now)) = Size(terminal) => DOMAIN Pruned(now) = DOMAIN terminal
<1>1. /\ DOMAIN Pruned(now) = {k \in DOMAIN terminal : now < terminal[k]}
      /\ \A k \in DOMAIN Pruned(now) : Pruned(now)[k] = terminal[k]
  BY DEF TypeOK, Pruned, Without
<1>2. DOMAIN terminal \in SUBSET Keys /\ DOMAIN Pruned(now) \in SUBSET DOMAIN terminal
  BY <1>1 DEF TypeOK
<1>3. DOMAIN Pruned(now) \in SUBSET Keys
  BY <1>2
<1>4. /\ Size(Pruned(now)) \in Nat
      /\ Size(Pruned(now)) <= Size(terminal)
      /\ Size(Pruned(now)) = Size(terminal) => DOMAIN Pruned(now) = DOMAIN terminal
  BY <1>2, <1>3, KeySetSize DEF Size
<1> QED BY <1>1, <1>4

(* What every call sees after prune(now): a table within capacity that is  *)
(* part of terminal_, without records that are still valid by the clock,   *)
(* and that is full only if terminal_ was full and lost nothing.           *)
LEMMA PrunedWithin ==
  ASSUME TypeOK, CapacityRespected, NEW now \in Now
  PROVE  /\ now \in Nat
         /\ DOMAIN Pruned(now) \in SUBSET Keys
         /\ DOMAIN Pruned(now) \subseteq DOMAIN terminal
         /\ \A j \in DOMAIN Pruned(now) : /\ Pruned(now)[j] = terminal[j]
                                          /\ Pruned(now)[j] \in Nat
         /\ Size(Pruned(now)) <= Capacity
         /\ \A j \in DOMAIN terminal : j \notin DOMAIN Pruned(now) => clock >= terminal[j]
         /\ Size(Pruned(now)) = Capacity =>
              Size(terminal) = Capacity /\ DOMAIN Pruned(now) = DOMAIN terminal
<1>1. now \in Nat /\ now <= clock /\ clock \in Nat
  BY NowInPast DEF TypeOK
<1>2. /\ DOMAIN Pruned(now) = {j \in DOMAIN terminal : now < terminal[j]}
      /\ \A j \in DOMAIN Pruned(now) : Pruned(now)[j] = terminal[j]
      /\ Size(Pruned(now)) \in Nat
      /\ Size(Pruned(now)) <= Size(terminal)
      /\ Size(Pruned(now)) = Size(terminal) => DOMAIN Pruned(now) = DOMAIN terminal
  BY <1>1, PrunedTable
<1>3. /\ DOMAIN terminal \in SUBSET Keys
      /\ \A j \in DOMAIN terminal : terminal[j] \in Nat
  BY DEF TypeOK
<1>4. Size(terminal) \in Nat /\ Size(terminal) <= Capacity
  BY <1>3, KeySetSize DEF Size, CapacityRespected
<1> QED BY <1>1, <1>2, <1>3, <1>4, RegistryAssumption

(* remember(id, now) on a table within capacity leaves one within          *)
(* capacity; it loses no record unless the table is full, and then only an *)
(* oldest one.                                                             *)
LEMMA RememberTable ==
  ASSUME NEW table, DOMAIN table \in SUBSET Keys,
         \A k \in DOMAIN table : table[k] \in Nat,
         Size(table) <= Capacity,
         NEW id \in Keys, NEW now \in Nat, NEW new \in Remember(table, id, now)
  PROVE  /\ DOMAIN new \subseteq DOMAIN table \cup {id}
         /\ \A k \in DOMAIN new : new[k] \in Nat
         /\ Size(new) <= Capacity
         /\ \A k \in DOMAIN table :
              k \notin DOMAIN new => Size(table) = Capacity /\ k \in Oldest(table)
<1> USE RegistryAssumption
<1>0. Size(table) \in Nat
  BY KeySetSize DEF Size
<1>1. CASE Capacity = 0
  BY <1>1 DEF Remember
<1>2. CASE Capacity # 0 /\ Size(table) < Capacity
  <2>1. new = With(Without(table, {}), id, now + Retention)
    BY <1>0, <1>2 DEF Remember
  <2>2. /\ DOMAIN new = DOMAIN table \cup {id}
        /\ \A k \in DOMAIN new : new[k] \in Nat
    BY <2>1 DEF With, Without
  <2>3. Size(new) <= Capacity
    <3>1. /\ Cardinality(DOMAIN table \cup {id}) \in Nat
          /\ Cardinality(DOMAIN table \cup {id}) <= Cardinality(DOMAIN table) + 1
      BY KeySetStep
    <3> QED BY <1>0, <1>2, <2>2, <3>1 DEF Size
  <2> QED BY <2>2, <2>3
<1>3. CASE Capacity # 0 /\ Size(table) >= Capacity
  <2>1. PICK o \in Oldest(table) : new = With(Without(table, {o}), id, now + Retention)
    BY <1>3 DEF Remember
  <2>2. o \in DOMAIN table
    BY DEF Oldest
  <2>3. /\ DOMAIN new = (DOMAIN table \ {o}) \cup {id}
        /\ \A k \in DOMAIN new : new[k] \in Nat
    BY <2>1 DEF With, Without
  <2>4. Cardinality(DOMAIN table \ {o}) = Cardinality(DOMAIN table) - 1
    BY <2>2, KeySetStep
  <2>5. DOMAIN table \ {o} \in SUBSET Keys
    OBVIOUS
  <2>6. /\ Cardinality(DOMAIN new) \in Nat
        /\ Cardinality(DOMAIN new) <= Cardinality(DOMAIN table \ {o}) + 1
    BY <2>3, <2>5, KeySetStep
  <2>7. Size(new) <= Capacity
    BY <1>0, <2>4, <2>6 DEF Size
  <2> QED BY <1>0, <1>3, <2>3, <2>7
<1> QED BY <1>0, <1>1, <1>2, <1>3

(* The empty registry satisfies the invariant.                             *)
LEMMA RegistryInit == Init => RegistryInv
<1>1. Cardinality({}) = 0
  BY FS_EmptySet
<1>2. ASSUME Init PROVE DOMAIN active = {} /\ DOMAIN terminal = {} /\ DOMAIN holder = {}
  BY <1>2 DEF Init, EmptyMap
<1>3. ASSUME Init PROVE TypeOK
  BY <1>2, <1>3 DEF Init, TypeOK, TicketState
<1> QED
  BY <1>1, <1>2, <1>3, RegistryAssumption
     DEF RegistryInv, ActiveTerminalDisjoint, CapacityRespected, Size,
         ReachableUntilFinished

(* Every method of the registry, and the ticket's own transitions,         *)
(* preserve the invariant.                                                 *)
LEMMA RegistryStep == RegistryInv /\ [Next]_vars => RegistryInv'
<1> SUFFICES ASSUME RegistryInv, [Next]_vars PROVE RegistryInv'
  OBVIOUS
<1> USE DEF RegistryInv
<1>0. /\ DOMAIN active \in SUBSET Keys
      /\ DOMAIN terminal \in SUBSET Keys
      /\ Size(active) \in Nat /\ Size(terminal) \in Nat
  BY KeySetSize DEF TypeOK, Size
<1>1. ASSUME NEW k \in Keys, NEW t \in Tickets, NEW now \in Now, Admit(k, t, now)
      PROVE  RegistryInv'
  <2>1. /\ DOMAIN active' = DOMAIN active \cup {k}
        /\ \A j \in DOMAIN active' : active'[j] = IF j = k THEN t ELSE active[j]
        /\ k \notin DOMAIN active
        /\ k \notin DOMAIN terminal'
        /\ Size(active) < Capacity
    BY <1>0, <1>1, RegistryAssumption DEF Admit, Refusable, With
  <2>2. /\ DOMAIN terminal' \subseteq DOMAIN terminal
        /\ \A j \in DOMAIN terminal' : terminal'[j] = terminal[j]
        /\ Size(terminal') <= Capacity
    BY <1>1, PrunedWithin DEF Admit, Size
  <2>3. /\ DOMAIN holder' = DOMAIN holder \cup {t}
        /\ \A u \in DOMAIN holder' : holder'[u] = IF u = t THEN k ELSE holder[u]
        /\ t \notin DOMAIN holder
        /\ finished' = finished
    BY <1>1 DEF Admit, With, TypeOK
  <2>4. TypeOK'
    BY <1>1, <2>1, <2>2, <2>3 DEF TypeOK, Admit, TicketState
  <2>5. Size(active') <= Capacity
    <3>1. /\ Cardinality(DOMAIN active \cup {k}) \in Nat
          /\ Cardinality(DOMAIN active \cup {k}) <= Cardinality(DOMAIN active) + 1
      BY <1>0, KeySetStep
    <3> QED BY <1>0, <2>1, <3>1, RegistryAssumption DEF Size
  <2>6. ReachableUntilFinished'
    BY <2>1, <2>3 DEF ReachableUntilFinished, TypeOK
  <2> QED
    BY <2>1, <2>2, <2>4, <2>5, <2>6 DEF ActiveTerminalDisjoint, CapacityRespected
<1>2. ASSUME NEW k \in Keys, NEW now \in Now, Refuse(k, now)
      PROVE  RegistryInv'
  <2>2. /\ DOMAIN terminal' \subseteq DOMAIN terminal
        /\ \A j \in DOMAIN terminal' : terminal'[j] = terminal[j]
        /\ Size(terminal') <= Capacity
    BY <1>2, PrunedWithin DEF Refuse, Size
  <2> QED
    BY <1>2, <2>2 DEF Refuse, TypeOK, ActiveTerminalDisjoint, CapacityRespected, Size,
                      ReachableUntilFinished
<1>3. ASSUME NEW k \in Keys, NEW now \in Now, Cancel(k, now)
      PROVE  RegistryInv'
  <2>1. now \in Nat
    BY NowInPast DEF TypeOK
  <2>2. /\ DOMAIN Pruned(now) \in SUBSET Keys
        /\ DOMAIN Pruned(now) \subseteq DOMAIN terminal
        /\ \A j \in DOMAIN Pruned(now) : Pruned(now)[j] \in Nat
        /\ Size(Pruned(now)) <= Capacity
    BY PrunedWithin
  <2>3. UNCHANGED <<clock, active, holder, finished>>
    BY <1>3 DEF Cancel
  <2>4. CASE k \in DOMAIN active
    <3>1. /\ terminal' = Pruned(now)
          /\ ticket' = [ticket EXCEPT ![active[k]] =
                          IF @ = "queued" THEN "cancelled" ELSE @]
      BY <1>3, <2>4 DEF Cancel
    <3>2. /\ ticket' \in [Tickets -> TicketState]
          /\ \A u \in Tickets : ticket'[u] # "unused" <=> ticket[u] # "unused"
      BY <2>4, <3>1 DEF TypeOK, TicketState
    <3>3. TypeOK'
      BY <2>2, <2>3, <3>1, <3>2 DEF TypeOK
    <3> QED
      BY <2>2, <2>3, <3>1, <3>3
         DEF ActiveTerminalDisjoint, CapacityRespected, Size, ReachableUntilFinished
  <2>5. CASE k \notin DOMAIN active
    <3>1. /\ ticket' = ticket
          /\ \/ terminal' = Pruned(now)
             \/ terminal' \in Remember(Pruned(now), k, now)
      BY <1>3, <2>5 DEF Cancel
    <3>2. /\ DOMAIN terminal' \subseteq DOMAIN terminal \cup {k}
          /\ \A j \in DOMAIN terminal' : terminal'[j] \in Nat
          /\ Size(terminal') <= Capacity
      <4>1. CASE terminal' = Pruned(now)
        BY <2>2, <4>1 DEF Size
      <4>2. CASE terminal' \in Remember(Pruned(now), k, now)
        BY <2>1, <2>2, <4>2, RememberTable
      <4> QED BY <3>1, <4>1, <4>2
    <3>3. TypeOK'
      BY <2>3, <3>1, <3>2 DEF TypeOK
    <3> QED
      BY <2>3, <2>5, <3>1, <3>2, <3>3
         DEF ActiveTerminalDisjoint, CapacityRespected, Size, ReachableUntilFinished
  <2> QED BY <2>4, <2>5
<1>4. ASSUME NEW t \in Held, TryStart(t)
      PROVE  RegistryInv'
  <2>1. /\ ticket' \in [Tickets -> TicketState]
        /\ \A u \in Tickets : ticket'[u] # "unused" <=> ticket[u] # "unused"
    BY <1>4 DEF TryStart, TypeOK, TicketState, Held
  <2>2. UNCHANGED <<clock, active, terminal, holder, finished>>
    BY <1>4 DEF TryStart
  <2> QED
    BY <2>1, <2>2 DEF TypeOK, ActiveTerminalDisjoint, CapacityRespected, Size,
                      ReachableUntilFinished
<1>5. ASSUME NEW t \in Held, NEW now \in Now, Finish(holder[t], t, now)
      PROVE  RegistryInv'
  <2> DEFINE k == holder[t]
  <2>1. now \in Nat /\ k \in Keys /\ t \in Tickets
    BY NowInPast DEF TypeOK, Held
  <2>2. /\ DOMAIN Pruned(now) \in SUBSET Keys
        /\ DOMAIN Pruned(now) \subseteq DOMAIN terminal
        /\ \A j \in DOMAIN Pruned(now) : Pruned(now)[j] \in Nat
        /\ Size(Pruned(now)) <= Capacity
    BY PrunedWithin
  <2>3. /\ k \in DOMAIN active /\ active[k] = t
        /\ DOMAIN active' = DOMAIN active \ {k}
        /\ \A j \in DOMAIN active' : active'[j] = active[j]
        /\ finished' = finished \cup {t}
        /\ UNCHANGED <<clock, ticket, holder>>
    BY <1>5 DEF Finish, Without
  <2>4. /\ DOMAIN terminal' \subseteq DOMAIN terminal \cup {k}
        /\ \A j \in DOMAIN terminal' : terminal'[j] \in Nat
        /\ Size(terminal') <= Capacity
    <3>1. terminal' \in Remember(Pruned(now), k, now)
      BY <1>5 DEF Finish
    <3> HIDE DEF k
    <3> QED BY <2>1, <2>2, <3>1, RememberTable
  <2>5. TypeOK'
    BY <2>3, <2>4, <2>1 DEF TypeOK, Held
  <2>6. Size(active') <= Capacity
    <3>1. Cardinality(DOMAIN active \ {k}) <= Cardinality(DOMAIN active)
      BY <1>0, KeySetSize
    <3>2. Cardinality(DOMAIN active \ {k}) \in Nat
      BY <1>0, KeySetSize
    <3> QED BY <1>0, <2>3, <3>1, <3>2, RegistryAssumption DEF Size, CapacityRespected
  <2>7. ReachableUntilFinished'
    BY <2>3 DEF ReachableUntilFinished, TypeOK, Held
  <2> QED
    BY <2>3, <2>4, <2>5, <2>6, <2>7 DEF ActiveTerminalDisjoint, CapacityRespected
<1>6. CASE Tick
  BY <1>6 DEF Tick, TypeOK, ActiveTerminalDisjoint, CapacityRespected, Size,
              ReachableUntilFinished
<1>7. CASE UNCHANGED vars
  BY <1>7 DEF vars, TypeOK, ActiveTerminalDisjoint, CapacityRespected, Size,
              ReachableUntilFinished
<1> QED
  BY <1>1, <1>2, <1>3, <1>4, <1>5, <1>6, <1>7 DEF Next, FinishStale

(* The registry's safety: its maps stay typed, disjoint and within         *)
(* capacity, and a ticket is reachable through active_ exactly until       *)
(* finish() has consumed it.                                               *)
THEOREM RegistryInvariant == Spec => []RegistryInv
BY RegistryInit, RegistryStep, PTL DEF Spec

(* The registry never re-admits a remembered key before its time and loses *)
(* a record early only by evicting an oldest one from a full table, for    *)
(* every capacity, retention and delay between reading the clock and       *)
(* taking the lock.                                                        *)
THEOREM RegistrySuppressesDuplicates == Spec => DuplicatesSuppressed
<1>1. RegistryInv /\ [Next]_vars => [KeepsRecords]_vars
  <2> SUFFICES ASSUME RegistryInv, Next PROVE KeepsRecords
    OBVIOUS
  <2> USE DEF RegistryInv
  <2>0. ASSUME NEW k \in Keys, NEW now \in Now,
               terminal' \in Remember(Pruned(now), k, now),
               NEW j \in DOMAIN terminal, j \notin DOMAIN terminal'
        PROVE  \/ clock >= terminal[j]
               \/ Size(terminal) = Capacity /\ j \in Oldest(terminal)
    <3>1. CASE j \notin DOMAIN Pruned(now)
      BY <3>1, PrunedWithin
    <3>2. CASE j \in DOMAIN Pruned(now)
      <4>1. Size(Pruned(now)) = Capacity /\ j \in Oldest(Pruned(now))
        BY <2>0, <3>2, PrunedWithin, RememberTable
      <4> QED BY <4>1, PrunedWithin DEF Oldest
    <3> QED BY <3>1, <3>2
  <2>1. ASSUME NEW k \in Keys, NEW t \in Tickets, NEW now \in Now, Admit(k, t, now)
        PROVE  KeepsRecords
    <3>1. /\ terminal' = Pruned(now)
          /\ DOMAIN active' = DOMAIN active \cup {k}
          /\ k \notin DOMAIN Pruned(now)
      BY <2>1 DEF Admit, Refusable, With
    <3> QED BY <3>1, PrunedWithin DEF ActiveTerminalDisjoint, KeepsRecords
  <2>2. ASSUME NEW k \in Keys, NEW now \in Now, Refuse(k, now)
        PROVE  KeepsRecords
    BY <2>2, PrunedWithin DEF Refuse, ActiveTerminalDisjoint, KeepsRecords
  <2>3. ASSUME NEW k \in Keys, NEW now \in Now, Cancel(k, now)
        PROVE  KeepsRecords
    <3>1. /\ active' = active
          /\ \/ terminal' = Pruned(now)
             \/ terminal' \in Remember(Pruned(now), k, now)
      BY <2>3 DEF Cancel
    <3> QED BY <2>0, <3>1, PrunedWithin DEF ActiveTerminalDisjoint, KeepsRecords
  <2>4. ASSUME NEW t \in Held, TryStart(t)
        PROVE  KeepsRecords
    BY <2>4 DEF TryStart, ActiveTerminalDisjoint, KeepsRecords
  <2>5. ASSUME NEW t \in Held, NEW now \in Now, Finish(holder[t], t, now)
        PROVE  KeepsRecords
    <3>1. /\ DOMAIN active' \subseteq DOMAIN active
          /\ terminal' \in Remember(Pruned(now), holder[t], now)
      BY <2>5 DEF Finish, Without
    <3>2. holder[t] \in Keys
      BY DEF TypeOK, Held
    <3> QED BY <2>0, <3>1, <3>2 DEF ActiveTerminalDisjoint, KeepsRecords
  <2>6. ASSUME NEW t \in Held, NEW now \in Now, FinishStale(holder[t], t, now)
        PROVE  KeepsRecords
    BY <2>6 DEF FinishStale, vars, ActiveTerminalDisjoint, KeepsRecords
  <2>7. CASE Tick
    BY <2>7 DEF Tick, ActiveTerminalDisjoint, KeepsRecords
  <2> QED BY <2>1, <2>2, <2>3, <2>4, <2>5, <2>6, <2>7 DEF Next
<1> QED
  BY <1>1, RegistryInvariant, PTL DEF Spec, DuplicatesSuppressed

(* The race between try_start() and cancel() has one winner for ever.      *)
THEOREM RegistryOneWinner == Spec => RaceHasOneWinner
<1>1. RegistryInv /\ [Next]_vars => [KeepsWinner]_vars
  <2> SUFFICES ASSUME TypeOK, Next PROVE KeepsWinner
    BY DEF RegistryInv
  <2>1. ASSUME NEW k \in Keys, NEW t \in Tickets, NEW now \in Now, Admit(k, t, now)
        PROVE  KeepsWinner
    BY <2>1 DEF Admit, TypeOK, KeepsWinner
  <2>2. ASSUME NEW k \in Keys, NEW now \in Now, Cancel(k, now)
        PROVE  KeepsWinner
    BY <2>2 DEF Cancel, TypeOK, KeepsWinner
  <2>3. ASSUME NEW t \in Held, TryStart(t)
        PROVE  KeepsWinner
    BY <2>3 DEF TryStart, TypeOK, Held, KeepsWinner
  <2>4. CASE UNCHANGED ticket
    BY <2>4 DEF KeepsWinner
  <2> QED
    BY <2>1, <2>2, <2>3, <2>4 DEF Next, Tick, Refuse, Finish, FinishStale, vars
<1> QED
  BY <1>1, RegistryInvariant, PTL DEF Spec, RaceHasOneWinner

(* The registry's maps, tickets and expiry times keep their types, and a   *)
(* ticket is held exactly when it was handed out.                          *)
THEOREM RegistryTyped == Spec => []TypeOK
BY RegistryInvariant, PTL DEF RegistryInv

(* No key is active and terminal at once (queued_requests.hpp: admit,      *)
(* cancel and finish), for every capacity and retention.                   *)
THEOREM RegistryDisjoint == Spec => []ActiveTerminalDisjoint
BY RegistryInvariant, PTL DEF RegistryInv

(* Neither map ever outgrows capacity_.                                    *)
THEOREM RegistryBounded == Spec => []CapacityRespected
BY RegistryInvariant, PTL DEF RegistryInv

(* "Active tickets stay reachable until the queued operation consumes      *)
(* them".                                                                  *)
THEOREM RegistryReachable == Spec => []ReachableUntilFinished
BY RegistryInvariant, PTL DEF RegistryInv

-----------------------------------------------------------------------------
(* The path *)

(* States of the two threads, messages to the Room server, and what a      *)
(* session can know of a request.                                          *)
Waiters == [pc : {"idle", "take", "call"}, id : Ids \cup {NoId}, now : Nat, late : BOOLEAN]
Timers == [pc : {"off", "wait", "expire", "call"}, now : Nat, expired : SUBSET Ids]
Messages == [op : {"join", "cancel"}, id : Ids]
Known == {"nothing", "response", "timeout", "abandoned"}

USE DEF Waiters, Timers, Messages, Known

(* The joins that the Room server has carried out. *)
AppliedSet == {applied[n] : n \in 1..Len(applied)}

(* Types of what the path moves around, and of the User server's threads.  *)
PathTypes ==
  /\ clock \in Nat
  /\ boot \in Boots
  /\ DOMAIN requests \subseteq Ids /\ DOMAIN deadline \subseteq Ids
  /\ \A id \in DOMAIN requests : requests[id] \in Nat
  /\ timer \in Timers
  /\ waiter \in Waiters
  /\ sending \subseteq Ids
  /\ toRoom \in [Boots -> Seq(Messages)]
  /\ toUser \in Seq(Ids)
  /\ strand \in Seq(Keys) /\ joining \in Seq(Keys)
  /\ issued \subseteq Keys /\ applied \in Seq(Keys)
  /\ told \in [Keys -> Known]
  /\ ticket \in [Tickets -> TicketState]

(* Requests that somebody in the User server has yet to call back: in the  *)
(* table, or with the thread that took them from it.                       *)
Answering == {id \in {waiter.id} : waiter.pc = "call"}

(* Requests of this start: each is issued once, is held in one place at    *)
(* most, and its session has heard nothing while it is held.               *)
Outstanding ==
  /\ \A id \in Ids : <<boot, id>> \in issued <=> id \in DOMAIN deadline
  /\ \A q \in issued : q[1] <= boot
  /\ \A q \in Keys \ issued : told[q] = "nothing"
  /\ DOMAIN requests \cup timer.expired \cup Answering \cup sending \subseteq DOMAIN deadline
  /\ DOMAIN requests \cap timer.expired = {}
  /\ Answering \cap (DOMAIN requests \cup timer.expired) = {}
  /\ \A id \in DOMAIN requests \cup timer.expired \cup Answering :
       told[<<boot, id>>] = "nothing"

(* A join on its way was issued. *)
JoinsIssued ==
  /\ \A b \in Boots : \A n \in 1..Len(toRoom[b]) :
       toRoom[b][n].op = "join" => <<b, toRoom[b][n].id>> \in issued
  /\ \A n \in 1..Len(strand) : strand[n] \in issued

(* Exactly the joins whose ticket was started have been carried out, and   *)
(* responses are about joins of this start that were.                      *)
ResponsesEarned ==
  /\ \A q \in Keys : ticket[q] = "started" <=> q \in AppliedSet
  /\ \A n \in 1..Len(toUser) : <<boot, toUser[n]>> \in AppliedSet
  /\ waiter.pc # "idle" => <<boot, waiter.id>> \in AppliedSet

(* A join on the strand, or under way, holds the ticket of its key.        *)
TicketsHeld ==
  \A q \in {strand[n] : n \in 1..Len(strand)} \cup {joining[n] : n \in 1..Len(joining)} :
    q \in DOMAIN holder /\ holder[q] = q

PathInv == PathTypes /\ Outstanding /\ JoinsIssued /\ ResponsesEarned /\ TicketsHeld

-----------------------------------------------------------------------------

(* SubSeq cuts a sequence and keeps what is in front. *)
LEMMA CutFacts ==
  ASSUME NEW S, NEW s \in Seq(S), NEW k \in 0..Len(s)
  PROVE  /\ SubSeq(s, 1, k) \in Seq(S)
         /\ Len(SubSeq(s, 1, k)) = k
         /\ \A n \in 1..k : SubSeq(s, 1, k)[n] = s[n]
  OBVIOUS

(* Append adds one member to the range of the carried-out joins. *)
LEMMA AppendRange ==
  ASSUME applied \in Seq(Keys), NEW q \in Keys, NEW begun \in BOOLEAN,
         applied' = IF begun THEN Append(applied, q) ELSE applied
  PROVE  applied' \in Seq(Keys) /\ AppliedSet' = AppliedSet \cup {k \in {q} : begun}
<1>1. CASE begun
  <2>1. /\ applied' \in Seq(Keys) /\ Len(applied') = Len(applied) + 1
        /\ applied'[Len(applied) + 1] = q
        /\ \A n \in 1..Len(applied) : n \in 1..Len(applied') /\ applied'[n] = applied[n]
    BY <1>1
  <2>2. Len(applied) \in Nat
    OBVIOUS
  <2>3. AppliedSet' = AppliedSet \cup {q}
    <3>1. \A n \in 1..Len(applied') : n \in 1..Len(applied) \/ n = Len(applied) + 1
      BY <2>1, <2>2
    <3>2. Len(applied) + 1 \in 1..Len(applied')
      BY <2>1, <2>2
    <3> QED BY <2>1, <3>1, <3>2 DEF AppliedSet
  <2> QED BY <1>1, <2>1, <2>3
<1>2. CASE ~begun
  BY <1>2 DEF AppliedSet
<1> QED BY <1>1, <1>2

(* The keys of the path are pairs of a start and an id. *)
LEMMA KeyFacts ==
  /\ Boots \subseteq Nat
  /\ Keys = Boots \X Ids /\ Tickets = Keys
  /\ \A b \in Boots, id \in Ids : Key(b, id) = <<b, id>> /\ <<b, id>> \in Keys
  /\ \A q \in Keys : /\ q[1] \in Boots /\ q[2] \in Ids
                    /\ q = <<q[1], q[2]>> /\ Key(q[1], q[2]) = q
  BY PathAssumption DEF Boots, Key, Identity

(* Before the User server starts there are no requests. *)
LEMMA PathStart == PathInit => PathInv
<1> SUFFICES ASSUME PathInit PROVE PathInv
  OBVIOUS
<1> USE DEF PathInit, Init, Pending!Init
<1>1. PathTypes
  BY KeyFacts, PathAssumption DEF PathTypes, Boots, EmptyMap, Pending!EmptyMap, Pending!TimerOff,
     Pending!NoResponse, TicketState
<1>2. Outstanding
  BY DEF Outstanding, Answering, EmptyMap, Pending!EmptyMap, Pending!TimerOff,
     Pending!NoResponse
<1>3. JoinsIssued
  BY DEF JoinsIssued
<1>4. ResponsesEarned
  BY KeyFacts DEF ResponsesEarned, AppliedSet, Pending!NoResponse
<1>5. TicketsHeld
  BY DEF TicketsHeld
<1> QED BY <1>1, <1>2, <1>3, <1>4, <1>5 DEF PathInv

(* Steps that leave the Room server and the responses alone. *)
LEMMA EarnedKept ==
  ASSUME ResponsesEarned, UNCHANGED <<applied, ticket, boot, toUser, waiter>>
  PROVE  ResponsesEarned'
<1>1. AppliedSet' = AppliedSet
  BY DEF AppliedSet
<1> QED BY <1>1 DEF ResponsesEarned

(* send_request adds a request that has a new id. *)
LEMMA AddRequestInv ==
  ASSUME PathInv, NEW id \in Ids, AddRequest(id)
  PROVE  PathInv'
<1> USE KeyFacts DEF AddRequest, Pending!Add, PathInv, registryVars, pipes, roomVars
<1>1. PathTypes'
  <2>1. \A i \in DOMAIN requests' : requests'[i] \in Nat
    BY PendingAssumption DEF PathTypes, Pending!With
  <2> QED BY Zenon, <2>1 DEF PathTypes, Pending!With
<1>2. Outstanding'
  <2>1. boot \in Boots /\ issued \subseteq Keys
    BY DEF PathTypes
  <2>2. told[<<boot, id>>] = "nothing"
    BY <2>1 DEF Outstanding
  <2>3. /\ DOMAIN requests' = DOMAIN requests \cup {id}
        /\ DOMAIN deadline' = DOMAIN deadline \cup {id}
        /\ id \notin DOMAIN deadline
    BY DEF Pending!With
  <2>4. Answering' = Answering
    BY DEF Answering
  <2>5. \A i \in Ids : <<boot, i>> \in issued' <=> i \in DOMAIN deadline'
    BY <2>3 DEF Outstanding
  <2>6. \A q \in issued' : q[1] <= boot
    BY <2>1 DEF Outstanding
  <2> QED BY <2>1, <2>2, <2>3, <2>4, <2>5, <2>6 DEF Outstanding
<1>3. JoinsIssued'
  BY DEF JoinsIssued
<1>4. ResponsesEarned'
  BY EarnedKept
<1>5. TicketsHeld'
  BY DEF TicketsHeld
<1> QED BY <1>1, <1>2, <1>3, <1>4, <1>5

(* A message to the Room server; a join has been issued. *)
LEMMA ToRoomFacts ==
  ASSUME PathTypes, JoinsIssued, NEW op \in {"join", "cancel"}, NEW id \in Ids,
         ToRoom(op, id), op = "join" => <<boot, id>> \in issued,
         UNCHANGED <<strand, issued>>
  PROVE  /\ toRoom' \in [Boots -> Seq(Messages)]
         /\ JoinsIssued'
<1> DEFINE msg == [op |-> op, id |-> id]
<1>1. /\ toRoom \in [Boots -> Seq(Messages)] /\ boot \in Boots /\ msg \in Messages
      /\ toRoom' = [toRoom EXCEPT ![boot] = Append(@, msg)]
  BY Zenon DEF PathTypes, ToRoom
<1> HIDE DEF Messages, msg
<1>2. toRoom' \in [Boots -> Seq(Messages)]
  BY <1>1
<1>3. ASSUME NEW b \in Boots, NEW n \in 1..Len(toRoom'[b]), toRoom'[b][n].op = "join"
      PROVE  <<b, toRoom'[b][n].id>> \in issued
  <2>1. CASE b = boot /\ n = Len(toRoom[b]) + 1
    <3>1. toRoom'[b][n] = msg
      BY <1>1, <2>1
    <3> QED BY <1>3, <2>1, <3>1 DEF msg
  <2>2. CASE ~(b = boot /\ n = Len(toRoom[b]) + 1)
    <3>1. n \in 1..Len(toRoom[b]) /\ toRoom'[b][n] = toRoom[b][n]
      BY <1>1, <1>3, <2>2
    <3> QED BY <1>3, <3>1 DEF JoinsIssued
  <2> QED BY <2>1, <2>2
<1>4. \A n \in 1..Len(strand') : strand'[n] \in issued'
  BY DEF JoinsIssued
<1> QED BY Zenon, <1>2, <1>3, <1>4 DEF JoinsIssued, Messages

(* channel_.send() of a request that was added. *)
LEMMA SendRequestInv ==
  ASSUME PathInv, NEW id \in Ids, SendRequest(id)
  PROVE  PathInv'
<1> USE KeyFacts DEF SendRequest, PathInv, userVars, registryVars, roomVars, history
<1>1. <<boot, id>> \in issued
  BY DEF Outstanding
<1>2. /\ toRoom' \in [Boots -> Seq(Messages)]
      /\ JoinsIssued'
  BY Zenon, <1>1, ToRoomFacts
<1>3. PathTypes'
  BY Zenon, <1>2 DEF PathTypes
<1>4. Outstanding'
  BY DEF Outstanding, Answering
<1>5. ResponsesEarned'
  BY EarnedKept
<1>6. TicketsHeld'
  BY DEF TicketsHeld
<1> QED BY <1>2, <1>3, <1>4, <1>5, <1>6

(* cancel_request: the session has given the request up. *)
LEMMA CancelRequestInv ==
  ASSUME PathInv, NEW id \in Ids, CancelRequest(id)
  PROVE  PathInv'
<1> USE KeyFacts DEF CancelRequest, Pending!Cancel, PathInv, registryVars, roomVars
<1>1. /\ toRoom' \in [Boots -> Seq(Messages)]
      /\ JoinsIssued'
  BY Zenon, ToRoomFacts
<1>2. /\ told' \in [Keys -> Known]
      /\ \A q \in Keys : q # <<boot, id>> => told'[q] = told[q]
  BY DEF Abandon, PathTypes
<1>3. PathTypes'
  BY Zenon, <1>1, <1>2 DEF PathTypes, Pending!Without
<1>4. Outstanding'
  <2>1. boot \in Boots /\ DOMAIN deadline \subseteq Ids
    BY DEF PathTypes
  <2>2. DOMAIN requests' = DOMAIN requests \ {id}
    BY DEF Pending!Without
  <2>3. <<boot, id>> \in issued /\ id \notin timer.expired \cup Answering
    BY DEF Outstanding
  <2>4. Answering' = Answering
    BY DEF Answering
  <2>5. \A i \in DOMAIN requests' \cup timer.expired \cup Answering : told'[<<boot, i>>] = "nothing"
    BY <1>2, <2>1, <2>2, <2>3 DEF Outstanding
  <2>6. \A q \in Keys \ issued : told'[q] = "nothing"
    BY <1>2, <2>3 DEF Outstanding
  <2> QED BY Zenon, <2>2, <2>4, <2>5, <2>6 DEF Outstanding
<1>5. ResponsesEarned'
  BY EarnedKept
<1>6. TicketsHeld'
  BY DEF TicketsHeld
<1> QED BY <1>1, <1>3, <1>4, <1>5, <1>6

(* The timer's callback, for a request that only the timer holds. *)
LEMMA TimeoutCallbackInv ==
  ASSUME PathInv, NEW id \in Ids, TimeoutCallback(id)
  PROVE  PathInv'
<1> USE KeyFacts DEF TimeoutCallback, Pending!TimerCall, PathInv, registryVars, roomVars
<1>1. /\ toRoom' \in [Boots -> Seq(Messages)]
      /\ JoinsIssued'
  BY Zenon, ToRoomFacts
<1>2. /\ told' \in [Keys -> Known]
      /\ \A q \in Keys : q # <<boot, id>> => told'[q] = told[q]
  BY DEF Tell, PathTypes
<1>3. PathTypes'
  BY Zenon, <1>1, <1>2 DEF PathTypes
<1>4. Outstanding'
  <2>1. boot \in Boots /\ DOMAIN deadline \subseteq Ids
    BY DEF PathTypes
  <2>2. timer'.expired = timer.expired \ {id}
    BY DEF PathTypes
  <2> QED BY <1>2, <2>1, <2>2 DEF Outstanding, Answering
<1>5. ResponsesEarned'
  BY EarnedKept
<1>6. TicketsHeld'
  BY DEF TicketsHeld
<1> QED BY <1>1, <1>3, <1>4, <1>5, <1>6

(* A response reaches the channel's thread; its join was carried out. *)
LEMMA ReceiveResponseInv ==
  ASSUME PathInv, ReceiveResponse
  PROVE  PathInv'
<1> USE DEF ReceiveResponse, Pending!CompleteBegin, PathInv, registryVars, roomVars, history
<1>1. /\ Head(toUser) \in Ids /\ Head(toUser) = toUser[1] /\ 1 \in 1..Len(toUser)
      /\ toUser' \in Seq(Ids)
      /\ \A n \in 1..Len(toUser') : n + 1 \in 1..Len(toUser) /\ toUser'[n] = toUser[n + 1]
  BY DEF PathTypes
<1>2. waiter' = [pc |-> "take", id |-> Head(toUser), now |-> clock, late |-> FALSE]
  BY Zenon DEF Pending!NoResponse
<1>3. PathTypes'
  <2>1. waiter' \in Waiters
    <3>1. clock \in Nat
      BY DEF PathTypes
    <3> HIDE DEF ReceiveResponse, PathInv
    <3> QED BY <1>1, <1>2, <3>1
  <2> QED BY Zenon, <1>1, <2>1 DEF PathTypes
<1>4. Outstanding'
  BY <1>2 DEF Outstanding, Answering
<1>5. JoinsIssued'
  BY DEF JoinsIssued
<1>6. ResponsesEarned'
  <2>1. AppliedSet' = AppliedSet
    BY DEF AppliedSet
  <2>2. <<boot, Head(toUser)>> \in AppliedSet
    BY <1>1 DEF ResponsesEarned
  <2>3. waiter'.id = Head(toUser)
    BY <1>2
  <2>4. \A n \in 1..Len(toUser') : <<boot, toUser'[n]>> \in AppliedSet
    BY <1>1 DEF ResponsesEarned
  <2> HIDE DEF Pending!CompleteBegin
  <2> QED BY <2>1, <2>2, <2>3, <2>4 DEF ResponsesEarned
<1>7. TicketsHeld'
  BY DEF TicketsHeld
<1> QED BY <1>3, <1>4, <1>5, <1>6, <1>7

(* The callback of complete(), for a request that only it holds. *)
LEMMA ResponseCallbackInv ==
  ASSUME PathInv, ResponseCallback
  PROVE  PathInv'
<1> USE KeyFacts DEF ResponseCallback, Pending!CompleteCall, PathInv, registryVars, roomVars
<1> DEFINE id == waiter.id
<1>1. /\ id \in Answering /\ id \in Ids /\ boot \in Boots
      /\ waiter' = [pc |-> "idle", id |-> NoId, now |-> 0, late |-> FALSE]
  BY DEF PathTypes, Outstanding, Answering, Pending!NoResponse
<1>2. /\ toRoom' \in [Boots -> Seq(Messages)]
      /\ JoinsIssued'
  <2>1. CASE waiter.late
    BY Zenon, <1>1, <2>1, ToRoomFacts
  <2>2. CASE ~waiter.late
    BY Zenon, <2>2 DEF PathTypes, JoinsIssued
  <2> QED BY Zenon, <2>1, <2>2
<1>3. /\ told' \in [Keys -> Known]
      /\ \A q \in Keys : q # <<boot, id>> => told'[q] = told[q]
  BY Zenon, <1>1 DEF Tell, PathTypes
<1> HIDE DEF id
<1>4. PathTypes'
  <2>1. waiter' \in Waiters
    BY <1>1
  <2> HIDE DEF Tell, ToRoom
  <2> QED BY Zenon, <1>2, <1>3, <2>1 DEF PathTypes
<1>5. Outstanding'
  <2>1. Answering' = {}
    BY <1>1 DEF Answering
  <2>2. <<boot, id>> \in issued /\ id \notin DOMAIN requests \cup timer.expired
    BY <1>1 DEF Outstanding
  <2>3. \A i \in DOMAIN requests \cup timer.expired : told'[<<boot, i>>] = "nothing"
    BY <1>1, <1>3, <2>2 DEF Outstanding, PathTypes
  <2>4. \A q \in Keys \ issued : told'[q] = "nothing"
    BY <1>3, <2>2 DEF Outstanding
  <2> QED BY <2>1, <2>3, <2>4 DEF Outstanding
<1>6. ResponsesEarned'
  <2>1. AppliedSet' = AppliedSet
    BY DEF AppliedSet
  <2> QED BY <1>1, <2>1 DEF ResponsesEarned
<1>7. TicketsHeld'
  BY DEF TicketsHeld
<1> QED BY <1>2, <1>4, <1>5, <1>6, <1>7

(* The timer takes expired requests from the table. *)
LEMMA TimerStepInv ==
  ASSUME PathInv, TimerStep
  PROVE  PathInv'
<1> USE DEF TimerStep, TableOnly, PathInv, registryVars, roomVars, pipes, history
<1>1. UNCHANGED <<clock, running, waiter, owner, deadline, arrived, outcome, dropped>>
  BY DEF Pending!TimerWake, Pending!TimerExpire, Pending!TimerWait, Pending!TimerExit
<1>2. /\ timer' \in Timers
      /\ DOMAIN requests' \subseteq DOMAIN requests
      /\ timer'.expired \subseteq timer.expired \cup (DOMAIN requests \ DOMAIN requests')
      /\ \A id \in DOMAIN requests' : requests'[id] = requests[id]
  <2>1. CASE Pending!TimerExpire
    <3> DEFINE expired == {id \in DOMAIN requests : timer.now >= requests[id]}
    <3>1. /\ DOMAIN requests' = DOMAIN requests \ expired
          /\ \A id \in DOMAIN requests' : requests'[id] = requests[id]
          /\ timer' = [timer EXCEPT !.pc = "call", !.expired = expired]
      BY <2>1 DEF Pending!TimerExpire, Pending!Without
    <3> QED BY Zenon, <3>1 DEF PathTypes
  <2>2. CASE Pending!TimerWake
    BY Zenon, <2>2 DEF Pending!TimerWake, PathTypes
  <2>3. CASE Pending!TimerWait
    BY Zenon, <2>3 DEF Pending!TimerWait, PathTypes
  <2>4. CASE Pending!TimerExit
    <3>1. timer' = [pc |-> "off", now |-> 0, expired |-> {}] /\ requests' = requests
      BY <2>4 DEF Pending!TimerExit, Pending!TimerOff
    <3> QED BY <3>1
  <2> QED BY <2>1, <2>2, <2>3, <2>4
<1>3. PathTypes'
  BY Zenon, <1>1, <1>2 DEF PathTypes
<1>4. Outstanding'
  <2>1. Answering' = Answering
    BY <1>1 DEF Answering
  <2> QED BY <1>1, <1>2, <2>1 DEF Outstanding
<1>5. JoinsIssued'
  BY DEF JoinsIssued
<1>6. ResponsesEarned'
  BY <1>1, EarnedKept
<1>7. TicketsHeld'
  BY DEF TicketsHeld
<1> QED BY <1>3, <1>4, <1>5, <1>6, <1>7

(* complete() takes the request from the table, or finds none. *)
LEMMA WaiterStepInv ==
  ASSUME PathInv, WaiterStep
  PROVE  PathInv'
<1> USE DEF WaiterStep, TableOnly, PathInv, registryVars, roomVars, pipes, history
<1>1. /\ UNCHANGED <<clock, timer, owner, deadline>>
      /\ waiter.pc = "take"
  BY DEF Pending!CompleteTake, Pending!CompleteUnknown
<1>2. /\ waiter' \in Waiters
      /\ DOMAIN requests' = DOMAIN requests \ Answering'
      /\ Answering' \subseteq DOMAIN requests
      /\ \A id \in DOMAIN requests' : requests'[id] = requests[id]
      /\ waiter'.pc # "idle" => waiter'.id = waiter.id
  <2>1. CASE Pending!CompleteTake
    <3>1. /\ DOMAIN requests' = DOMAIN requests \ {waiter.id}
          /\ \A id \in DOMAIN requests' : requests'[id] = requests[id]
          /\ waiter.id \in DOMAIN requests
      BY <2>1 DEF Pending!CompleteTake, Pending!Without
    <3>2. /\ waiter'.pc = "call" /\ waiter'.id = waiter.id
          /\ waiter' \in Waiters
      <4>1. (waiter.now >= requests[waiter.id]) \in BOOLEAN
        BY <3>1 DEF PathTypes
      <4> DEFINE late == waiter.now >= requests[waiter.id]
      <4>2. waiter' = [waiter EXCEPT !.pc = "call", !.late = late]
        BY <2>1 DEF Pending!CompleteTake
      <4>3. waiter \in Waiters
        BY DEF PathTypes
      <4> HIDE DEF late, WaiterStep, PathInv
      <4> QED BY Zenon, <4>1, <4>2, <4>3 DEF late
    <3> QED BY <3>1, <3>2 DEF Answering
  <2>2. CASE Pending!CompleteUnknown
    <3>1. waiter' = [pc |-> "idle", id |-> NoId, now |-> 0, late |-> FALSE] /\ requests' = requests
      BY Zenon, <2>2 DEF Pending!CompleteUnknown, Pending!NoResponse
    <3> HIDE DEF WaiterStep, PathInv
    <3> QED BY Zenon, <3>1 DEF Answering
  <2> QED BY <2>1, <2>2
<1>3. PathTypes'
  BY Zenon, <1>1, <1>2 DEF PathTypes
<1>4. Outstanding'
  <2> HIDE DEF WaiterStep
  <2>1. UNCHANGED <<boot, issued, told, sending>>
    BY DEF WaiterStep
  <2> QED BY <1>1, <1>2, <2>1 DEF Outstanding
<1>5. JoinsIssued'
  BY DEF JoinsIssued
<1>6. ResponsesEarned'
  <2>1. AppliedSet' = AppliedSet
    BY DEF AppliedSet
  <2>2. UNCHANGED <<boot, ticket, toUser>>
    OBVIOUS
  <2> HIDE DEF WaiterStep
  <2> QED BY <1>1, <1>2, <2>1, <2>2 DEF ResponsesEarned
<1>7. TicketsHeld'
  BY DEF TicketsHeld
<1> QED BY <1>3, <1>4, <1>5, <1>6, <1>7

(* start(), and the beginning of stop(). *)
LEMMA OwnerStepInv ==
  ASSUME PathInv, OwnerStep
  PROVE  PathInv'
<1> USE DEF OwnerStep, TableOnly, PathInv, registryVars, roomVars, pipes, history
<1>1. /\ UNCHANGED <<clock, requests, waiter, deadline>>
      /\ timer'.expired = timer.expired
      /\ timer' \in Timers
  BY Zenon DEF Pending!Start, Pending!StopRequest, PathTypes
<1>2. PathTypes'
  BY Zenon, <1>1 DEF PathTypes
<1>3. Outstanding'
  BY <1>1 DEF Outstanding, Answering
<1>4. JoinsIssued'
  BY DEF JoinsIssued
<1>5. ResponsesEarned'
  BY <1>1, EarnedKept
<1>6. TicketsHeld'
  BY DEF TicketsHeld
<1> QED BY <1>2, <1>3, <1>4, <1>5, <1>6

(* stop() clears the table; a request that a thread holds stays with it. *)
LEMMA StopTableInv ==
  ASSUME PathInv, StopTable
  PROVE  PathInv'
<1> USE KeyFacts DEF StopTable, PathInv, registryVars, roomVars, pipes
<1>1. /\ UNCHANGED <<clock, timer, waiter, deadline>>
      /\ DOMAIN requests' = {}
  BY DEF Pending!StopJoin, Pending!ClearAgain, Pending!EmptyMap
<1> DEFINE cleared == {<<boot, id>> : id \in DOMAIN requests}
<1>2. /\ told' \in [Keys -> Known]
      /\ \A q \in Keys : q \notin cleared => told'[q] = told[q]
  BY DEF Abandon, PathTypes
<1>3. PathTypes'
  BY Zenon, <1>1, <1>2 DEF PathTypes
<1>4. Outstanding'
  <2>1. boot \in Boots /\ DOMAIN deadline \subseteq Ids
    BY DEF PathTypes
  <2>2. Answering' = Answering
    BY <1>1 DEF Answering
  <2>3. \A id \in timer.expired \cup Answering : told'[<<boot, id>>] = "nothing"
    <3> SUFFICES ASSUME NEW id \in timer.expired \cup Answering
                 PROVE  told'[<<boot, id>>] = "nothing"
      OBVIOUS
    <3>1. id \in Ids /\ id \notin DOMAIN requests /\ told[<<boot, id>>] = "nothing"
      BY <2>1 DEF Outstanding
    <3>2. <<boot, id>> \notin cleared
      BY <3>1
    <3> HIDE DEF cleared
    <3> QED BY <1>2, <2>1, <3>1, <3>2
  <2>4. \A q \in Keys \ issued : told'[q] = "nothing"
    <3>1. cleared \subseteq issued
      BY <2>1 DEF Outstanding
    <3> HIDE DEF cleared
    <3> QED BY <1>2, <3>1 DEF Outstanding
  <2> QED BY <1>1, <2>2, <2>3, <2>4 DEF Outstanding
<1>5. JoinsIssued'
  BY DEF JoinsIssued
<1>6. ResponsesEarned'
  BY <1>1, EarnedKept
<1>7. TicketsHeld'
  BY DEF TicketsHeld
<1> QED BY <1>3, <1>4, <1>5, <1>6, <1>7

(* What a closing socket loses is at the end of the pipe. *)
LEMMA LosePipesFacts ==
  ASSUME PathTypes, JoinsIssued, LosePipes, UNCHANGED <<strand, issued>>
  PROVE  /\ toRoom' \in [Boots -> Seq(Messages)]
         /\ JoinsIssued'
         /\ toUser' \in Seq(Ids) /\ Len(toUser') = 0
<1>1. /\ boot \in Boots /\ toRoom \in [Boots -> Seq(Messages)]
      /\ toUser' = <<>>
  BY Zenon DEF PathTypes, LosePipes
<1> HIDE DEF Messages
<1>2. PICK k \in 0..Len(toRoom[boot]) : toRoom' = [toRoom EXCEPT ![boot] = SubSeq(@, 1, k)]
  BY Zenon DEF LosePipes
<1>3. toRoom[boot] \in Seq(Messages)
  BY <1>1
<1>4. /\ SubSeq(toRoom[boot], 1, k) \in Seq(Messages)
      /\ Len(SubSeq(toRoom[boot], 1, k)) = k
      /\ \A n \in 1..k : SubSeq(toRoom[boot], 1, k)[n] = toRoom[boot][n]
  BY <1>3, CutFacts
<1>5. /\ toRoom'[boot] = SubSeq(toRoom[boot], 1, k)
      /\ \A b \in Boots : b # boot => toRoom'[b] = toRoom[b]
      /\ toRoom' \in [Boots -> Seq(Messages)]
  BY <1>1, <1>2, <1>4
<1>6. JoinsIssued'
  <2>1. \A n \in 1..Len(toRoom'[boot]) :
          n \in 1..Len(toRoom[boot]) /\ toRoom'[boot][n] = toRoom[boot][n]
    BY <1>3, <1>4, <1>5
  <2>2. ASSUME NEW b \in Boots, NEW n \in 1..Len(toRoom'[b]), toRoom'[b][n].op = "join"
        PROVE  <<b, toRoom'[b][n].id>> \in issued
    BY Zenon, <1>5, <2>1, <2>2 DEF JoinsIssued
  <2> QED BY <2>2 DEF JoinsIssued
<1>7. toUser' \in Seq(Ids) /\ Len(toUser') = 0
  BY <1>1
<1> QED BY Zenon, <1>5, <1>6, <1>7 DEF Messages

(* stop() closes the channel. *)
LEMMA StopChannelInv ==
  ASSUME PathInv, StopChannel
  PROVE  PathInv'
<1> USE DEF StopChannel, Pending!StopChannel, PathInv, registryVars, roomVars, history
<1>1. /\ toRoom' \in [Boots -> Seq(Messages)]
      /\ JoinsIssued'
      /\ toUser' \in Seq(Ids) /\ Len(toUser') = 0
  BY Zenon, LosePipesFacts
<1>2. PathTypes'
  BY Zenon, <1>1 DEF PathTypes
<1>3. Outstanding'
  BY DEF Outstanding, Answering
<1>4. ResponsesEarned'
  <2>1. AppliedSet' = AppliedSet
    BY DEF AppliedSet
  <2>2. 1..Len(toUser') = {} /\ UNCHANGED <<boot, ticket, waiter>>
    BY <1>1
  <2> HIDE DEF StopChannel
  <2> QED BY <2>1, <2>2 DEF ResponsesEarned
<1>5. TicketsHeld'
  BY DEF TicketsHeld
<1> QED BY <1>1, <1>2, <1>3, <1>4, <1>5

(* The User server is started again: its requests are of a new start, and  *)
(* nobody holds one.                                                       *)
LEMMA RestartInv ==
  ASSUME PathInv, Restart
  PROVE  PathInv'
<1> USE KeyFacts DEF PathInv
<1>1. UNCHANGED <<clock, active, terminal, ticket, holder, finished, strand, joining, route,
                  issued, applied>>
  BY DEF Restart, registryVars, roomVars
<1>2. /\ toRoom' \in [Boots -> Seq(Messages)]
      /\ JoinsIssued'
      /\ toUser' \in Seq(Ids) /\ Len(toUser') = 0
  BY Zenon, <1>1, LosePipesFacts DEF Restart
<1>3. /\ told' \in [Keys -> Known]
      /\ \A q \in Keys \ issued : told'[q] = told[q]
  BY DEF Restart, Abandon, PathTypes
<1>4. /\ boot' \in Boots /\ boot' = boot + 1 /\ boot \in Nat
      /\ DOMAIN requests' = {} /\ DOMAIN deadline' = {} /\ sending' = {}
      /\ timer' = [pc |-> "off", now |-> 0, expired |-> {}]
      /\ waiter' = [pc |-> "idle", id |-> NoId, now |-> 0, late |-> FALSE]
  <2>1. boot \in Boots /\ boot < MaxBoots /\ boot' = boot + 1
    BY DEF Restart, PathTypes
  <2>2. boot' \in Boots /\ boot \in Nat
    BY <2>1, PathAssumption DEF Boots
  <2> QED BY <2>1, <2>2 DEF Restart, EmptyMap, Pending!TimerOff, Pending!NoResponse
<1>5. PathTypes'
  <2>1. /\ timer' \in Timers
        /\ waiter' \in Waiters
    BY Zenon, <1>4
  <2> QED BY Zenon, <1>1, <1>2, <1>3, <1>4, <2>1 DEF PathTypes
<1>6. Outstanding'
  <2>1. Answering' = {}
    BY <1>4 DEF Answering
  <2>2. \A q \in issued : q \in Keys /\ q[1] \in Nat /\ q[1] <= boot
    BY Zenon DEF Outstanding, PathTypes
  <2>3. \A id \in Ids : <<boot', id>> \notin issued
    <3> SUFFICES ASSUME NEW id \in Ids, <<boot', id>> \in issued
                 PROVE  FALSE
      BY Zenon
    <3> QED BY <1>4, <2>2
  <2>4. \A q \in issued : q[1] <= boot'
    BY <1>4, <2>2
  <2>5. timer'.expired = {}
    BY <1>4
  <2>6. \A q \in Keys \ issued : told'[q] = "nothing"
    BY <1>3 DEF Outstanding
  <2> QED BY <1>1, <1>4, <2>1, <2>3, <2>4, <2>5, <2>6 DEF Outstanding
<1>7. ResponsesEarned'
  <2>1. AppliedSet' = AppliedSet
    BY <1>1 DEF AppliedSet
  <2>2. 1..Len(toUser') = {} /\ waiter'.pc = "idle"
    BY <1>2, <1>4
  <2> QED BY <1>1, <2>1, <2>2 DEF ResponsesEarned
<1>8. TicketsHeld'
  BY <1>1 DEF TicketsHeld
<1> QED BY <1>2, <1>5, <1>6, <1>7, <1>8

(* Time passes. *)
LEMMA TimePassesInv ==
  ASSUME PathInv, TimePasses
  PROVE  PathInv'
<1> USE DEF TimePasses, Pending!Tick, Tick, PathInv, roomVars, pipes, history
<1>1. PathTypes'
  <2>1. clock \in Nat /\ clock' = clock + 1
    BY DEF PathTypes
  <2>2. clock' \in Nat
    BY <2>1
  <2>3. UNCHANGED <<boot, requests, deadline, timer, waiter, ticket>>
    OBVIOUS
  <2> HIDE DEF Pending!Tick, Tick
  <2> QED BY Zenon, <2>2, <2>3 DEF PathTypes
<1>2. Outstanding'
  BY DEF Outstanding, Answering
<1>3. JoinsIssued'
  BY DEF JoinsIssued
<1>4. ResponsesEarned'
  BY EarnedKept
<1>5. TicketsHeld'
  BY DEF TicketsHeld
<1> QED BY <1>1, <1>2, <1>3, <1>4, <1>5

(* Taking the first message of a pipe; if it is a join, it was issued. *)
LEMMA ReceiveFacts ==
  ASSUME PathTypes, JoinsIssued, NEW b \in Boots, NEW op, Receive(b, op), UNCHANGED issued
  PROVE  /\ Head(toRoom[b]).id \in Ids
         /\ op = "join" => <<b, Head(toRoom[b]).id>> \in issued
         /\ toRoom' \in [Boots -> Seq(Messages)]
         /\ \A c \in Boots : \A n \in 1..Len(toRoom'[c]) :
              toRoom'[c][n].op = "join" => <<c, toRoom'[c][n].id>> \in issued
<1>1. /\ toRoom \in [Boots -> Seq(Messages)] /\ toRoom[b] # <<>>
      /\ Head(toRoom[b]).op = op
      /\ toRoom' = [toRoom EXCEPT ![b] = Tail(@)]
  BY Zenon DEF PathTypes, Receive
<1>2. /\ Head(toRoom[b]) \in Messages
      /\ Head(toRoom[b]).id \in Ids
      /\ op = "join" => <<b, Head(toRoom[b]).id>> \in issued
  <2> HIDE DEF Messages
  <2>1. /\ Head(toRoom[b]) = toRoom[b][1] /\ 1 \in 1..Len(toRoom[b])
        /\ Head(toRoom[b]) \in Messages
    BY <1>1
  <2>2. op = "join" => <<b, Head(toRoom[b]).id>> \in issued
    BY <1>1, <2>1 DEF JoinsIssued
  <2> QED BY <2>1, <2>2 DEF Messages
<1> HIDE DEF Messages
<1>3. /\ toRoom'[b] = Tail(toRoom[b])
      /\ \A c \in Boots : c # b => toRoom'[c] = toRoom[c]
      /\ toRoom' \in [Boots -> Seq(Messages)]
  BY <1>1
<1>4. \A n \in 1..Len(toRoom'[b]) : n + 1 \in 1..Len(toRoom[b]) /\ toRoom'[b][n] = toRoom[b][n + 1]
  BY <1>1, <1>3
<1>5. ASSUME NEW c \in Boots, NEW n \in 1..Len(toRoom'[c]), toRoom'[c][n].op = "join"
      PROVE  <<c, toRoom'[c][n].id>> \in issued
  BY Zenon, <1>3, <1>4, <1>5 DEF JoinsIssued
<1> QED BY Zenon, <1>2, <1>3, <1>5 DEF Messages

(* admit() hands out a ticket for the key, and the join is posted. *)
LEMMA AdmitJoinInv ==
  ASSUME PathInv, NEW b \in Boots, NEW now, AdmitJoin(b, now)
  PROVE  PathInv'
<1> USE KeyFacts DEF PathInv
<1> DEFINE q == <<b, Head(toRoom[b]).id>>
<1>1. UNCHANGED <<clock, userVars, boot, sending, toUser, joining, issued, applied, told>>
  BY DEF AdmitJoin, Admit, history
<1>2. /\ Head(toRoom[b]).id \in Ids /\ q \in issued /\ q \in Keys
      /\ toRoom' \in [Boots -> Seq(Messages)]
      /\ \A c \in Boots : \A n \in 1..Len(toRoom'[c]) :
           toRoom'[c][n].op = "join" => <<c, toRoom'[c][n].id>> \in issued
  BY Zenon, <1>1, ReceiveFacts DEF AdmitJoin, PathTypes
<1>3. /\ ticket[q] = "unused" /\ ticket' = [ticket EXCEPT ![q] = "queued"]
      /\ holder' = With(holder, q, q)
      /\ strand' = Append(strand, q)
  BY Zenon, <1>2 DEF AdmitJoin, Admit
<1> HIDE DEF q
<1>4. /\ strand' \in Seq(Keys) /\ Len(strand') = Len(strand) + 1
      /\ \A n \in 1..Len(strand') :
           (n \in 1..Len(strand) /\ strand'[n] = strand[n]) \/ strand'[n] = q
  BY <1>2, <1>3 DEF PathTypes
<1>5. PathTypes'
  BY Zenon, <1>1, <1>2, <1>3, <1>4 DEF PathTypes, TicketState, userVars
<1>6. Outstanding'
  BY <1>1 DEF Outstanding, Answering, userVars
<1>7. JoinsIssued'
  BY Zenon, <1>1, <1>2, <1>4 DEF JoinsIssued
<1>8. ResponsesEarned'
  <2>1. AppliedSet' = AppliedSet
    BY <1>1 DEF AppliedSet
  <2>2. \A k \in Keys : ticket'[k] = "started" <=> ticket[k] = "started"
    BY <1>2, <1>3 DEF PathTypes
  <2> QED BY <1>1, <2>1, <2>2 DEF ResponsesEarned, userVars
<1>9. TicketsHeld'
  BY <1>1, <1>3, <1>4 DEF TicketsHeld, With
<1> QED BY <1>5, <1>6, <1>7, <1>8, <1>9

(* admit() refuses, or a cancellation arrives: no ticket is started. *)
LEMMA RefuseOrCancelInv ==
  ASSUME PathInv, NEW b \in Boots, NEW now, RefuseJoin(b, now) \/ CancelJoin(b, now)
  PROVE  PathInv'
<1> USE KeyFacts DEF PathInv
<1>1. UNCHANGED <<clock, userVars, boot, sending, toUser, strand, joining, holder,
                  issued, applied, told>>
  BY Zenon DEF RefuseJoin, Refuse, CancelJoin, Cancel, history, roomVars
<1>2. /\ toRoom' \in [Boots -> Seq(Messages)]
      /\ \A c \in Boots : \A n \in 1..Len(toRoom'[c]) :
           toRoom'[c][n].op = "join" => <<c, toRoom'[c][n].id>> \in issued
  BY Zenon, <1>1, ReceiveFacts DEF RefuseJoin, CancelJoin
<1>3. /\ ticket' \in [Tickets -> TicketState]
      /\ \A k \in Keys : ticket'[k] = "started" <=> ticket[k] = "started"
  <2>1. ticket \in [Keys -> TicketState] /\ Keys = Tickets
    BY DEF PathTypes
  <2>2. \/ ticket' = ticket
        \/ \E t : ticket' = [ticket EXCEPT ![t] = IF @ = "queued" THEN "cancelled" ELSE @]
    BY Zenon DEF RefuseJoin, Refuse, CancelJoin, Cancel
  <2> QED BY <2>1, <2>2 DEF TicketState
<1>4. PathTypes'
  BY Zenon, <1>1, <1>2, <1>3 DEF PathTypes, userVars
<1>5. Outstanding'
  BY <1>1 DEF Outstanding, Answering, userVars
<1>6. JoinsIssued'
  BY <1>1, <1>2 DEF JoinsIssued
<1>7. ResponsesEarned'
  <2>1. AppliedSet' = AppliedSet
    BY <1>1 DEF AppliedSet
  <2> QED BY <1>1, <1>3, <2>1 DEF ResponsesEarned, userVars
<1>8. TicketsHeld'
  BY <1>1 DEF TicketsHeld
<1> QED BY <1>4, <1>5, <1>6, <1>7, <1>8

(* A join is carried out: exactly when its ticket was queued. *)
LEMMA BeginJoinInv ==
  ASSUME PathInv, BeginJoin
  PROVE  PathInv'
<1> USE KeyFacts DEF PathInv
<1> DEFINE q == Head(strand)
           begun == ticket[q] = "queued"
<1>1. UNCHANGED <<clock, userVars, boot, sending, toRoom, toUser, holder, issued, told>>
  BY DEF BeginJoin, TryStart, pipes
<1>2. /\ q \in Keys /\ q = strand[1] /\ 1 \in 1..Len(strand)
      /\ strand' \in Seq(Keys)
      /\ \A n \in 1..Len(strand') : n + 1 \in 1..Len(strand) /\ strand'[n] = strand[n + 1]
  BY DEF BeginJoin, PathTypes
<1>3. /\ ticket' = [ticket EXCEPT ![q] = IF @ = "queued" THEN "started" ELSE @]
      /\ joining' = <<q>>
      /\ applied' = IF begun THEN Append(applied, q) ELSE applied
  BY Zenon, <1>2 DEF BeginJoin, TryStart
<1> HIDE DEF q
<1>4. ticket \in [Keys -> TicketState] /\ Keys = Tickets /\ applied \in Seq(Keys)
  BY DEF PathTypes
<1>5. applied' \in Seq(Keys) /\ AppliedSet' = AppliedSet \cup {k \in {q} : begun}
  BY Zenon, <1>2, <1>3, <1>4, AppendRange
<1>6. PathTypes'
  <2>1. ticket' \in [Tickets -> TicketState]
    BY <1>2, <1>3, <1>4 DEF TicketState
  <2>2. joining' \in Seq(Keys)
    BY <1>2, <1>3
  <2> QED BY Zenon, <1>1, <1>2, <1>5, <2>1, <2>2 DEF PathTypes, userVars
<1>7. Outstanding'
  BY <1>1 DEF Outstanding, Answering, userVars
<1>8. JoinsIssued'
  BY <1>1, <1>2 DEF JoinsIssued
<1>9. ResponsesEarned'
  <2>1. \A k \in Keys : ticket'[k] = IF k = q /\ begun THEN "started" ELSE ticket[k]
    BY <1>2, <1>3, <1>4
  <2>2. \A k \in Keys : ticket[k] = "started" <=> k \in AppliedSet
    BY DEF ResponsesEarned
  <2>3. \A k \in Keys : k \in AppliedSet' <=> (k \in AppliedSet \/ (k = q /\ begun))
    BY <1>5
  <2> HIDE DEF begun
  <2>4. \A k \in Keys : ticket'[k] = "started" <=> k \in AppliedSet'
    BY <2>1, <2>2, <2>3
  <2> QED BY <1>1, <1>5, <2>4 DEF ResponsesEarned, userVars
<1>10. TicketsHeld'
  <2>1. \A n \in 1..Len(joining') : joining'[n] = q
    BY <1>3
  <2>2. q \in DOMAIN holder /\ holder[q] = q
    BY <1>2 DEF TicketsHeld
  <2>3. \A n \in 1..Len(strand') : strand'[n] \in DOMAIN holder /\ holder[strand'[n]] = strand'[n]
    BY <1>2 DEF TicketsHeld
  <2> QED BY <1>1, <2>1, <2>2, <2>3 DEF TicketsHeld
<1> QED BY <1>6, <1>7, <1>8, <1>9, <1>10

(* The answer of a join that was carried out goes to the start it is of. *)
LEMMA CompleteJoinInv ==
  ASSUME PathInv, NEW now, CompleteJoin(now)
  PROVE  PathInv'
<1> USE KeyFacts DEF PathInv
<1> DEFINE q == joining[1]
<1>1. UNCHANGED <<clock, userVars, boot, sending, toRoom, strand, ticket, holder,
                  issued, applied, told>>
  BY DEF CompleteJoin, Finish, history
<1>2. joining' = <<>> /\ q \in Keys
  BY DEF CompleteJoin, PathTypes
<1>3. \/ toUser' = toUser
      \/ ticket[q] = "started" /\ q[1] = boot /\ toUser' = Append(toUser, q[2])
  BY <1>2 DEF CompleteJoin, Identity
<1> HIDE DEF q
<1>4. /\ toUser' \in Seq(Ids)
      /\ \A n \in 1..Len(toUser') :
           \/ n \in 1..Len(toUser) /\ toUser'[n] = toUser[n]
           \/ ticket[q] = "started" /\ q[1] = boot /\ toUser'[n] = q[2]
  <2>1. toUser \in Seq(Ids) /\ q[2] \in Ids
    BY <1>2 DEF PathTypes
  <2>2. CASE toUser' = toUser
    BY <2>1, <2>2
  <2>3. CASE ticket[q] = "started" /\ q[1] = boot /\ toUser' = Append(toUser, q[2])
    <3>1. /\ toUser' \in Seq(Ids) /\ Len(toUser') = Len(toUser) + 1
          /\ Len(toUser) \in Nat /\ toUser'[Len(toUser) + 1] = q[2]
          /\ \A n \in 1..Len(toUser) : toUser'[n] = toUser[n]
      BY <2>1, <2>3
    <3>2. \A n \in 1..Len(toUser') : n \in 1..Len(toUser) \/ n = Len(toUser) + 1
      BY <3>1
    <3> QED BY <2>3, <3>1, <3>2
  <2> QED BY <1>3, <2>2, <2>3
<1>5. PathTypes'
  <2>1. joining' \in Seq(Keys)
    BY <1>2
  <2> QED BY Zenon, <1>1, <1>4, <2>1 DEF PathTypes, userVars
<1>6. Outstanding'
  BY <1>1 DEF Outstanding, Answering, userVars
<1>7. JoinsIssued'
  BY <1>1 DEF JoinsIssued
<1>8. ResponsesEarned'
  <2>1. AppliedSet' = AppliedSet
    BY <1>1 DEF AppliedSet
  <2>2. ticket[q] = "started" /\ q[1] = boot => <<boot, q[2]>> \in AppliedSet
    BY <1>2 DEF ResponsesEarned
  <2>3. \A n \in 1..Len(toUser') : <<boot, toUser'[n]>> \in AppliedSet
    BY <1>4, <2>2 DEF ResponsesEarned
  <2> QED BY <1>1, <2>1, <2>3 DEF ResponsesEarned, userVars
<1>9. TicketsHeld'
  BY <1>1, <1>2 DEF TicketsHeld
<1> QED BY <1>5, <1>6, <1>7, <1>8, <1>9

(* Every step of the path preserves the invariant. *)
LEMMA PathStep == PathInv /\ [PathNext]_pathVars => PathInv'
<1> SUFFICES ASSUME PathInv, [PathNext]_pathVars PROVE PathInv'
  OBVIOUS
<1>1. CASE TimePasses
  BY <1>1, TimePassesInv
<1>2. CASE UserStep
  <2>1. ASSUME NEW id \in Ids, AddRequest(id) \/ SendRequest(id) \/ CancelRequest(id)
        PROVE  PathInv'
    BY <2>1, AddRequestInv, SendRequestInv, CancelRequestInv
  <2>2. CASE Timer
    BY <2>2, TimerStepInv, TimeoutCallbackInv DEF Timer
  <2>3. CASE Waiter
    BY <2>3, WaiterStepInv, ReceiveResponseInv, ResponseCallbackInv DEF Waiter
  <2>4. CASE OwnerStep \/ Stop
    BY <2>4, OwnerStepInv, StopTableInv, StopChannelInv DEF Stop
  <2>5. CASE Restart
    BY <2>5, RestartInv
  <2> QED BY <1>2, <2>1, <2>2, <2>3, <2>4, <2>5 DEF UserStep
<1>3. CASE RoomStep
  <2>1. ASSUME NEW now \in Now, NEW b \in Boots,
               AdmitJoin(b, now) \/ RefuseJoin(b, now) \/ CancelJoin(b, now)
        PROVE  PathInv'
    BY <2>1, AdmitJoinInv, RefuseOrCancelInv
  <2>2. ASSUME NEW now \in Now, CompleteJoin(now)
        PROVE  PathInv'
    BY <2>2, CompleteJoinInv
  <2>3. CASE BeginJoin
    BY <2>3, BeginJoinInv
  <2> QED BY <1>3, <2>1, <2>2, <2>3 DEF RoomStep
<1>4. CASE UNCHANGED pathVars
  <2>1. UNCHANGED <<clock, requests, timer, waiter, deadline, active, terminal, ticket, holder,
                    boot, sending, toRoom, toUser, strand, joining, issued, applied, told>>
    BY <1>4 DEF pathVars, userVars, registryVars, pipes, roomVars, history
  <2>2. ResponsesEarned'
    BY <2>1, EarnedKept DEF PathInv
  <2>3. PathTypes'
    BY Zenon, <2>1 DEF PathInv, PathTypes
  <2>4. Outstanding'
    BY <2>1 DEF PathInv, Outstanding, Answering
  <2>5. JoinsIssued' /\ TicketsHeld'
    BY Zenon, <2>1 DEF PathInv, JoinsIssued, TicketsHeld
  <2> QED BY <2>2, <2>3, <2>4, <2>5 DEF PathInv
<1> QED BY <1>1, <1>2, <1>3, <1>4 DEF PathNext

(* The invariant holds in every state of the path. *)
LEMMA PathAlways == PathSpec => []PathInv
  BY PathStart, PathStep, PTL DEF PathSpec

-----------------------------------------------------------------------------
(* What a step means to the registry and to the promise *)

(* A step of the path is a step of the Room server's registry, or leaves   *)
(* it alone: its keys and tickets are the ones the registry may be called  *)
(* with.                                                                   *)
LEMMA RegistryPart == PathInv /\ [PathNext]_pathVars => [Next]_vars
<1> SUFFICES ASSUME PathInv, [PathNext]_pathVars PROVE [Next]_vars
  OBVIOUS
<1>1. CASE TimePasses
  BY <1>1 DEF TimePasses, Next
<1>2. CASE UserStep
  <2>1. ASSUME NEW id \in Ids, AddRequest(id) \/ SendRequest(id) \/ CancelRequest(id)
        PROVE  UNCHANGED vars
    BY <2>1 DEF AddRequest, SendRequest, CancelRequest, Pending!Add, Pending!Cancel,
       registryVars, vars
  <2>2. CASE Timer
    BY <2>2 DEF Timer, TimerStep, TimeoutCallback, TableOnly, registryVars, vars,
       Pending!TimerWake, Pending!TimerExpire, Pending!TimerWait, Pending!TimerExit,
       Pending!TimerCall
  <2>3. CASE Waiter
    BY <2>3 DEF Waiter, WaiterStep, ReceiveResponse, ResponseCallback, TableOnly, registryVars,
       vars, Pending!CompleteTake, Pending!CompleteUnknown, Pending!CompleteBegin,
       Pending!CompleteCall
  <2>4. CASE OwnerStep \/ Stop
    BY <2>4 DEF OwnerStep, Stop, StopTable, StopChannel, TableOnly, registryVars, vars,
       Pending!Start, Pending!StopRequest, Pending!StopJoin, Pending!ClearAgain,
       Pending!StopChannel
  <2>5. CASE Restart
    BY <2>5 DEF Restart, registryVars, vars
  <2> QED BY <1>2, <2>1, <2>2, <2>3, <2>4, <2>5 DEF UserStep
<1>3. CASE RoomStep
  <2> USE KeyFacts DEF PathInv
  <2>1. ASSUME NEW now \in Now, NEW b \in Boots,
               AdmitJoin(b, now) \/ RefuseJoin(b, now) \/ CancelJoin(b, now)
        PROVE  Next
    <3> DEFINE q == Key(b, Head(toRoom[b]).id)
    <3>1. UNCHANGED issued
      BY <2>1 DEF AdmitJoin, RefuseJoin, CancelJoin, history
    <3>2. Receive(b, "join") \/ Receive(b, "cancel")
      BY Zenon, <2>1 DEF AdmitJoin, RefuseJoin, CancelJoin
    <3>3. q \in Keys /\ q \in Tickets
      BY Zenon, <3>1, <3>2, ReceiveFacts
    <3>4. Admit(q, q, now) \/ Refuse(q, now) \/ Cancel(q, now)
      BY <2>1 DEF AdmitJoin, RefuseJoin, CancelJoin
    <3> HIDE DEF q
    <3> QED BY <3>3, <3>4 DEF Next
  <2>2. ASSUME NEW now \in Now, CompleteJoin(now)
        PROVE  Next
    <3> DEFINE q == joining[1]
    <3>1. q \in Keys /\ 1 \in 1..Len(joining)
      <4>1. joining \in Seq(Keys) /\ joining # <<>>
        BY <2>2 DEF CompleteJoin, PathTypes
      <4> QED BY <4>1
    <3>2. q \in DOMAIN holder /\ holder[q] = q
      BY <3>1 DEF TicketsHeld
    <3>3. Finish(q, q, now)
      BY <2>2, <3>1 DEF CompleteJoin
    <3> HIDE DEF q
    <3> QED BY Zenon, <3>2, <3>3 DEF Next, Held
  <2>3. CASE BeginJoin
    <3> DEFINE q == Head(strand)
    <3>1. q \in Keys /\ q = strand[1] /\ 1 \in 1..Len(strand)
      <4>1. strand \in Seq(Keys) /\ strand # <<>>
        BY <2>3 DEF BeginJoin, PathTypes
      <4> QED BY <4>1
    <3>2. q \in DOMAIN holder
      BY <3>1 DEF TicketsHeld
    <3>3. TryStart(q)
      BY Zenon, <2>3, <3>1 DEF BeginJoin
    <3> HIDE DEF q
    <3> QED BY <3>2, <3>3 DEF Next, Held
  <2> QED BY <1>3, <2>1, <2>2, <2>3 DEF RoomStep
<1>4. CASE UNCHANGED pathVars
  BY <1>4 DEF pathVars, registryVars, vars
<1> QED BY <1>1, <1>2, <1>3, <1>4 DEF PathNext

(* Giving requests up is the promise's Abandon of those of them whose      *)
(* session has heard nothing.                                              *)
LEMMA AbandonPart ==
  ASSUME PathTypes, NEW qs, Abandon(qs), UNCHANGED <<issued, applied>>
  PROVE  Promise!Next
<1> DEFINE rs == {q \in Keys : q \in qs /\ told[q] = "nothing"}
<1>1. told' = [q \in Keys |-> IF q \in rs THEN "abandoned" ELSE told[q]]
  BY DEF Abandon
<1>2. rs \in SUBSET Keys /\ \A q \in rs : told[q] = "nothing"
  OBVIOUS
<1> HIDE DEF rs
<1>3. Promise!Abandon(rs)
  BY <1>1, <1>2 DEF Promise!Abandon
<1> QED BY <1>2, <1>3 DEF Promise!Next

(* The promise's range of the carried-out joins. *)
LEMMA AppliedRange == PathTypes => AppliedSet = Promise!Range(applied)
<1>1. PathTypes => applied \in Seq(Keys)
  BY DEF PathTypes
<1>2. applied \in Seq(Keys) => DOMAIN applied = 1..Len(applied)
  OBVIOUS
<1> QED BY <1>1, <1>2 DEF AppliedSet, Promise!Range

(* A callback is the promise's Tell, for a request that was sent and whose *)
(* session has heard nothing.                                              *)
LEMMA TellPart ==
  ASSUME PathTypes, NEW id \in Ids, NEW what \in {"response", "timeout"},
         Tell(id, what), UNCHANGED <<issued, applied>>,
         <<boot, id>> \in issued, told[<<boot, id>>] = "nothing",
         what = "response" => <<boot, id>> \in AppliedSet
  PROVE  Promise!Next
<1> DEFINE q == <<boot, id>>
<1>1. q \in Keys /\ told' = [told EXCEPT ![q] = what]
  BY Zenon DEF PathTypes, Tell
<1>2. AppliedSet = Promise!Range(applied)
  BY AppliedRange
<1> HIDE DEF q
<1>3. Promise!Tell(q, what)
  BY <1>1, <1>2 DEF Promise!Tell, q
<1> QED BY <1>1, <1>3 DEF Promise!Next

(* A step of the path is one the promise allows, or none that it sees. *)
LEMMA PromisePart == PathInv /\ [PathNext]_pathVars => [Promise!Next]_<<issued, applied, told>>
<1> SUFFICES ASSUME PathInv, [PathNext]_pathVars
             PROVE  [Promise!Next]_<<issued, applied, told>>
  OBVIOUS
<1> USE DEF PathInv
<1>1. CASE TimePasses
  BY <1>1 DEF TimePasses, history
<1>2. ASSUME NEW id \in Ids, AddRequest(id)
      PROVE  Promise!Next
  <2> DEFINE q == <<boot, id>>
  <2>1. q \in Keys /\ q \notin issued
    BY <1>2, KeyFacts DEF AddRequest, Pending!Add, PathTypes, Outstanding
  <2>2. issued' = issued \cup {q} /\ UNCHANGED <<applied, told>>
    BY <1>2 DEF AddRequest
  <2> HIDE DEF q
  <2>3. Promise!Issue(q)
    BY <2>1, <2>2 DEF Promise!Issue
  <2> QED BY <2>1, <2>3 DEF Promise!Next
<1>3. ASSUME NEW id \in Ids, SendRequest(id)
      PROVE  UNCHANGED <<issued, applied, told>>
  BY <1>3 DEF SendRequest, history
<1>4. ASSUME NEW id \in Ids, CancelRequest(id)
      PROVE  Promise!Next
  BY <1>4, AbandonPart DEF CancelRequest
<1>5. CASE Timer
  <2>1. CASE TimerStep
    BY <2>1 DEF TimerStep, TableOnly, history
  <2>2. ASSUME NEW id \in Ids, TimeoutCallback(id)
        PROVE  Promise!Next
    <3>1. /\ id \in timer.expired /\ Tell(id, "timeout") /\ UNCHANGED <<issued, applied>>
      BY <2>2 DEF TimeoutCallback, Pending!TimerCall
    <3>2. <<boot, id>> \in issued /\ told[<<boot, id>>] = "nothing"
      BY <3>1 DEF Outstanding
    <3> QED BY <3>1, <3>2, TellPart
  <2> QED BY <1>5, <2>1, <2>2 DEF Timer
<1>6. CASE Waiter
  <2>1. CASE WaiterStep \/ ReceiveResponse
    BY <2>1 DEF WaiterStep, ReceiveResponse, TableOnly, history
  <2>2. CASE ResponseCallback
    <3> DEFINE id == waiter.id
               what == IF waiter.late THEN "timeout" ELSE "response"
    <3>1. /\ waiter.pc = "call" /\ Tell(id, what) /\ UNCHANGED <<issued, applied>>
      BY <2>2 DEF ResponseCallback, Pending!CompleteCall
    <3>2. id \in DOMAIN deadline /\ id \in Ids /\ told[<<boot, id>>] = "nothing"
      BY <3>1 DEF Outstanding, Answering, PathTypes
    <3>3. <<boot, id>> \in issued /\ <<boot, id>> \in AppliedSet
      BY <3>1, <3>2 DEF Outstanding, ResponsesEarned
    <3>4. what \in {"response", "timeout"}
      OBVIOUS
    <3> HIDE DEF id, what
    <3> QED BY <3>1, <3>2, <3>3, <3>4, TellPart
  <2> QED BY <1>6, <2>1, <2>2 DEF Waiter
<1>7. CASE OwnerStep \/ Stop
  <2>1. CASE OwnerStep \/ StopChannel
    BY <2>1 DEF OwnerStep, StopChannel, TableOnly, history
  <2>2. CASE StopTable
    BY <2>2, AbandonPart DEF StopTable
  <2> QED BY <1>7, <2>1, <2>2 DEF Stop
<1>8. CASE Restart
  BY <1>8, AbandonPart DEF Restart
<1>9. ASSUME NEW now \in Now, NEW b \in Boots,
             AdmitJoin(b, now) \/ RefuseJoin(b, now) \/ CancelJoin(b, now)
      PROVE  UNCHANGED <<issued, applied, told>>
  BY Zenon, <1>9 DEF AdmitJoin, RefuseJoin, CancelJoin, history
<1>10. ASSUME NEW now \in Now, CompleteJoin(now)
       PROVE  UNCHANGED <<issued, applied, told>>
  BY Zenon, <1>10 DEF CompleteJoin, history
<1>11. CASE BeginJoin
  <2> DEFINE q == Head(strand)
  <2>1. q \in Keys /\ q = strand[1] /\ 1 \in 1..Len(strand)
    <3>1. strand \in Seq(Keys) /\ strand # <<>>
      BY <1>11 DEF BeginJoin, PathTypes
    <3> QED BY <3>1
  <2>2. /\ applied' = IF ticket[q] = "queued" THEN Append(applied, q) ELSE applied
        /\ UNCHANGED <<issued, told>>
    BY Zenon, <1>11, <2>1, KeyFacts DEF BeginJoin
  <2>3. q \in issued
    BY <2>1 DEF JoinsIssued
  <2>4. ticket[q] = "queued" => q \notin AppliedSet
    BY <2>1 DEF ResponsesEarned
  <2>5. AppliedSet = Promise!Range(applied)
    BY AppliedRange
  <2> HIDE DEF q
  <2>6. ticket[q] = "queued" => Promise!Apply(q)
    BY <2>2, <2>3, <2>4, <2>5 DEF Promise!Apply
  <2> QED BY Zenon, <2>1, <2>2, <2>6 DEF Promise!Next
<1>12. CASE UNCHANGED pathVars
  BY <1>12 DEF pathVars, history
<1> QED
  BY <1>1, <1>2, <1>3, <1>4, <1>5, <1>6, <1>7, <1>8, <1>9, <1>10, <1>11, <1>12
     DEF PathNext, UserStep, RoomStep

-----------------------------------------------------------------------------

(* The two registries keep the promise between them, for every number of   *)
(* requests and restarts, every timeout, capacity and retention, and every *)
(* loss in the pipes: a join is carried out at most once, and its session  *)
(* is called back at most once, with a response only for a join that was.  *)
THEOREM PathKeepsPromise == PathSpec => RefinesPromise
<1>1. PathInit => Promise!Init
  BY DEF PathInit, Promise!Init
<1> QED BY <1>1, PathAlways, PromisePart, PTL DEF PathSpec, RefinesPromise, Promise!Spec

(* The path uses the Room server's registry as QueuedRequests says it may  *)
(* be used, so that every theorem about the registry holds in the path.    *)
THEOREM PathImplementsRegistry == PathSpec => Spec
<1>1. PathInit => Init
  BY DEF PathInit
<1> QED BY <1>1, PathAlways, RegistryPart, PTL DEF PathSpec, Spec

(* "Active tickets stay reachable until the queued operation consumes      *)
(* them", in the path.                                                     *)
THEOREM PathReachable == PathSpec => []ReachableUntilFinished
BY PathImplementsRegistry, RegistryReachable, PTL

(* The path's registry suppresses duplicates for the retention period. *)
THEOREM PathSuppressesDuplicates == PathSpec => DuplicatesSuppressed
BY PathImplementsRegistry, RegistrySuppressesDuplicates, PTL

-----------------------------------------------------------------------------
(* What the promise leaves open: the route, cancellations, the table *)

(* Only joins that were issued are carried out, and only of those that     *)
(* were carried out a session hears a response.                            *)
Heard ==
  /\ AppliedSet \subseteq issued
  /\ \A q \in Keys : told[q] = "response" => q \in AppliedSet

(* The room's route is that of the last join that was carried out. *)
RouteLatest == route = IF applied = <<>> THEN 0 ELSE applied[Len(applied)][1]

(* No join is twice on the room's strand, and those that wait there have   *)
(* not been finished: their tickets are still in the registry.             *)
StrandUnfinished ==
  /\ \A n \in 1..Len(strand) : strand[n] \notin finished
  /\ \A m, n \in 1..Len(strand) : strand[m] = strand[n] => m = n
  /\ \A m \in 1..Len(joining), n \in 1..Len(strand) : joining[m] # strand[n]

(* A revoked join has not been carried out, and its ticket or a terminal   *)
(* record keeps it from ever being.                                        *)
RevokedKnown ==
  \A q \in revoked :
    /\ q \in Keys /\ q \notin AppliedSet
    /\ q \in DOMAIN terminal \/ ticket[q] = "cancelled"

(* Only issued joins are carried out, and only their responses heard. *)
LEMMA HeardStep ==
  ASSUME PathInv, Heard, [PathNext]_pathVars
  PROVE  Heard'
<1>1. PathTypes /\ PathTypes'
  BY PathStep DEF PathInv
<1>2. AppliedSet = Promise!Range(applied) /\ AppliedSet' = Promise!Range(applied)'
  <2>1. AppliedSet = Promise!Range(applied)
    BY <1>1, AppliedRange
  <2>2. DOMAIN applied' = 1..Len(applied')
    <3>1. applied' \in Seq(Keys)
      BY Zenon, <1>1 DEF PathTypes
    <3> QED BY <3>1
  <2> QED BY Zenon, <2>1, <2>2 DEF AppliedSet, Promise!Range
<1>3. applied \in Seq(Keys) /\ told \in [Keys -> Known]
  BY Zenon, <1>1 DEF PathTypes
<1>4. CASE UNCHANGED <<issued, applied, told>>
  BY Zenon, <1>4 DEF Heard, AppliedSet
<1>5. ASSUME NEW q \in Keys, Promise!Issue(q)
      PROVE  Heard'
  <2>1. issued \subseteq issued' /\ UNCHANGED <<applied, told>>
    BY Zenon, <1>5 DEF Promise!Issue
  <2>2. AppliedSet' = AppliedSet
    BY Zenon, <2>1 DEF AppliedSet
  <2> QED BY Zenon, <2>1, <2>2 DEF Heard
<1>6. ASSUME NEW q \in Keys, Promise!Apply(q)
      PROVE  Heard'
  <2>1. q \in issued /\ applied' = Append(applied, q) /\ UNCHANGED <<issued, told>>
    BY Zenon, <1>6 DEF Promise!Apply
  <2>2. AppliedSet' = AppliedSet \cup {k \in {q} : TRUE}
    BY Zenon, <1>3, <2>1, AppendRange
  <2> QED BY Zenon, <2>1, <2>2 DEF Heard
<1>7. ASSUME NEW q \in Keys, NEW what \in {"response", "timeout"}, Promise!Tell(q, what)
      PROVE  Heard'
  <2>1. /\ what = "response" => q \in AppliedSet
        /\ told' = [told EXCEPT ![q] = what] /\ UNCHANGED <<issued, applied>>
    BY Zenon, <1>2, <1>7 DEF Promise!Tell
  <2>2. AppliedSet' = AppliedSet
    BY Zenon, <2>1 DEF AppliedSet
  <2>3. \A k \in Keys : told'[k] = IF k = q THEN what ELSE told[k]
    BY Zenon, <1>3, <2>1
  <2> QED BY Zenon, <2>1, <2>2, <2>3 DEF Heard
<1>8. ASSUME NEW qs \in SUBSET Keys, Promise!Abandon(qs)
      PROVE  Heard'
  <2>1. /\ told' = [q \in Keys |-> IF q \in qs THEN "abandoned" ELSE told[q]]
        /\ UNCHANGED <<issued, applied>>
    BY Zenon, <1>8 DEF Promise!Abandon
  <2>2. AppliedSet' = AppliedSet
    BY Zenon, <2>1 DEF AppliedSet
  <2>3. \A k \in Keys : told'[k] = "response" => told[k] = "response"
    BY <2>1
  <2> QED BY Zenon, <2>1, <2>2, <2>3 DEF Heard
<1>9. [Promise!Next]_<<issued, applied, told>>
  BY PromisePart
<1> QED BY Zenon, <1>4, <1>5, <1>6, <1>7, <1>8, <1>9 DEF Promise!Next

(* Neither the clock nor the User server changes anything of the Room      *)
(* server's, or of what it remembers of the joins.                         *)
LEMMA UserLeavesRoom ==
  ASSUME TimePasses \/ UserStep \/ UNCHANGED pathVars
  PROVE  UNCHANGED <<active, terminal, ticket, holder, finished, strand, joining, route,
                     applied, revoked>>
<1> USE DEF registryVars, roomVars, history
<1>1. CASE TimePasses \/ UNCHANGED pathVars
  BY Zenon, <1>1 DEF TimePasses, Tick, pathVars
<1>2. ASSUME NEW id \in Ids, AddRequest(id) \/ SendRequest(id) \/ CancelRequest(id)
      PROVE  UNCHANGED <<registryVars, roomVars, applied, revoked>>
  BY Zenon, <1>2 DEF AddRequest, SendRequest, CancelRequest
<1>3. CASE Timer \/ Waiter
  BY Zenon, <1>3 DEF Timer, TimerStep, TimeoutCallback, Waiter, WaiterStep, ReceiveResponse,
     ResponseCallback, TableOnly
<1>4. CASE OwnerStep \/ Stop \/ Restart
  BY Zenon, <1>4 DEF OwnerStep, Stop, StopTable, StopChannel, Restart, TableOnly
<1> QED BY Zenon, <1>1, <1>2, <1>3, <1>4 DEF UserStep

(* What the Room server's steps on a message, and the completion, leave    *)
(* alone.                                                                  *)
LEMMA RoomKeepsJoins ==
  ASSUME NEW now, (\E b \in Boots : AdmitJoin(b, now) \/ RefuseJoin(b, now) \/ CancelJoin(b, now))
                  \/ CompleteJoin(now)
  PROVE  UNCHANGED <<route, applied>>
  BY Zenon DEF AdmitJoin, RefuseJoin, CancelJoin, CompleteJoin, roomVars, history

(* The room's task sets the route together with the membership. *)
LEMMA RouteStep ==
  ASSUME PathInv, RouteLatest, [PathNext]_pathVars
  PROVE  RouteLatest'
<1>1. CASE TimePasses \/ UserStep \/ UNCHANGED pathVars
  BY Zenon, <1>1, UserLeavesRoom DEF RouteLatest
<1>2. ASSUME NEW now \in Now,
             (\E b \in Boots : AdmitJoin(b, now) \/ RefuseJoin(b, now) \/ CancelJoin(b, now))
             \/ CompleteJoin(now)
      PROVE  RouteLatest'
  BY Zenon, <1>2, RoomKeepsJoins DEF RouteLatest
<1>3. CASE BeginJoin
  <2> DEFINE q == Head(strand)
             begun == ticket[q] = "queued"
  <2>1. strand \in Seq(Keys) /\ strand # <<>> /\ applied \in Seq(Keys)
    BY Zenon, <1>3 DEF BeginJoin, PathInv, PathTypes
  <2>2. q \in Keys
    BY <2>1
  <2>3. /\ applied' = IF begun THEN Append(applied, q) ELSE applied
        /\ route' = IF begun THEN q[1] ELSE route
    BY Zenon, <1>3, <2>2, KeyFacts DEF BeginJoin, Identity
  <2> HIDE DEF q
  <2>4. CASE begun
    <3>1. applied' # <<>> /\ applied'[Len(applied')] = q
      BY <2>1, <2>2, <2>3, <2>4
    <3> QED BY Zenon, <2>3, <2>4, <3>1 DEF RouteLatest
  <2>5. CASE ~begun
    BY Zenon, <2>3, <2>5 DEF RouteLatest
  <2> QED BY <2>4, <2>5
<1> QED BY Zenon, <1>1, <1>2, <1>3 DEF PathNext, RoomStep

(* Joins are posted with a fresh ticket, leave the strand for the task     *)
(* that carries them out, and are finished by its completion.              *)
LEMMA StrandStep ==
  ASSUME PathInv, StrandUnfinished, TypeOK, [PathNext]_pathVars
  PROVE  StrandUnfinished'
<1>0. strand \in Seq(Keys) /\ joining \in Seq(Keys) /\ Len(strand) \in Nat
  <2>1. strand \in Seq(Keys) /\ joining \in Seq(Keys)
    BY Zenon DEF PathInv, PathTypes
  <2> QED BY <2>1
<1>1. CASE TimePasses \/ UserStep \/ UNCHANGED pathVars
  BY Zenon, <1>1, UserLeavesRoom DEF StrandUnfinished
<1>2. ASSUME NEW now \in Now, NEW b \in Boots, AdmitJoin(b, now)
      PROVE  StrandUnfinished'
  <2> DEFINE q == <<b, Head(toRoom[b]).id>>
  <2>1. UNCHANGED <<joining, finished, issued>> /\ Receive(b, "join")
    BY Zenon, <1>2 DEF AdmitJoin, Admit, history
  <2>2. Head(toRoom[b]).id \in Ids
    BY Zenon, <2>1, ReceiveFacts DEF PathInv
  <2>3. q \in Keys /\ strand' = Append(strand, q) /\ ticket[q] = "unused"
    BY Zenon, <1>2, <2>2, KeyFacts DEF AdmitJoin, Admit
  <2> HIDE DEF q
  <2>4. q \notin DOMAIN holder /\ q \notin finished
    BY <2>3, KeyFacts DEF TypeOK
  <2>5. /\ \A n \in 1..Len(strand) : strand[n] # q
        /\ \A n \in 1..Len(joining) : joining[n] # q
    BY Zenon, <2>4 DEF PathInv, TicketsHeld
  <2>6. \A n \in 1..Len(strand') :
          \/ n \in 1..Len(strand) /\ strand'[n] = strand[n]
          \/ n = Len(strand) + 1 /\ strand'[n] = q
    BY <1>0, <2>3
  <2> QED BY Zenon, <2>1, <2>4, <2>5, <2>6 DEF StrandUnfinished
<1>3. ASSUME NEW now \in Now, NEW b \in Boots, RefuseJoin(b, now) \/ CancelJoin(b, now)
      PROVE  StrandUnfinished'
  <2>1. UNCHANGED <<strand, joining, finished>>
    BY Zenon, <1>3 DEF RefuseJoin, CancelJoin, Refuse, Cancel, roomVars
  <2> QED BY Zenon, <2>1 DEF StrandUnfinished
<1>4. ASSUME NEW now \in Now, CompleteJoin(now)
      PROVE  StrandUnfinished'
  <2>1. /\ joining # <<>> /\ joining' = <<>> /\ strand' = strand
        /\ 1 \in 1..Len(joining) /\ joining[1] \in Keys
    BY <1>0, <1>4 DEF CompleteJoin
  <2>2. finished' = finished \cup {joining[1]}
    BY Zenon, <1>4, <2>1, KeyFacts DEF CompleteJoin, Finish
  <2>3. 1..Len(joining') = {}
    BY <2>1
  <2> QED BY Zenon, <2>1, <2>2, <2>3 DEF StrandUnfinished
<1>5. CASE BeginJoin
  <2>1. /\ strand # <<>> /\ strand' = Tail(strand) /\ joining' = <<Head(strand)>>
        /\ finished' = finished
    BY Zenon, <1>5 DEF BeginJoin, TryStart
  <2>2. \A n \in 1..Len(strand') :
          /\ n + 1 \in 1..Len(strand) /\ strand'[n] = strand[n + 1] /\ n + 1 # 1
    BY <1>0, <2>1
  <2>3. /\ 1 \in 1..Len(strand)
        /\ \A m \in 1..Len(joining') : joining'[m] = strand[1]
    BY <1>0, <2>1
  <2>4. \A n \in 1..Len(strand') : strand'[n] \notin finished'
    BY Zenon, <2>1, <2>2 DEF StrandUnfinished
  <2>5. ASSUME NEW m \in 1..Len(strand'), NEW n \in 1..Len(strand'), strand'[m] = strand'[n]
        PROVE  m = n
    <3>1. m + 1 = n + 1
      BY Zenon, <2>2, <2>5 DEF StrandUnfinished
    <3> QED BY <3>1
  <2>6. \A n \in 1..Len(strand') : strand'[n] # strand[1]
    BY Zenon, <2>2, <2>3 DEF StrandUnfinished
  <2> QED BY Zenon, <2>3, <2>4, <2>5, <2>6 DEF StrandUnfinished
<1> QED BY Zenon, <1>1, <1>2, <1>3, <1>4, <1>5 DEF PathNext, RoomStep

(* A join is begun only with a queued ticket, whose key is active and so   *)
(* has no terminal record: it has not been revoked.                        *)
LEMMA RevokedStep ==
  ASSUME PathInv, StrandUnfinished, RevokedKnown, RegistryInv, [PathNext]_pathVars
  PROVE  RevokedKnown'
<1>0. \A q \in Keys : ticket[q] = "started" <=> q \in AppliedSet
  BY Zenon DEF PathInv, ResponsesEarned
<1>1. CASE TimePasses \/ UserStep \/ UNCHANGED pathVars
  BY Zenon, <1>1, UserLeavesRoom DEF RevokedKnown, AppliedSet
<1>2. ASSUME NEW now \in Now, NEW b \in Boots,
             AdmitJoin(b, now) \/ RefuseJoin(b, now) \/ CancelJoin(b, now)
      PROVE  RevokedKnown'
  <2> DEFINE q == <<b, Head(toRoom[b]).id>>
             qs == revoked \cup {k \in {q} : ticket[q] # "started"}
  <2>1. AppliedSet' = AppliedSet
    <3>1. applied' = applied
      BY Zenon, <1>2, RoomKeepsJoins
    <3> QED BY Zenon, <3>1 DEF AppliedSet
  <2>2. q \in Keys /\ Key(b, Head(toRoom[b]).id) = q
    <3>1. UNCHANGED issued /\ (Receive(b, "join") \/ Receive(b, "cancel"))
      BY Zenon, <1>2 DEF AdmitJoin, RefuseJoin, CancelJoin, history
    <3>2. Head(toRoom[b]).id \in Ids
      BY Zenon, <3>1, ReceiveFacts DEF PathInv
    <3> QED BY Zenon, <3>2, KeyFacts
  <2>3. Remembered(revoked) \/ Remembered(qs)
    BY Zenon, <1>2, <2>2 DEF AdmitJoin, RefuseJoin, CancelJoin
  <2> HIDE DEF q
  <2>4. \A k \in qs : k \in Keys /\ k \notin AppliedSet
    BY Zenon, <1>0, <2>2 DEF RevokedKnown
  <2>5. \A k \in revoked' : k \in qs /\ (k \in DOMAIN terminal' \/ ticket'[k] = "cancelled")
    <3>1. \A k \in qs : Key(k[1], k[2]) = k
      BY Zenon, <2>4, KeyFacts
    <3> QED BY Zenon, <2>3, <3>1 DEF Remembered
  <2> QED BY Zenon, <2>1, <2>4, <2>5 DEF RevokedKnown
<1>3. ASSUME NEW now \in Now, CompleteJoin(now)
      PROVE  RevokedKnown'
  <2>1. applied' = applied /\ Remembered(revoked)
    BY Zenon, <1>3 DEF CompleteJoin, history
  <2>2. \A k \in revoked : Key(k[1], k[2]) = k
    BY Zenon, KeyFacts DEF RevokedKnown
  <2> QED BY Zenon, <2>1, <2>2 DEF RevokedKnown, Remembered, AppliedSet
<1>4. CASE BeginJoin
  <2> DEFINE q == Head(strand)
             begun == ticket[q] = "queued"
  <2>1. strand \in Seq(Keys) /\ strand # <<>> /\ applied \in Seq(Keys)
        /\ ticket \in [Keys -> TicketState]
    BY Zenon, <1>4, KeyFacts DEF BeginJoin, PathInv, PathTypes
  <2>2. q \in Keys /\ q = strand[1] /\ 1 \in 1..Len(strand)
    BY <2>1
  <2>3. /\ applied' = IF begun THEN Append(applied, q) ELSE applied
        /\ ticket' = [ticket EXCEPT ![q] = IF @ = "queued" THEN "started" ELSE @]
        /\ UNCHANGED <<terminal, revoked>>
    BY Zenon, <1>4, <2>2, KeyFacts DEF BeginJoin, TryStart
  <2> HIDE DEF q
  <2>4. AppliedSet' = AppliedSet \cup {k \in {q} : begun}
    BY Zenon, <2>1, <2>2, <2>3, AppendRange
  <2>5. q \in DOMAIN active
    <3>1. q \in DOMAIN holder /\ holder[q] = q
      BY Zenon, <2>2 DEF PathInv, TicketsHeld
    <3>2. q \notin finished
      BY Zenon, <2>2 DEF StrandUnfinished
    <3> QED BY Zenon, <3>1, <3>2 DEF RegistryInv, ReachableUntilFinished
  <2>6. q \notin DOMAIN terminal
    BY Zenon, <2>5 DEF RegistryInv, ActiveTerminalDisjoint
  <2>7. begun => q \notin revoked
    <3>1. begun => ticket[q] # "cancelled"
      OBVIOUS
    <3> QED BY Zenon, <2>6, <3>1 DEF RevokedKnown
  <2>8. \A k \in Keys : ticket[k] = "cancelled" => ticket'[k] = "cancelled"
    BY <2>1, <2>2, <2>3
  <2> HIDE DEF begun
  <2> QED BY Zenon, <2>3, <2>4, <2>7, <2>8 DEF RevokedKnown
<1> QED BY Zenon, <1>1, <1>2, <1>3, <1>4 DEF PathNext, RoomStep

(* The four facts hold in every state of the path. *)
LEMMA RoomAlways ==
  PathSpec => [](PathInv /\ Heard /\ RouteLatest /\ StrandUnfinished /\ RevokedKnown)
<1>1. PathInit => Heard /\ RouteLatest /\ StrandUnfinished /\ RevokedKnown
  <2> SUFFICES ASSUME PathInit
               PROVE  Heard /\ RouteLatest /\ StrandUnfinished /\ RevokedKnown
    OBVIOUS
  <2>1. /\ applied = <<>> /\ strand = <<>> /\ joining = <<>> /\ revoked = {} /\ route = 0
        /\ told = [q \in Keys |-> "nothing"]
    BY Zenon DEF PathInit
  <2> QED BY <2>1 DEF Heard, RouteLatest, StrandUnfinished, RevokedKnown, AppliedSet
<1>2. RegistryInv => TypeOK
  BY DEF RegistryInv
<1>3. PathSpec => []RegistryInv
  BY PathImplementsRegistry, RegistryInvariant, PTL
<1>4. /\ PathInv /\ RegistryInv /\ Heard /\ RouteLatest /\ StrandUnfinished /\ RevokedKnown
      /\ [PathNext]_pathVars
      => (Heard /\ RouteLatest /\ StrandUnfinished /\ RevokedKnown)'
  BY Zenon, <1>2, HeardStep, RouteStep, StrandStep, RevokedStep
<1> QED BY <1>1, <1>3, <1>4, PathAlways, PTL DEF PathSpec

(* A join that the Room server knows as cancelled is not carried out, also *)
(* when the cancellation overtook it and only a terminal record tells of   *)
(* it: for every capacity and retention, and however requests,             *)
(* cancellations and restarts of the User server interleave.               *)
THEOREM PathCancelPrevails == PathSpec => []CancelPrevails
<1>1. PathInv /\ RevokedKnown => CancelPrevails
  <2> SUFFICES ASSUME PathInv, RevokedKnown PROVE CancelPrevails
    OBVIOUS
  <2>1. applied \in Seq(Keys)
    BY Zenon DEF PathInv, PathTypes
  <2>2. DOMAIN applied = 1..Len(applied)
    BY <2>1
  <2> QED BY Zenon, <2>2 DEF CancelPrevails, RevokedKnown, AppliedSet
<1> QED BY <1>1, RoomAlways, PTL

(* "Rejoining an existing member refreshes delivery after User restarts":  *)
(* when a join of the running User server has been answered, the room      *)
(* delivers to that server, unless a join that an earlier start had left   *)
(* behind was carried out even later.                                      *)
THEOREM PathRejoinRefreshes == PathSpec => []RejoinRefreshes
<1>1. PathInv /\ Heard /\ RouteLatest => RejoinRefreshes
  <2> SUFFICES ASSUME PathInv, Heard, RouteLatest,
                      NEW id \in Ids, told[<<boot, id>>] = "response", route # boot
               PROVE  \E m, n \in DOMAIN applied :
                        m < n /\ applied[m] = <<boot, id>> /\ applied[n][1] < boot
    BY Zenon DEF RejoinRefreshes, Identity
  <2>1. applied \in Seq(Keys) /\ boot \in Boots
    BY Zenon DEF PathInv, PathTypes
  <2>2. <<boot, id>> \in AppliedSet
    BY Zenon, <2>1, KeyFacts DEF Heard
  <2>3. PICK m \in 1..Len(applied) : applied[m] = <<boot, id>>
    BY Zenon, <2>2 DEF AppliedSet
  <2> DEFINE n == Len(applied)
  <2>4. m \in DOMAIN applied /\ n \in DOMAIN applied /\ m <= n /\ applied # <<>>
        /\ n \in 1..Len(applied)
    BY <2>1, <2>3
  <2>5. route = applied[n][1]
    BY Zenon, <2>4 DEF RouteLatest
  <2>6. applied[n] \in issued /\ applied[n] \in Keys
    <3>1. applied[n] \in issued
      BY Zenon, <2>4 DEF Heard, AppliedSet
    <3> QED BY Zenon, <3>1 DEF PathInv, PathTypes
  <2>7. applied[n][1] <= boot /\ applied[n][1] \in Nat /\ boot \in Nat
    BY Zenon, <2>1, <2>6, KeyFacts DEF PathInv, Outstanding
  <2>8. applied[n][1] < boot
    BY <2>5, <2>7
  <2>9. applied[m][1] = boot
    BY <2>3
  <2>10. m # n
    BY Zenon, <2>5, <2>9
  <2>11. m < n
    BY <2>1, <2>3, <2>4, <2>10
  <2> HIDE DEF n
  <2> QED BY Zenon, <2>3, <2>4, <2>8, <2>11
<1> QED BY <1>1, RoomAlways, PTL

(* What is proved of the User server's table, for the path's variables. *)
Table == INSTANCE PendingRequestsProofs

(* A step of the path is a step of the table or leaves it alone, unless    *)
(* the User server is started again.                                       *)
LEMMA TablePart ==
  ASSUME PathInv, [PathNext]_pathVars, ~Restart
  PROVE  [Table!Next]_Table!vars
<1> USE DEF Pending!EmptyMap, Pending!With, Pending!Without, Pending!NoResponse, Pending!TimerOff,
            Table!EmptyMap, Table!With, Table!Without, Table!NoResponse, Table!TimerOff
<1>1. CASE TimePasses
  BY Zenon, <1>1 DEF TimePasses, Pending!Tick, Table!Tick, Table!Next
<1>2. ASSUME NEW id \in Ids, AddRequest(id)
      PROVE  Table!Next
  BY Zenon, <1>2 DEF AddRequest, Pending!Add, Table!Add, Table!Next
<1>3. ASSUME NEW id \in Ids, SendRequest(id)
      PROVE  UNCHANGED Table!vars
  BY Zenon, <1>3 DEF SendRequest, userVars, Table!vars
<1>4. ASSUME NEW id \in Ids, CancelRequest(id)
      PROVE  Table!Next
  BY Zenon, <1>4 DEF CancelRequest, Pending!Cancel, Table!Cancel, Table!Next
<1>5. CASE TimerStep
  <2>1. CASE Pending!TimerWake
    BY Zenon, <2>1 DEF Pending!TimerWake, Table!TimerWake, Table!Next, Table!Timer
  <2>2. CASE Pending!TimerExpire
    BY Zenon, <2>2 DEF Pending!TimerExpire, Table!TimerExpire, Table!Next, Table!Timer
  <2>3. CASE Pending!TimerWait
    BY Zenon, <2>3 DEF Pending!TimerWait, Table!TimerWait, Table!Next, Table!Timer
  <2>4. CASE Pending!TimerExit
    BY Zenon, <2>4 DEF Pending!TimerExit, Table!TimerExit, Table!Next, Table!Timer
  <2> QED BY Zenon, <1>5, <2>1, <2>2, <2>3, <2>4 DEF TimerStep
<1>6. ASSUME NEW id \in Ids, TimeoutCallback(id)
      PROVE  Table!Next
  BY Zenon, <1>6 DEF TimeoutCallback, Pending!TimerCall, Table!TimerCall, Table!Next, Table!Timer
<1>7. CASE ReceiveResponse
  <2>1. toUser \in Seq(Ids) /\ toUser # <<>>
    BY Zenon, <1>7 DEF ReceiveResponse, PathInv, PathTypes
  <2>2. Head(toUser) \in Ids
    BY <2>1
  <2> QED BY Zenon, <1>7, <2>2 DEF ReceiveResponse, Pending!CompleteBegin, Table!CompleteBegin,
             Table!Next
<1>8. CASE WaiterStep \/ ResponseCallback
  <2>1. CASE Pending!CompleteTake
    BY Zenon, <2>1 DEF Pending!CompleteTake, Table!CompleteTake, Table!Next, Table!Complete
  <2>2. CASE Pending!CompleteUnknown
    BY Zenon, <2>2 DEF Pending!CompleteUnknown, Table!CompleteUnknown, Table!Next, Table!Complete
  <2>3. CASE Pending!CompleteCall
    BY Zenon, <2>3 DEF Pending!CompleteCall, Table!CompleteCall, Table!Next, Table!Complete
  <2> QED BY Zenon, <1>8, <2>1, <2>2, <2>3 DEF WaiterStep, ResponseCallback
<1>9. CASE OwnerStep \/ Stop
  <2>1. CASE Pending!Start \/ Pending!StopRequest
    BY Zenon, <2>1 DEF Pending!Start, Pending!StopRequest, Table!Start, Table!StopRequest,
       Table!Next
  <2>2. CASE Pending!StopJoin
    BY Zenon, <2>2 DEF Pending!StopJoin, Table!StopJoin, Table!Next, Table!Stop
  <2>3. CASE Pending!StopChannel
    BY Zenon, <2>3 DEF Pending!StopChannel, Table!StopChannel, Table!Next, Table!Stop
  <2>4. CASE Pending!ClearAgain
    BY Zenon, <2>4 DEF Pending!ClearAgain, Table!ClearAgain, Table!Next, Table!Stop
  <2> QED BY Zenon, <1>9, <2>1, <2>2, <2>3, <2>4 DEF OwnerStep, Stop, StopTable, StopChannel
<1>10. CASE RoomStep \/ UNCHANGED pathVars
  <2>1. UNCHANGED <<clock, userVars>>
    BY Zenon, <1>10 DEF RoomStep, AdmitJoin, RefuseJoin, CancelJoin, CompleteJoin, BeginJoin,
       Admit, Refuse, Cancel, Finish, TryStart, pathVars
  <2> QED BY Zenon, <2>1 DEF userVars, Table!vars
<1> QED BY Zenon, <1>1, <1>2, <1>3, <1>4, <1>5, <1>6, <1>7, <1>8, <1>9, <1>10
           DEF PathNext, UserStep, Timer, Waiter

(* A new start of the User server begins with an empty table, whatever the *)
(* crash has interrupted.                                                  *)
LEMMA TableAfterRestart ==
  ASSUME PathInv, Restart
  PROVE  Table!PendingInv'
<1>1. /\ clock' = clock /\ clock \in Nat
      /\ requests' = [k \in {} |-> 0] /\ deadline' = [k \in {} |-> 0]
      /\ arrived' = [k \in {} |-> 0]
      /\ running' = FALSE /\ owner' = "new" /\ dropped' = {}
      /\ outcome' = [id \in Ids |-> <<>>]
      /\ timer' = [pc |-> "off", now |-> 0, expired |-> {}]
      /\ waiter' = [pc |-> "idle", id |-> NoId, now |-> 0, late |-> FALSE]
  BY Zenon DEF Restart, PathInv, PathTypes, EmptyMap, Pending!TimerOff, Pending!NoResponse
<1>2. Table!TypeOK'
  <2>1. <<>> \in Seq({"response", "timeout"})
    OBVIOUS
  <2>2. outcome' \in [Ids -> Seq({"response", "timeout"})]
    BY Zenon, <1>1, <2>1
  <2>3. timer' \in [pc : {"off", "wait", "expire", "call"}, now : Nat, expired : SUBSET Ids]
    BY <1>1
  <2>4. waiter' \in [pc : {"idle", "take", "call"}, id : Ids \cup {NoId}, now : Nat,
                     late : BOOLEAN] /\ waiter'.pc = "idle"
    BY <1>1
  <2>5. DOMAIN requests' = {} /\ DOMAIN deadline' = {} /\ DOMAIN arrived' = {}
    BY Zenon, <1>1
  <2> QED BY Zenon, <1>1, <2>2, <2>3, <2>4, <2>5 DEF Table!TypeOK
<1>3. /\ DOMAIN requests' = {} /\ DOMAIN deadline' = {}
      /\ waiter'.pc = "idle" /\ timer'.expired = {} /\ timer'.pc = "off"
      /\ timer'.now = 0 /\ waiter'.now = 0 /\ 0 <= clock'
      /\ \A id \in Ids : outcome'[id] = <<>>
  BY <1>1
<1>4. Table!Located'
  BY <1>1, <1>3 DEF Table!Located, Table!Waiting, Table!Completing, Table!Expiring, Table!Called,
     Table!Dropped
<1>5. Table!Timed'
  BY <1>1, <1>3 DEF Table!Timed, Table!Completing, Table!Expiring
<1>6. Table!Answered'
  BY <1>3 DEF Table!Answered
<1>7. Table!QuietAfterStop'
  BY <1>1, <1>3 DEF Table!QuietAfterStop
<1> QED BY Zenon, <1>2, <1>4, <1>5, <1>6, <1>7 DEF Table!PendingInv

(* However response, timeout, cancellation, stop() and the Room server's   *)
(* answers race, and wherever a crash of the User server interrupts them,  *)
(* a request of the current start has exactly one fate in the table.       *)
THEOREM PathOneFate == PathSpec => []OneFate
<1>1. PathInit => Table!PendingInv
  <2>1. PathInit => Table!Init
    BY Zenon DEF PathInit, Pending!Init, Table!Init, Pending!EmptyMap, Pending!TimerOff,
       Pending!NoResponse, Table!EmptyMap, Table!TimerOff, Table!NoResponse
  <2> QED BY Zenon, <2>1, Table!PendingStart, PendingAssumption
<1>2. PathInv /\ Table!PendingInv /\ [PathNext]_pathVars => Table!PendingInv'
  <2> SUFFICES ASSUME PathInv, Table!PendingInv, [PathNext]_pathVars
               PROVE  Table!PendingInv'
    OBVIOUS
  <2>1. CASE Restart
    BY Zenon, <2>1, TableAfterRestart
  <2>2. CASE ~Restart
    <3>1. [Table!Next]_Table!vars
      BY Zenon, <2>2, TablePart
    <3> QED BY Zenon, <3>1, Table!PendingStep, PendingAssumption
  <2> QED BY Zenon, <2>1, <2>2
<1>3. Table!PendingInv => OneFate
  BY Zenon, Table!OneFateHolds, PendingAssumption DEF OneFate, Pending!OneFate, Table!OneFate,
     Pending!FateNames, Table!FateNames, Pending!Fates, Table!Fates
<1> QED BY <1>1, <1>2, <1>3, PathAlways, PTL DEF PathSpec

=============================================================================
