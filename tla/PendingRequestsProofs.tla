----------------------- MODULE PendingRequestsProofs -----------------------
(***************************************************************************)
(* Proofs about PendingRequests, for every set of ids and every timeout.   *)
(* The inductive invariant PendingInv says where a request is (exactly one *)
(* place), and what the two threads' local copies of the time and of the   *)
(* verdict have to do with its deadline.                                   *)
(***************************************************************************)
EXTENDS PendingRequests, TLAPS

Waiting(id) == id \in DOMAIN requests
Completing(id) == waiter.pc = "call" /\ waiter.id = id
Expiring(id) == id \in timer.expired
Called(id) == outcome[id] # <<>>
Dropped(id) == id \in dropped

(* A request is in one place at most, and in one place once it was added.  *)
Located ==
  \A id \in Ids :
    /\ Waiting(id) => ~Completing(id) /\ ~Expiring(id) /\ ~Called(id) /\ ~Dropped(id)
    /\ Completing(id) => ~Expiring(id) /\ ~Called(id) /\ ~Dropped(id)
    /\ Expiring(id) => ~Called(id) /\ ~Dropped(id)
    /\ Called(id) => ~Dropped(id)
    /\ id \in DOMAIN deadline <=>
         Waiting(id) \/ Completing(id) \/ Expiring(id) \/ Called(id) \/ Dropped(id)

(* The times the two threads have read are past; the timer is off until    *)
(* start(), holds requests only while it calls them back, and their        *)
(* deadline is over.                                                       *)
Timed ==
  /\ timer.now <= clock
  /\ timer.pc # "call" => timer.expired = {}
  /\ owner = "new" => timer.pc = "off"
  /\ \A id \in Ids : Expiring(id) => deadline[id] <= clock
  /\ waiter.now <= clock
  /\ \A id \in Ids :
       Completing(id) => /\ id \in DOMAIN arrived
                         /\ arrived[id] = waiter.now
                         /\ waiter.late <=> waiter.now >= deadline[id]

(* What a request was called back with, and when. *)
Answered ==
  \A id \in Ids :
    /\ outcome[id] \in {<<>>, <<"response">>, <<"timeout">>}
    /\ outcome[id] = <<"timeout">> => deadline[id] <= clock
    /\ outcome[id] = <<"response">> => id \in DOMAIN arrived /\ arrived[id] < deadline[id]

PendingInv == TypeOK /\ Located /\ Timed /\ Answered /\ QuietAfterStop

(* What Append makes of an empty history, and that the three histories a   *)
(* request can have are different.                                         *)
LEMMA Histories ==
  /\ <<"response">> # <<>> /\ <<"timeout">> # <<>> /\ <<"response">> # <<"timeout">>
  /\ Append(<<>>, "response") = <<"response">>
  /\ Append(<<>>, "timeout") = <<"timeout">>
  /\ {<<>>, <<"response">>, <<"timeout">>} \subseteq Seq({"response", "timeout"})
  /\ \A h \in {<<>>, <<"response">>, <<"timeout">>} : Len(h) <= 1
OBVIOUS

(* The empty registry satisfies the invariant.                             *)
LEMMA PendingStart == Init => PendingInv
<1> SUFFICES ASSUME Init PROVE PendingInv
  OBVIOUS
<1> USE PendingAssumption DEF Init, EmptyMap, TimerOff, NoResponse
<1>1. TypeOK
  BY Histories DEF TypeOK
<1>2. Located
  BY DEF Located, Waiting, Completing, Expiring, Called, Dropped
<1>3. Timed
  BY DEF Timed, Expiring, Completing
<1>4. Answered
  BY Histories DEF Answered
<1>5. QuietAfterStop
  BY DEF QuietAfterStop
<1> QED BY <1>1, <1>2, <1>3, <1>4, <1>5 DEF PendingInv

(* Every step of the sessions, the two threads and the owner preserves it. *)
LEMMA PendingStep == PendingInv /\ [Next]_vars => PendingInv'
<1> SUFFICES ASSUME PendingInv, [Next]_vars PROVE PendingInv'
  OBVIOUS
<1> USE PendingAssumption
<1>1. CASE Tick
  <2>1. TypeOK'
    BY <1>1 DEF PendingInv, TypeOK, Tick
  <2>2. Located'
    BY <1>1 DEF PendingInv, TypeOK, Located, Timed, Waiting, Completing, Expiring,
       Called, Dropped, Tick
  <2>3. Timed'
    BY <1>1 DEF PendingInv, TypeOK, Located, Timed, Waiting, Completing, Expiring,
       Called, Dropped, Tick
  <2>4. Answered'
    <3>1. \A id \in Ids : outcome[id] = <<"timeout">> => deadline[id] \in Nat
      BY Histories DEF PendingInv, TypeOK, Located, Called
    <3> QED BY <1>1, <3>1 DEF PendingInv, TypeOK, Answered, Tick
  <2>5. QuietAfterStop'
    BY <1>1 DEF PendingInv, QuietAfterStop, Tick
  <2> QED BY <2>1, <2>2, <2>3, <2>4, <2>5 DEF PendingInv
<1>2. ASSUME NEW id \in Ids, Add(id)
      PROVE  PendingInv'
  <2>1. TypeOK'
    BY <1>2 DEF PendingInv, TypeOK, Add, With
  <2>2. Located'
    BY <1>2 DEF PendingInv, TypeOK, Located, Timed, Waiting, Completing, Expiring,
       Called, Dropped, Add, With
  <2>3. Timed'
    BY <1>2 DEF PendingInv, TypeOK, Located, Timed, Waiting, Completing, Expiring,
       Called, Dropped, Add, With
  <2>4. Answered'
    BY <1>2, Histories DEF PendingInv, TypeOK, Located, Timed, Answered, Waiting,
       Completing, Expiring, Called, Dropped, Add, With
  <2>5. QuietAfterStop'
    BY <1>2 DEF PendingInv, QuietAfterStop, Add, With
  <2> QED BY <2>1, <2>2, <2>3, <2>4, <2>5 DEF PendingInv
<1>3. ASSUME NEW id \in Ids, Cancel(id)
      PROVE  PendingInv'
  <2>1. TypeOK'
    BY <1>3 DEF PendingInv, TypeOK, Cancel, Without
  <2>2. Located'
    BY <1>3 DEF PendingInv, TypeOK, Located, Timed, Waiting, Completing, Expiring,
       Called, Dropped, Cancel, Without
  <2>3. Timed'
    BY <1>3 DEF PendingInv, TypeOK, Located, Timed, Waiting, Completing, Expiring,
       Called, Dropped, Cancel, Without
  <2>4. Answered'
    BY <1>3, Histories DEF PendingInv, TypeOK, Located, Timed, Answered, Waiting,
       Completing, Expiring, Called, Dropped, Cancel, Without
  <2>5. QuietAfterStop'
    BY <1>3 DEF PendingInv, QuietAfterStop, Cancel, Without
  <2> QED BY <2>1, <2>2, <2>3, <2>4, <2>5 DEF PendingInv
<1>4. ASSUME NEW id \in Ids, CompleteBegin(id)
      PROVE  PendingInv'
  <2>1. TypeOK'
    BY <1>4 DEF PendingInv, TypeOK, CompleteBegin, NoResponse
  <2>2. Located'
    BY <1>4 DEF PendingInv, TypeOK, Located, Timed, Waiting, Completing, Expiring,
       Called, Dropped, CompleteBegin, NoResponse
  <2>3. Timed'
    BY <1>4 DEF PendingInv, TypeOK, Located, Timed, Waiting, Completing, Expiring,
       Called, Dropped, CompleteBegin, NoResponse
  <2>4. Answered'
    BY <1>4, Histories DEF PendingInv, TypeOK, Located, Timed, Answered, Waiting,
       Completing, Expiring, Called, Dropped, CompleteBegin, NoResponse
  <2>5. QuietAfterStop'
    BY <1>4 DEF PendingInv, QuietAfterStop, CompleteBegin, NoResponse
  <2> QED BY <2>1, <2>2, <2>3, <2>4, <2>5 DEF PendingInv
<1>5. CASE CompleteTake
  <2>1. TypeOK'
    <3>1. waiter.id \in Ids /\ waiter.now \in Nat /\ requests[waiter.id] \in Nat
      BY <1>5 DEF PendingInv, TypeOK, CompleteTake
    <3>2. /\ waiter' \in [pc : {"idle", "take", "call"}, id : Ids \cup {NoId}, now : Nat,
                       late : BOOLEAN]
          /\ waiter'.id \in Ids
      <4>1. CASE waiter.now >= requests[waiter.id]
        <5>1. waiter' = [waiter EXCEPT !.pc = "call", !.late = TRUE]
          BY <1>5, <4>1 DEF CompleteTake
        <5> QED BY <3>1, <5>1 DEF PendingInv, TypeOK
      <4>2. CASE ~(waiter.now >= requests[waiter.id])
        <5>1. (waiter.now >= requests[waiter.id]) = FALSE
          BY <3>1, <4>2
        <5>2. waiter' = [waiter EXCEPT !.pc = "call", !.late = FALSE]
          BY <1>5, <5>1 DEF CompleteTake
        <5> QED BY <3>1, <5>2 DEF PendingInv, TypeOK
      <4> QED BY <4>1, <4>2
    <3>3. /\ DOMAIN arrived' \subseteq Ids
          /\ \A id \in DOMAIN arrived' : arrived'[id] \in Nat
      BY <1>5, <3>1 DEF PendingInv, TypeOK, CompleteTake, With
    <3>4. /\ DOMAIN requests' \subseteq DOMAIN requests
          /\ \A id \in DOMAIN requests' : requests'[id] = requests[id]
      BY <1>5 DEF CompleteTake, Without
    <3> QED
      BY <1>5, <3>2, <3>3, <3>4 DEF PendingInv, TypeOK, CompleteTake
  <2>2. Located'
    BY <1>5 DEF PendingInv, TypeOK, Located, Timed, Waiting, Completing, Expiring,
       Called, Dropped, CompleteTake, With, Without
  <2>3. Timed'
    BY <1>5 DEF PendingInv, TypeOK, Located, Timed, Waiting, Completing, Expiring,
       Called, Dropped, CompleteTake, With, Without
  <2>4. Answered'
    BY <1>5, Histories DEF PendingInv, TypeOK, Located, Timed, Answered, Waiting,
       Completing, Expiring, Called, Dropped, CompleteTake, With, Without
  <2>5. QuietAfterStop'
    BY <1>5 DEF PendingInv, QuietAfterStop, CompleteTake, With, Without
  <2> QED BY <2>1, <2>2, <2>3, <2>4, <2>5 DEF PendingInv
<1>6. CASE CompleteUnknown
  BY <1>6, Histories DEF PendingInv, TypeOK, Located, Timed, Answered, QuietAfterStop,
     Waiting, Completing, Expiring, Called, Dropped, CompleteUnknown, NoResponse
<1>7. CASE CompleteCall
  <2>1. TypeOK'
    BY <1>7 DEF PendingInv, TypeOK, CompleteCall, NoResponse
  <2>2. Located'
    BY <1>7 DEF PendingInv, TypeOK, Located, Timed, Waiting, Completing, Expiring,
       Called, Dropped, CompleteCall, NoResponse
  <2>3. Timed'
    BY <1>7 DEF PendingInv, TypeOK, Located, Timed, Waiting, Completing, Expiring,
       Called, Dropped, CompleteCall, NoResponse
  <2>4. Answered'
    <3>1. /\ waiter.id \in Ids
          /\ Completing(waiter.id)
          /\ outcome[waiter.id] = <<>>
          /\ waiter.id \in DOMAIN deadline
      BY <1>7 DEF PendingInv, TypeOK, Located, Completing, Called, CompleteCall
    <3>2. /\ waiter.id \in DOMAIN arrived
          /\ arrived[waiter.id] = waiter.now
          /\ waiter.late => deadline[waiter.id] <= clock
          /\ ~waiter.late => arrived[waiter.id] < deadline[waiter.id]
      BY <3>1 DEF PendingInv, TypeOK, Timed
    <3>3. CASE waiter.late
      <4>1. outcome' = [outcome EXCEPT ![waiter.id] = <<"timeout">>]
        BY <1>7, <3>1, <3>3, Histories DEF CompleteCall
      <4> QED
        BY <1>7, <3>1, <3>2, <3>3, <4>1, Histories DEF PendingInv, TypeOK, Answered, CompleteCall
    <3>4. CASE ~waiter.late
      <4>1. outcome' = [outcome EXCEPT ![waiter.id] = <<"response">>]
        BY <1>7, <3>1, <3>4, Histories DEF CompleteCall
      <4> QED
        BY <1>7, <3>1, <3>2, <3>4, <4>1, Histories DEF PendingInv, TypeOK, Answered, CompleteCall
    <3> QED BY <3>3, <3>4
  <2>5. QuietAfterStop'
    BY <1>7 DEF PendingInv, QuietAfterStop, CompleteCall, NoResponse
  <2> QED BY <2>1, <2>2, <2>3, <2>4, <2>5 DEF PendingInv
<1>8. CASE TimerWake
  <2>1. TypeOK'
    BY <1>8 DEF PendingInv, TypeOK, TimerWake
  <2>2. Located'
    BY <1>8 DEF PendingInv, TypeOK, Located, Timed, Waiting, Completing, Expiring,
       Called, Dropped, TimerWake
  <2>3. Timed'
    BY <1>8 DEF PendingInv, TypeOK, Located, Timed, Waiting, Completing, Expiring,
       Called, Dropped, TimerWake
  <2>4. Answered'
    BY <1>8, Histories DEF PendingInv, TypeOK, Located, Timed, Answered, Waiting,
       Completing, Expiring, Called, Dropped, TimerWake
  <2>5. QuietAfterStop'
    BY <1>8 DEF PendingInv, QuietAfterStop, TimerWake
  <2> QED BY <2>1, <2>2, <2>3, <2>4, <2>5 DEF PendingInv
<1>9. CASE TimerExpire
  <2>1. TypeOK'
    BY <1>9 DEF PendingInv, TypeOK, TimerExpire, Without
  <2>2. Located'
    BY <1>9 DEF PendingInv, TypeOK, Located, Timed, Waiting, Completing, Expiring,
       Called, Dropped, TimerExpire, Without
  <2>3. Timed'
    BY <1>9 DEF PendingInv, TypeOK, Located, Timed, Waiting, Completing, Expiring,
       Called, Dropped, TimerExpire, Without
  <2>4. Answered'
    BY <1>9, Histories DEF PendingInv, TypeOK, Located, Timed, Answered, Waiting,
       Completing, Expiring, Called, Dropped, TimerExpire, Without
  <2>5. QuietAfterStop'
    BY <1>9 DEF PendingInv, QuietAfterStop, TimerExpire, Without
  <2> QED BY <2>1, <2>2, <2>3, <2>4, <2>5 DEF PendingInv
<1>10. ASSUME NEW id \in Ids, TimerCall(id)
      PROVE  PendingInv'
  <2>1. TypeOK'
    <3>1. outcome' \in [Ids -> Seq({"response", "timeout"})]
      BY <1>10 DEF PendingInv, TypeOK, TimerCall
    <3>2. timer' \in [pc : {"off", "wait", "expire", "call"}, now : Nat, expired : SUBSET Ids]
      BY <1>10 DEF PendingInv, TypeOK, TimerCall
    <3> QED
      BY <1>10, <3>1, <3>2 DEF PendingInv, TypeOK, TimerCall
  <2>2. Located'
    BY <1>10 DEF PendingInv, TypeOK, Located, Timed, Waiting, Completing, Expiring,
       Called, Dropped, TimerCall
  <2>3. Timed'
    BY <1>10 DEF PendingInv, TypeOK, Located, Timed, Waiting, Completing, Expiring,
       Called, Dropped, TimerCall
  <2>4. Answered'
    BY <1>10, Histories DEF PendingInv, TypeOK, Located, Timed, Answered, Waiting,
       Completing, Expiring, Called, Dropped, TimerCall
  <2>5. QuietAfterStop'
    BY <1>10 DEF PendingInv, QuietAfterStop, TimerCall
  <2> QED BY <2>1, <2>2, <2>3, <2>4, <2>5 DEF PendingInv
<1>11. CASE TimerWait
  BY <1>11, Histories DEF PendingInv, TypeOK, Located, Timed, Answered, QuietAfterStop,
     Waiting, Completing, Expiring, Called, Dropped, TimerWait
<1>12. CASE TimerExit
  BY <1>12, Histories DEF PendingInv, TypeOK, Located, Timed, Answered, QuietAfterStop,
     Waiting, Completing, Expiring, Called, Dropped, TimerExit, TimerOff
<1>13. CASE Start
  <2>1. TypeOK'
    BY <1>13 DEF PendingInv, TypeOK, Start
  <2>2. Located'
    BY <1>13 DEF PendingInv, TypeOK, Located, Timed, Waiting, Completing, Expiring,
       Called, Dropped, Start
  <2>3. Timed'
    BY <1>13 DEF PendingInv, TypeOK, Located, Timed, Waiting, Completing, Expiring,
       Called, Dropped, Start
  <2>4. Answered'
    BY <1>13, Histories DEF PendingInv, TypeOK, Located, Timed, Answered, Waiting,
       Completing, Expiring, Called, Dropped, Start
  <2>5. QuietAfterStop'
    BY <1>13 DEF PendingInv, QuietAfterStop, Start
  <2> QED BY <2>1, <2>2, <2>3, <2>4, <2>5 DEF PendingInv
<1>14. CASE StopRequest
  BY <1>14, Histories DEF PendingInv, TypeOK, Located, Timed, Answered, QuietAfterStop,
     Waiting, Completing, Expiring, Called, Dropped, StopRequest
<1>15. CASE StopJoin
  <2>1. TypeOK'
    BY <1>15 DEF PendingInv, TypeOK, StopJoin, EmptyMap
  <2>2. Located'
    BY <1>15 DEF PendingInv, TypeOK, Located, Timed, Waiting, Completing, Expiring,
       Called, Dropped, StopJoin, EmptyMap
  <2>3. Timed'
    BY <1>15 DEF PendingInv, TypeOK, Located, Timed, Waiting, Completing, Expiring,
       Called, Dropped, StopJoin, EmptyMap
  <2>4. Answered'
    BY <1>15, Histories DEF PendingInv, TypeOK, Located, Timed, Answered, Waiting,
       Completing, Expiring, Called, Dropped, StopJoin, EmptyMap
  <2>5. QuietAfterStop'
    BY <1>15 DEF PendingInv, QuietAfterStop, StopJoin, EmptyMap
  <2> QED BY <2>1, <2>2, <2>3, <2>4, <2>5 DEF PendingInv
<1>16. CASE StopChannel
  BY <1>16, Histories DEF PendingInv, TypeOK, Located, Timed, Answered, QuietAfterStop,
     Waiting, Completing, Expiring, Called, Dropped, StopChannel
<1>17. CASE ClearAgain
  <2>1. TypeOK'
    BY <1>17 DEF PendingInv, TypeOK, ClearAgain, EmptyMap
  <2>2. Located'
    BY <1>17 DEF PendingInv, TypeOK, Located, Timed, Waiting, Completing, Expiring,
       Called, Dropped, ClearAgain, EmptyMap
  <2>3. Timed'
    BY <1>17 DEF PendingInv, TypeOK, Located, Timed, Waiting, Completing, Expiring,
       Called, Dropped, ClearAgain, EmptyMap
  <2>4. Answered'
    BY <1>17, Histories DEF PendingInv, TypeOK, Located, Timed, Answered, Waiting,
       Completing, Expiring, Called, Dropped, ClearAgain, EmptyMap
  <2>5. QuietAfterStop'
    BY <1>17 DEF PendingInv, QuietAfterStop, ClearAgain, EmptyMap
  <2> QED BY <2>1, <2>2, <2>3, <2>4, <2>5 DEF PendingInv
<1>18. CASE UNCHANGED vars
  BY <1>18, Histories DEF PendingInv, TypeOK, Located, Timed, Answered, QuietAfterStop,
     Waiting, Completing, Expiring, Called, Dropped, vars
<1> QED
  BY <1>1, <1>2, <1>3, <1>4, <1>5, <1>6, <1>7, <1>8, <1>9, <1>10,
     <1>11, <1>12, <1>13, <1>14, <1>15, <1>16, <1>17, <1>18
     DEF Next, Complete, Timer, Stop, Destroyed

(* The invariant holds in every reachable state.                           *)
THEOREM PendingInvariant == Spec => []PendingInv
BY PendingStart, PendingStep, PTL DEF Spec

(* The registry's table and the two threads keep their types, for every    *)
(* set of ids and every timeout.                                           *)
THEOREM PendingTyped == Spec => []TypeOK
BY PendingInvariant, PTL DEF PendingInv

(* The five places exclude each other, so that Fates has one member. *)
LEMMA OneFateHolds == PendingInv => OneFate
<1> SUFFICES ASSUME PendingInv, NEW id \in DOMAIN deadline
             PROVE  /\ Len(outcome[id]) <= 1
                    /\ \E f \in FateNames : Fates(id) = {f}
  BY DEF OneFate
<1>1. id \in Ids
  BY DEF PendingInv, TypeOK
<1>2. Len(outcome[id]) <= 1
  BY <1>1, Histories DEF PendingInv, Answered
<1>3. Waiting(id) \/ Completing(id) \/ Expiring(id) \/ Called(id) \/ Dropped(id)
  BY <1>1 DEF PendingInv, Located
<1>4. Waiting(id) => Fates(id) = {"waiting"}
  BY <1>1 DEF PendingInv, Located, Fates, FateNames, Waiting, Completing, Expiring,
     Called, Dropped
<1>5. Completing(id) => Fates(id) = {"completing"}
  BY <1>1 DEF PendingInv, Located, Fates, FateNames, Waiting, Completing, Expiring,
     Called, Dropped
<1>6. Expiring(id) => Fates(id) = {"expiring"}
  BY <1>1 DEF PendingInv, Located, Fates, FateNames, Waiting, Completing, Expiring,
     Called, Dropped
<1>7. Called(id) => Fates(id) = {"called"}
  BY <1>1 DEF PendingInv, Located, Fates, FateNames, Waiting, Completing, Expiring,
     Called, Dropped
<1>8. Dropped(id) => Fates(id) = {"dropped"}
  BY <1>1 DEF PendingInv, Located, Fates, FateNames, Waiting, Completing, Expiring,
     Called, Dropped
<1> QED BY <1>2, <1>3, <1>4, <1>5, <1>6, <1>7, <1>8 DEF FateNames

(* However complete(), expire(), cancel() and stop() interleave, a request *)
(* has exactly one fate and is called back at most once.                   *)
THEOREM PendingOneFate == Spec => []OneFate
BY OneFateHolds, PendingInvariant, PTL

(* on_timeout() is never called before the deadline, although expire() and *)
(* complete() compare it with a time read before they took the lock.       *)
THEOREM PendingTimeoutNotEarly == Spec => []TimeoutNotEarly
<1>1. PendingInv => TimeoutNotEarly
  <2> SUFFICES ASSUME PendingInv, NEW id \in Ids, outcome[id] = <<"timeout">>
               PROVE  clock >= deadline[id]
    BY DEF TimeoutNotEarly
  <2>1. deadline[id] \in Nat /\ clock \in Nat
    BY Histories DEF PendingInv, TypeOK, Located, Called
  <2> QED BY <2>1 DEF PendingInv, Answered
<1> QED BY <1>1, PendingInvariant, PTL

(* "A response arriving after its deadline is late even between timer      *)
(* ticks": on_response is called only for responses in time.               *)
THEOREM PendingResponseInTime == Spec => []ResponseInTime
<1>1. PendingInv => ResponseInTime
  BY DEF PendingInv, Answered, ResponseInTime
<1> QED BY <1>1, PendingInvariant, PTL

(* Once stop() has joined the timer no timeout callback is in progress,    *)
(* nor starts again.                                                       *)
THEOREM PendingQuietAfterStop == Spec => []QuietAfterStop
BY PendingInvariant, PTL DEF PendingInv

=============================================================================
