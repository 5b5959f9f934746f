-------------------------- MODULE RoomServerProofs --------------------------
(***************************************************************************)
(* Proofs about the Room server: its requests, its rooms and the contents  *)
(* they call, for every set of users, rooms, ids and requests.             *)
(***************************************************************************)
EXTENDS RoomServer, TLAPS

-----------------------------------------------------------------------------
(* Types *)

Lives == {"unborn", "open", "closing", "closed"}

RequestTask == [op : {"join", "leave"}, room : Rooms, uid : Users, key : Requests]
KickTask == [op : {"kick"}, room : Rooms, uid : Users, key : {None}]
RoomTask == [op : {"created", "send", "close"}, room : Rooms, uid : {None}, key : {None}]
TaskType == RequestTask \cup KickTask \cup RoomTask

(* The steps of the operations that do not run in one go. *)
CurType ==
  [task : RequestTask, step : {"body", "reply", "notify", "empty", "close", "destroy"},
   done : BOOLEAN, notify : BOOLEAN]
  \cup [task : KickTask, step : {"kicked"}, done : BOOLEAN, notify : BOOLEAN]
  \cup [task : RoomTask, step : {"close", "destroy"}, done : BOOLEAN, notify : BOOLEAN]

RouterType ==
  [pc : {"begin", "create", "find", "lookup", "reject", "call", "echo"},
   op : {"create", "join", "leave", "forward"}, key : Requests \cup {None}, uid : Users,
   id : RoomIds \cup {None}, room : Rooms \cup {None}, msg : Messages \cup {None},
   to : SUBSET Users]

(* What the router holds while it handles a message: the handlers of       *)
(* requests carry a key, a forward is in a room once it has found one.     *)
RouterOk ==
  /\ router = NoMessage \/ router \in RouterType
  /\ router.pc \in {"begin", "create"} => router.op = "create"
  /\ router.pc = "reject" => router.op \in {"join", "leave"}
  /\ router.pc \in {"find", "lookup"} => router.op \in {"join", "leave", "forward"}
  /\ router.pc = "find" => router.id \in RoomIds
  /\ router.pc \in {"call", "echo"} => router.op = "forward" /\ router.room \in Rooms
  /\ router.op = "forward" => router.msg \in Messages
  /\ router.op \in {"create", "join", "leave"} => router.key \in Requests
  /\ router.pc # "recv" => main \in {"running", "crashed"}

CurOk ==
  /\ cur = Idle \/ cur \in CurType
  /\ cur.step \in {"empty", "close", "destroy"} => cur.task.op \in {"leave", "close"}

RoomsOk ==
  /\ DOMAIN rooms \subseteq RoomIds
  /\ \A i \in DOMAIN rooms : rooms[i] \in Rooms
  /\ DOMAIN userRooms \subseteq Users
  /\ \A u \in DOMAIN userRooms : userRooms[u] \in RoomIds
  /\ roomId \in [Rooms -> RoomIds \cup {None}]
  /\ users \in [Rooms -> SUBSET Users]
  /\ life \in [Rooms -> Lives]
  /\ contents \in [Rooms -> {"null", "built", "created"}]
  /\ closing \subseteq Rooms

(* The registry with one ticket per key. *)
KeysOk ==
  /\ clock = 0
  /\ DOMAIN active \subseteq Requests
  /\ \A k \in DOMAIN active : active[k] = k
  /\ ticket \in [Requests -> {"unused", "queued", "started", "cancelled"}]
  /\ DOMAIN holder = {k \in Requests : ticket[k] # "unused"}
  /\ \A k \in DOMAIN holder : holder[k] = k
  /\ finished \subseteq DOMAIN holder
  /\ \A k \in DOMAIN holder : k \notin finished <=> k \in DOMAIN active
  /\ DOMAIN active \subseteq DOMAIN holder

TypeOK ==
  /\ KeysOk
  /\ reply \in [Requests -> Seq(BOOLEAN)]
  /\ mutated \subseteq Requests
  /\ RoomsOk
  /\ strand \in Seq(TaskType)
  /\ CurOk
  /\ RouterOk
  /\ main \in {"running", "joined", "closing", "stopped", "crashed"}

-----------------------------------------------------------------------------
(* Requests: an admitted request is carried by one thread or task at a     *)
(* time until it is finished.                                              *)

Carries(n) == strand[n].op \in {"join", "leave"}

HasRequest == router.op \in {"create", "join", "leave"}

RouterCarries ==
  HasRequest =>
    /\ router.key \in DOMAIN active
    /\ ticket[router.key] = IF router.pc \in {"create", "reject"} THEN "started" ELSE "queued"

StrandCarries ==
  \A n \in 1..Len(strand) : Carries(n) =>
    /\ strand[n].key \in DOMAIN active
    /\ ticket[strand[n].key] \in {"queued", "cancelled"}
    /\ strand[n].key # router.key
    /\ cur.step \in {"body", "reply"} => strand[n].key # cur.task.key

CarriedApart ==
  \A m, n \in 1..Len(strand) :
    Carries(m) /\ Carries(n) /\ strand[m].key = strand[n].key => m = n

CurCarries ==
  cur.step \in {"body", "reply"} =>
    /\ cur.task.key \in DOMAIN active
    /\ cur.task.key # router.key
    /\ ticket[cur.task.key] \in {"started", "cancelled"}
    /\ cur.step = "body" => ticket[cur.task.key] = "started"

Carried == RouterCarries /\ StrandCarries /\ CarriedApart /\ CurCarries

MutatedStarted == \A k \in mutated : ticket[k] = "started"

-----------------------------------------------------------------------------
(* Rooms *)

(* Rooms that are referred to have been created. *)
Born ==
  /\ \A n \in 1..Len(strand) : life[strand[n].room] # "unborn"
  /\ cur # Idle => life[cur.task.room] # "unborn"
  /\ router.room # None => life[router.room] # "unborn"

(* How far the room of the running task has come, by the task's step; a    *)
(* room whose close() waits is in the maps no more.                        *)
Stages ==
  /\ cur.notify => cur.done
  /\ cur.step = "body" => ~cur.done
  /\ cur.step \in {"reply", "notify", "empty"} /\ cur.done => life[cur.task.room] = "open"
  /\ cur.step \in {"notify", "empty"} => cur.done
  /\ cur.step = "kicked" => life[cur.task.room] = "open"
  /\ cur.step = "close" => ~Registered(cur.task.room)
  /\ cur.step = "destroy" => life[cur.task.room] = "closing"
  /\ \A n \in 1..Len(strand) : strand[n].op = "close" => ~Registered(strand[n].room)

NoKicks == \A n \in 1..Len(strand) : strand[n].op # "kick"

(* Kicks are posted before the closes of shutdown(), so that none is left  *)
(* for a room that was closed with users in it.                            *)
KicksFirst ==
  /\ main \in {"running", "joined"} =>
       /\ \A n \in 1..Len(strand) : strand[n].op # "close"
       /\ cur.task.op # "close"
  /\ \A m, n \in 1..Len(strand) : strand[m].op = "close" /\ strand[n].op = "kick" => n < m
  /\ cur.task.op = "close" => NoKicks
  /\ \A r \in Rooms : life[r] \in {"closing", "closed"} /\ users[r] # {} =>
                        main \notin {"running", "joined"} /\ NoKicks
  /\ cur.task.op = "leave" /\ cur.step \in {"empty", "close", "destroy"} =>
       users[cur.task.room] = {}

(* on_create_room is posted when the room is made, ahead of all its tasks. *)
Makes(n, r) == strand[n].op = "created" /\ strand[n].room = r

Made(r, limit) == contents[r] = "created" \/ \E m \in 1..limit : Makes(m, r)

CreatedFirst ==
  /\ \A m, n \in 1..Len(strand), r \in Rooms : Makes(m, r) /\ Makes(n, r) => m = n
  /\ \A n \in 1..Len(strand), r \in Rooms : Makes(n, r) => contents[r] = "built"
  /\ \A r \in Rooms : life[r] = "open" => Made(r, Len(strand))
  /\ \A n \in 1..Len(strand) :
       life[strand[n].room] = "open" /\ strand[n].op # "created" => Made(strand[n].room, n - 1)
  /\ cur # Idle /\ life[cur.task.room] = "open" => contents[cur.task.room] = "created"
  /\ cur.step \in {"kicked", "destroy"} => contents[cur.task.room] = "created"

ServerInv ==
  /\ TypeOK
  /\ Carried /\ AnsweredOnce /\ MutatedStarted
  /\ Born /\ Stages /\ LookupsAreSound
  /\ KicksFirst /\ CreatedFirst

-----------------------------------------------------------------------------
(* Rooms under distinct ids *)

(* An open room is in the manager's maps, or its close() is under way.     *)
OpenIsKnown ==
  \A r \in Rooms : life[r] = "open" =>
    \/ Registered(r)
    \/ cur.step = "close" /\ cur.task.room = r
    \/ \E n \in 1..Len(strand) : strand[n].op = "close" /\ strand[n].room = r

(* shutdown() waits for every room that is still open. *)
OpenIsAwaited ==
  /\ main \in {"closing", "stopped"} =>
       /\ DOMAIN rooms = {}
       /\ \A r \in Rooms : life[r] = "open" =>
            r \in closing \/ (cur.step = "close" /\ cur.task.room = r)
  /\ main = "stopped" => \A r \in Rooms : life[r] # "open"

KnownInv == ServerInv /\ OpenIsKnown /\ OpenIsAwaited

-----------------------------------------------------------------------------
(* Queues *)

(* An entry of a queue is what the queue holds. *)
LEMMA EntryTyped ==
  ASSUME NEW S, NEW q \in Seq(S), NEW n \in 1..Len(q)
  PROVE  q[n] \in S
OBVIOUS

(* Only the empty queue has length 0. *)
LEMMA EmptyFacts ==
  ASSUME NEW S, NEW q \in Seq(S), Len(q) = 0
  PROVE  q = <<>>
OBVIOUS

(* Taking the head off a queue moves every other entry one place forward. *)
LEMMA HeadFacts ==
  ASSUME NEW S, NEW q \in Seq(S), q # <<>>
  PROVE  /\ Head(q) \in S /\ Tail(q) \in Seq(S) /\ Len(Tail(q)) = Len(q) - 1
         /\ \A n \in 1..Len(Tail(q)) : Tail(q)[n] = q[n + 1]
OBVIOUS

(* Appending to a queue keeps every entry and puts the new one last. *)
LEMMA AppendFacts ==
  ASSUME NEW S, NEW q \in Seq(S), NEW e \in S
  PROVE  /\ Append(q, e) \in Seq(S) /\ Len(Append(q, e)) = Len(q) + 1
         /\ \A n \in 1..Len(q) : Append(q, e)[n] = q[n]
         /\ Append(q, e)[Len(q) + 1] = e
OBVIOUS

(* Joining two queues keeps both in their order. *)
LEMMA ConcatFacts ==
  ASSUME NEW S, NEW p \in Seq(S), NEW q \in Seq(S)
  PROVE  /\ p \o q \in Seq(S) /\ Len(p \o q) = Len(p) + Len(q)
         /\ \A n \in 1..(Len(p) + Len(q)) : (p \o q)[n] = IF n <= Len(p) THEN p[n] ELSE q[n - Len(p)]
OBVIOUS

-----------------------------------------------------------------------------
(* The registry: what its methods do to the one ticket of a key *)

(* admit() of a key: its ticket is queued and active. *)
LEMMA AdmitKeys ==
  ASSUME KeysOk, NEW k \in Requests, Registry!Admit(k, k, 0)
  PROVE  /\ KeysOk'
         /\ ticket[k] = "unused" /\ k \notin DOMAIN active /\ k \notin finished
         /\ ticket' = [ticket EXCEPT ![k] = "queued"]
         /\ DOMAIN active' = DOMAIN active \cup {k}
         /\ finished' = finished
<1>1. /\ ticket[k] = "unused" /\ ticket' = [ticket EXCEPT ![k] = "queued"]
      /\ active' = With(active, k, k) /\ holder' = With(holder, k, k)
      /\ clock' = clock /\ finished' = finished
  BY Zenon DEF Registry!Admit, Registry!With, With
<1>2. DOMAIN active' = DOMAIN active \cup {k} /\ \A j \in DOMAIN active' : active'[j] = j
  BY Zenon, <1>1 DEF With, KeysOk
<1>3. DOMAIN holder' = DOMAIN holder \cup {k} /\ \A j \in DOMAIN holder' : holder'[j] = j
  BY Zenon, <1>1 DEF With, KeysOk
<1>4. k \notin DOMAIN active /\ k \notin DOMAIN holder /\ k \notin finished
  BY Zenon, <1>1 DEF KeysOk
<1>5. ticket' \in [Requests -> {"unused", "queued", "started", "cancelled"}]
  BY Zenon, <1>1 DEF KeysOk
<1>6. DOMAIN holder' = {j \in Requests : ticket'[j] # "unused"}
  BY <1>1, <1>3 DEF KeysOk
<1>7. KeysOk'
  BY <1>1, <1>2, <1>3, <1>4, <1>5, <1>6 DEF KeysOk
<1>. QED
  BY Zenon, <1>1, <1>2, <1>4, <1>7

(* admit() that refuses changes no ticket. *)
LEMMA RefuseKeys ==
  ASSUME KeysOk, NEW k \in Requests, Registry!Refuse(k, 0)
  PROVE  KeysOk' /\ UNCHANGED <<ticket, active, finished>>
BY Zenon DEF Registry!Refuse, KeysOk

(* cancel() moves a queued ticket and touches nothing else. *)
LEMMA CancelKeys ==
  ASSUME KeysOk, NEW k \in Requests, Registry!Cancel(k, 0)
  PROVE  /\ KeysOk'
         /\ UNCHANGED <<active, finished>>
         /\ \A j \in Requests : \/ ticket'[j] = ticket[j]
                                \/ ticket[j] = "queued" /\ ticket'[j] = "cancelled" /\ j \in DOMAIN active
<1>1. UNCHANGED <<clock, active, holder, finished>>
  BY Zenon DEF Registry!Cancel
<1>2. CASE k \in DOMAIN active
  <2>1. ticket' = [ticket EXCEPT ![k] = IF @ = "queued" THEN "cancelled" ELSE @]
    BY Zenon, <1>2 DEF Registry!Cancel, KeysOk
  <2>2. ticket' \in [Requests -> {"unused", "queued", "started", "cancelled"}]
    BY Zenon, <2>1 DEF KeysOk
  <2>3. \A j \in Requests : ticket'[j] = IF j = k /\ ticket[j] = "queued" THEN "cancelled" ELSE ticket[j]
    BY Zenon, <2>1 DEF KeysOk
  <2>4. DOMAIN holder' = {j \in Requests : ticket'[j] # "unused"}
    BY Zenon, <1>1, <2>3 DEF KeysOk
  <2>. QED
    BY Zenon, <1>1, <1>2, <2>2, <2>3, <2>4 DEF KeysOk
<1>3. CASE k \notin DOMAIN active
  <2>1. ticket' = ticket
    BY Zenon, <1>3 DEF Registry!Cancel
  <2>. QED
    BY Zenon, <1>1, <2>1 DEF KeysOk
<1>. QED
  BY Zenon, <1>2, <1>3

(* try_start() starts a ticket that is still queued. *)
LEMMA TryStartKeys ==
  ASSUME KeysOk, NEW k \in Requests, Registry!TryStart(k)
  PROVE  /\ KeysOk'
         /\ UNCHANGED <<active, finished>>
         /\ ticket' = [ticket EXCEPT ![k] = IF @ = "queued" THEN "started" ELSE @]
<1>1. /\ UNCHANGED <<clock, active, holder, finished>>
      /\ ticket' = [ticket EXCEPT ![k] = IF @ = "queued" THEN "started" ELSE @]
  BY Zenon DEF Registry!TryStart
<1>2. ticket' \in [Requests -> {"unused", "queued", "started", "cancelled"}]
  BY Zenon, <1>1 DEF KeysOk
<1>3. \A j \in Requests : ticket'[j] = IF j = k /\ ticket[j] = "queued" THEN "started" ELSE ticket[j]
  BY Zenon, <1>1 DEF KeysOk
<1>4. DOMAIN holder' = {j \in Requests : ticket'[j] # "unused"}
  BY Zenon, <1>1, <1>3 DEF KeysOk
<1>. QED
  BY Zenon, <1>1, <1>2, <1>3, <1>4 DEF KeysOk

(* finish() takes the ticket out of the active ones. *)
LEMMA FinishKeys ==
  ASSUME KeysOk, NEW k \in Requests, Registry!Finish(k, k, 0)
  PROVE  /\ KeysOk'
         /\ k \in DOMAIN active /\ k \notin finished
         /\ DOMAIN active' = DOMAIN active \ {k}
         /\ finished' = finished \cup {k}
         /\ ticket' = ticket
<1>1. /\ k \in DOMAIN active /\ active' = Without(active, {k})
      /\ UNCHANGED <<clock, ticket, holder>> /\ finished' = finished \cup {k}
  BY Zenon DEF Registry!Finish, Registry!Without, Without
<1>2. DOMAIN active' = DOMAIN active \ {k} /\ \A j \in DOMAIN active' : active'[j] = j
  BY Zenon, <1>1 DEF Without, KeysOk
<1>3. k \notin finished
  BY Zenon, <1>1 DEF KeysOk
<1>. QED
  BY Zenon, <1>1, <1>2, <1>3 DEF KeysOk

-----------------------------------------------------------------------------
(* Tasks *)

(* What a task of the strand carries, by its kind. *)
LEMMA TaskFacts ==
  ASSUME NEW t \in TaskType
  PROVE  /\ t.room \in Rooms
         /\ t.op \in {"join", "leave"} => t \in RequestTask /\ t.uid \in Users /\ t.key \in Requests
         /\ t.op = "kick" => t \in KickTask /\ t.uid \in Users
         /\ t.op \notin {"join", "leave"} => t.key = None
         /\ t.op \in {"join", "leave", "kick", "created", "send", "close"}
         /\ t.op \in {"created", "send", "close"} => t \in RoomTask
BY Zenon DEF TaskType, RequestTask, KickTask, RoomTask

(* The tasks that carry only a room. *)
LEMMA RoomTaskType ==
  ASSUME NEW r \in Rooms, NEW op \in {"created", "send", "close"}
  PROVE  /\ Task(op, r) \in RoomTask /\ Task(op, r) \in TaskType
         /\ Task(op, r).op = op /\ Task(op, r).room = r /\ Task(op, r).key = None
BY Zenon DEF Task, NoTask, RoomTask, TaskType

(* What the running task carries, by its step. *)
LEMMA CurFacts ==
  ASSUME CurOk
  PROVE  /\ cur.step = "idle" <=> cur = Idle
         /\ cur # Idle => cur \in CurType /\ cur.task \in TaskType /\ cur.task.room \in Rooms
         /\ cur.task.op \in {"join", "leave"} =>
              /\ cur # Idle /\ cur.task \in RequestTask
              /\ cur.task.key \in Requests /\ cur.task.uid \in Users
         /\ cur.step \in {"body", "reply", "notify", "empty"} => cur.task.op \in {"join", "leave"}
         /\ cur.step = "kicked" => cur.task.op = "kick" /\ cur.task \in KickTask
         /\ cur.task.op = "kick" => cur.step = "kicked"
         /\ cur.task.op = "close" => cur.step \in {"close", "destroy"}
<1>1. Idle.step = "idle" /\ Idle.task.op = "none" /\ Idle \notin CurType
  BY Zenon DEF Idle, NoTask, CurType
<1>2. CASE cur = Idle
  BY Zenon, <1>1, <1>2
<1>3. ASSUME cur \in [task : RequestTask,
                      step : {"body", "reply", "notify", "empty", "close", "destroy"},
                      done : BOOLEAN, notify : BOOLEAN]
      PROVE  /\ cur.task \in RequestTask /\ cur.task \in TaskType
             /\ cur.step \in {"body", "reply", "notify", "empty", "close", "destroy"}
             /\ cur.task.op \in {"join", "leave"} /\ cur.task.room \in Rooms
             /\ cur.task.key \in Requests /\ cur.task.uid \in Users
  BY Zenon, <1>3 DEF RequestTask, TaskType
<1>4. ASSUME cur \in [task : KickTask, step : {"kicked"}, done : BOOLEAN, notify : BOOLEAN]
      PROVE  /\ cur.task \in KickTask /\ cur.task \in TaskType
             /\ cur.step = "kicked" /\ cur.task.op = "kick" /\ cur.task.room \in Rooms
  BY Zenon, <1>4 DEF KickTask, TaskType
<1>5. ASSUME cur \in [task : RoomTask, step : {"close", "destroy"}, done : BOOLEAN, notify : BOOLEAN]
      PROVE  /\ cur.task \in TaskType
             /\ cur.step \in {"close", "destroy"} /\ cur.task.op \in {"created", "send", "close"}
             /\ cur.task.room \in Rooms
  BY Zenon, <1>5 DEF RoomTask, TaskType
<1>6. CASE cur \in CurType
  BY Zenon, <1>1, <1>3, <1>4, <1>5, <1>6 DEF CurType
<1>. QED
  BY Zenon, <1>2, <1>6 DEF CurOk

(* The strand after a task was taken. *)
LEMMA TakeFacts ==
  ASSUME strand \in Seq(TaskType), NEW ops, Take(ops), strand' = Tail(strand)
  PROVE  /\ 1 \in 1..Len(strand) /\ Head(strand) = strand[1]
         /\ strand[1] \in TaskType /\ strand[1].op \in ops
         /\ strand' \in Seq(TaskType)
         /\ Len(strand') \in Nat /\ Len(strand) = Len(strand') + 1
         /\ \A n \in 1..Len(strand') : n + 1 \in 1..Len(strand) /\ strand'[n] = strand[n + 1]
         /\ cur = Idle
<1>1. strand # <<>> /\ Head(strand).op \in ops /\ cur = Idle
  BY Zenon DEF Take
<1>. QED
  BY <1>1, HeadFacts

(* The strand after a task was posted. *)
LEMMA PostFacts ==
  ASSUME strand \in Seq(TaskType), NEW t \in TaskType, Post(t)
  PROVE  /\ strand' \in Seq(TaskType)
         /\ Len(strand) \in Nat /\ Len(strand') = Len(strand) + 1
         /\ \A n \in 1..Len(strand) : n \in 1..Len(strand') /\ strand'[n] = strand[n]
         /\ Len(strand) + 1 \in 1..Len(strand') /\ strand'[Len(strand) + 1] = t
         /\ \A n \in 1..Len(strand') : n \in 1..Len(strand) \/ n = Len(strand) + 1
BY AppendFacts DEF Post

(* shutdown() adds a close() of every room in rooms_, and nothing else. *)
LEMMA ShutdownFacts ==
  ASSUME RoomsOk, strand \in Seq(TaskType), Shutdown
  PROVE  /\ strand' \in Seq(TaskType)
         /\ Len(strand) \in Nat /\ Len(strand') \in Nat /\ Len(strand) <= Len(strand')
         /\ \A n \in 1..Len(strand) : n \in 1..Len(strand') /\ strand'[n] = strand[n]
         /\ \A n \in 1..Len(strand') :
              \/ n \in 1..Len(strand)
              \/ n > Len(strand) /\ strand'[n].op = "close" /\ strand'[n].room \in Range(rooms)
         /\ \A r \in Range(rooms) : \E n \in 1..Len(strand') :
              strand'[n].op = "close" /\ strand'[n].room = r
<1>. DEFINE S == Range(rooms)
<1>1. PICK N \in 0..Cardinality(Rooms) : \E order \in Bijection(1..N, S) :
        strand' = strand \o [k \in 1..N |-> Task("close", order[k])]
  BY Zenon DEF Shutdown
<1>2. S \subseteq Rooms
  BY Zenon DEF RoomsOk, Range
<1>3. N \in Nat
  OBVIOUS
<1>8. PICK order \in Bijection(1..N, S) :
        strand' = strand \o [k \in 1..N |-> Task("close", order[k])]
  BY Zenon, <1>1
<1>4. order \in [1..N -> S] /\ \A r \in S : \E n \in 1..N : order[n] = r
  BY Zenon, <1>8 DEF Bijection, Surjection
<1>. DEFINE closes == [n \in 1..N |-> Task("close", order[n])]
<1>5. strand' = strand \o closes
  BY Zenon, <1>8
<1>6. \A n \in 1..N : /\ closes[n] \in TaskType /\ closes[n].op = "close"
                      /\ closes[n].room = order[n] /\ order[n] \in S
  <2>. SUFFICES ASSUME NEW n \in 1..N
                PROVE  /\ closes[n] \in TaskType /\ closes[n].op = "close"
                       /\ closes[n].room = order[n] /\ order[n] \in S
    BY Zenon
  <2>1. order[n] \in S /\ order[n] \in Rooms
    BY Zenon, <1>2, <1>4
  <2>2. closes[n] = Task("close", order[n])
    BY Zenon
  <2>. HIDE DEF closes
  <2>. QED
    BY <2>1, <2>2, RoomTaskType
<1>7. closes \in Seq(TaskType) /\ Len(closes) = N
  <2>1. closes \in [1..N -> TaskType]
    BY Zenon, <1>6
  <2>. HIDE DEF closes
  <2>. QED
    BY <1>3, <2>1
<1>. HIDE DEF closes, S
<1>9. /\ strand' \in Seq(TaskType)
      /\ Len(strand) \in Nat /\ Len(strand') = Len(strand) + N
      /\ \A n \in 1..Len(strand) : n \in 1..Len(strand') /\ strand'[n] = strand[n]
      /\ \A n \in 1..N : n + Len(strand) \in 1..Len(strand') /\ strand'[n + Len(strand)] = closes[n]
  <2>1. /\ strand' \in Seq(TaskType) /\ Len(strand) \in Nat /\ Len(strand') = Len(strand) + N
    <3>1. Len(strand) \in Nat
      OBVIOUS
    <3>2. strand \o closes \in Seq(TaskType) /\ Len(strand \o closes) = Len(strand) + Len(closes)
      BY Zenon, <1>7, ConcatFacts
    <3>. QED
      BY Zenon, <1>5, <1>7, <3>1, <3>2
  <2>2. \A n \in 1..Len(strand) : n \in 1..Len(strand') /\ strand'[n] = strand[n]
    BY <1>3, <1>5, <1>7, <2>1, ConcatFacts
  <2>3. ASSUME NEW n \in 1..N
        PROVE  n + Len(strand) \in 1..Len(strand') /\ strand'[n + Len(strand)] = closes[n]
    <3>1. n + Len(strand) \in 1..(Len(strand) + N) /\ ~(n + Len(strand) <= Len(strand))
          /\ (n + Len(strand)) - Len(strand) = n
      BY <1>3, <2>1
    <3>. QED
      BY <1>5, <1>7, <2>1, <3>1, ConcatFacts
  <2>. QED
    BY Zenon, <2>1, <2>2, <2>3
<1>10. \A n \in 1..Len(strand') : n \in 1..Len(strand) \/ (n > Len(strand) /\ n - Len(strand) \in 1..N)
  BY <1>3, <1>9
<1>11. \A n \in 1..Len(strand') : n > Len(strand) /\ n - Len(strand) \in 1..N =>
         strand'[n] = closes[n - Len(strand)]
  BY <1>3, <1>5, <1>7, <1>9, ConcatFacts
<1>12. \A n \in 1..Len(strand') :
              \/ n \in 1..Len(strand)
              \/ n > Len(strand) /\ strand'[n].op = "close" /\ strand'[n].room \in S
  BY Zenon, <1>6, <1>10, <1>11
<1>13. \A r \in S : \E n \in 1..Len(strand') : strand'[n].op = "close" /\ strand'[n].room = r
  <2>. SUFFICES ASSUME NEW r \in S
                PROVE  \E n \in 1..Len(strand') : strand'[n].op = "close" /\ strand'[n].room = r
    BY Zenon
  <2>1. PICK n \in 1..N : order[n] = r
    BY Zenon, <1>4
  <2>2. n + Len(strand) \in 1..Len(strand') /\ strand'[n + Len(strand)] = closes[n]
    BY Zenon, <1>9
  <2>3. closes[n].op = "close" /\ closes[n].room = order[n]
    BY Zenon, <1>6
  <2>. QED
    BY Zenon, <2>1, <2>2, <2>3
<1>. QED
  BY <1>3, <1>9, <1>12, <1>13 DEF S

-----------------------------------------------------------------------------
(* Type correctness *)

(* Every step keeps the types of registry and answers. *)
LEMMA KeysStep ==
  ASSUME TypeOK, [Next]_vars
  PROVE  KeysOk' /\ reply' \in [Requests -> Seq(BOOLEAN)] /\ mutated' \in SUBSET Requests
<1>. DEFINE Goal == KeysOk' /\ reply' \in [Requests -> Seq(BOOLEAN)] /\ mutated' \in SUBSET Requests
<1>0. /\ KeysOk /\ reply \in [Requests -> Seq(BOOLEAN)] /\ mutated \in SUBSET Requests
      /\ strand \in Seq(TaskType) /\ CurOk /\ RouterOk
  BY Zenon DEF TypeOK
<1>1. ASSUME UNCHANGED <<registryVars, historyVars>> PROVE Goal
  BY Zenon, <1>0, <1>1 DEF registryVars, historyVars, KeysOk
<1>2. ASSUME NEW k \in Requests, NEW message, Receive(k, message) PROVE Goal
  BY Zenon, <1>0, <1>2, AdmitKeys DEF Receive, historyVars
<1>3. ASSUME NEW k \in Requests, ReceiveRefused(k) \/ ReceiveCancel(k) PROVE Goal
  BY Zenon, <1>0, <1>3, RefuseKeys, CancelKeys DEF ReceiveRefused, ReceiveCancel, historyVars
<1>4. ASSUME CreateBegin \/ RequestWithoutRoom PROVE Goal
  <2>1. router.key \in Requests /\ Registry!TryStart(router.key) /\ UNCHANGED historyVars
    BY Zenon, <1>0, <1>4 DEF CreateBegin, RequestWithoutRoom, At, RouterOk
  <2>. QED
    BY Zenon, <1>0, <2>1, TryStartKeys DEF historyVars
<1>5. ASSUME BeginRequest PROVE Goal
  <2>1. strand[1].key \in Requests /\ Registry!TryStart(strand[1].key) /\ UNCHANGED historyVars
    BY Zenon, <1>0, <1>5, TakeFacts, TaskFacts DEF BeginRequest
  <2>. QED
    BY Zenon, <1>0, <2>1, TryStartKeys DEF historyVars
<1>6. ASSUME NEW r \in Rooms, NEW i \in RoomIds, CreateRoom(r, i) PROVE Goal
  <2>1. router.key \in Requests
    BY Zenon, <1>0, <1>6 DEF CreateRoom, At, RouterOk
  <2>2. KeysOk'
    BY Zenon, <1>0, <1>6, <2>1, FinishKeys DEF CreateRoom
  <2>3. reply' \in [Requests -> Seq(BOOLEAN)] /\ mutated' \in SUBSET Requests
    BY <1>0, <1>6, <2>1 DEF CreateRoom
  <2>. QED
    BY Zenon, <2>2, <2>3
<1>7. ASSUME RejectRequest PROVE Goal
  <2>1. router.key \in Requests
    BY Zenon, <1>0, <1>7 DEF RejectRequest, At, RouterOk
  <2>2. KeysOk'
    BY Zenon, <1>0, <1>7, <2>1, FinishKeys DEF RejectRequest
  <2>3. reply' \in [Requests -> Seq(BOOLEAN)] /\ mutated' \in SUBSET Requests
    BY <1>0, <1>7, <2>1 DEF RejectRequest
  <2>. QED
    BY Zenon, <2>2, <2>3
<1>8. ASSUME JoinBody \/ LeaveBody PROVE Goal
  <2>1. cur.task.key \in Requests
    BY Zenon, <1>0, <1>8, CurFacts DEF JoinBody, LeaveBody, Running
  <2>2. UNCHANGED <<registryVars, reply>> /\ mutated' \in {mutated, mutated \cup {cur.task.key}}
    BY Zenon, <1>8 DEF JoinBody, LeaveBody
  <2>. QED
    BY Zenon, <1>0, <2>1, <2>2 DEF registryVars, KeysOk
<1>9. ASSUME NEW success \in BOOLEAN, Complete(success), cur.task.op \in {"join", "leave"} PROVE Goal
  <2>1. cur.task.key \in Requests
    BY Zenon, <1>0, <1>9, CurFacts
  <2>2. KeysOk'
    BY Zenon, <1>0, <1>9, <2>1, FinishKeys DEF Complete
  <2>3. reply' \in [Requests -> Seq(BOOLEAN)] /\ mutated' \in SUBSET Requests
    BY <1>0, <1>9, <2>1 DEF Complete
  <2>. QED
    BY Zenon, <2>2, <2>3
<1>10. ASSUME JoinReply \/ LeaveReply PROVE Goal
  <2>1. cur.task.op \in {"join", "leave"} /\ \E success \in BOOLEAN : Complete(success)
    BY Zenon, <1>10 DEF JoinReply, LeaveReply, Running
  <2>. QED
    BY Zenon, <1>9, <2>1
<1>11. CASE Environment
  BY Zenon, <1>1, <1>2, <1>3, <1>11
     DEF Environment, ReceiveCreate, ReceiveJoin, ReceiveLeave, ReceiveForward, StopChannel
<1>12. CASE Router
  BY Zenon, <1>1, <1>4, <1>6, <1>7, <1>12
     DEF Router, LookupUser, PostRequest, ForwardWithoutRoom, FindForward, DeliverKick,
         DeliverChat, EchoToUsers, DeliverNull, DeliverRaces
<1>13. CASE Strand
  BY Zenon, <1>1, <1>5, <1>8, <1>10, <1>13
     DEF Strand, RunCreated, NotifyEnter, NotifyExit, CloseRoom, TakeClose, CloseImpl,
         ReleaseContents, RunKick, EraseKicked, RunSend
<1>14. CASE Main \/ Terminated \/ UNCHANGED vars
  BY Zenon, <1>1, <1>14 DEF Main, Shutdown, StopWorkers, Terminated, vars
<1>. QED
  BY Zenon, <1>11, <1>12, <1>13, <1>14 DEF Next

(* The rooms_ and user_rooms_ that With and Without leave. *)
LEMMA MapFacts ==
  ASSUME NEW map, NEW key, NEW value, NEW keys
  PROVE  /\ DOMAIN With(map, key, value) = DOMAIN map \cup {key}
         /\ With(map, key, value)[key] = value
         /\ \A k \in DOMAIN map : k # key => With(map, key, value)[k] = map[k]
         /\ Range(With(map, key, value)) \subseteq Range(map) \cup {value}
         /\ DOMAIN Without(map, keys) = DOMAIN map \ keys
         /\ \A k \in DOMAIN map \ keys : Without(map, keys)[k] = map[k]
         /\ Range(Without(map, keys)) \subseteq Range(map)
         /\ DOMAIN EmptyMap = {} /\ Range(EmptyMap) = {}
BY Zenon DEF With, Without, EmptyMap, Range

(* Every step keeps the types of the manager's maps and the rooms. *)
LEMMA RoomsStep ==
  ASSUME TypeOK, [Next]_vars
  PROVE  RoomsOk'
<1>0. RoomsOk /\ strand \in Seq(TaskType) /\ CurOk /\ RouterOk
  BY Zenon DEF TypeOK
<1>1. ASSUME UNCHANGED <<managerVars, roomVars, closing>> PROVE RoomsOk'
  BY Zenon, <1>0, <1>1 DEF managerVars, roomVars, RoomsOk
<1>2. ASSUME NEW r \in Rooms, NEW i \in RoomIds, CreateRoom(r, i) PROVE RoomsOk'
  <2>1. /\ rooms' = With(rooms, i, r) /\ userRooms' = With(userRooms, router.uid, i)
        /\ router.uid \in Users
    BY <1>0, <1>2 DEF CreateRoom, At, RouterOk, RouterType, NoMessage
  <2>2. DOMAIN rooms' \subseteq RoomIds /\ \A j \in DOMAIN rooms' : rooms'[j] \in Rooms
    BY Zenon, <1>0, <2>1 DEF With, RoomsOk
  <2>3. DOMAIN userRooms' \subseteq Users /\ \A u \in DOMAIN userRooms' : userRooms'[u] \in RoomIds
    BY Zenon, <1>0, <2>1 DEF With, RoomsOk
  <2>5. /\ roomId' \in [Rooms -> RoomIds \cup {None}] /\ users' \in [Rooms -> SUBSET Users]
        /\ life' \in [Rooms -> Lives] /\ contents' \in [Rooms -> {"null", "built", "created"}]
        /\ closing' \subseteq Rooms
    BY Zenon, <1>0, <1>2, <2>1 DEF CreateRoom, RoomsOk, Lives, mainVars
  <2>. QED
    BY Zenon, <2>2, <2>3, <2>5 DEF RoomsOk
<1>3. ASSUME JoinReply PROVE RoomsOk'
  <2>1. cur.task.uid \in Users
    BY Zenon, <1>0, <1>3, CurFacts DEF JoinReply, Running
  <2>2. UNCHANGED <<rooms, stopping, roomVars, closing>>
    BY Zenon, <1>3 DEF JoinReply, Complete, mainVars
  <2>3. \/ userRooms' = userRooms
        \/ /\ userRooms' = With(userRooms, cur.task.uid, roomId[cur.task.room])
           /\ roomId[cur.task.room] \in RoomIds
    BY Zenon, <1>0, <1>3 DEF JoinReply, Registered, RoomsOk
  <2>4. DOMAIN userRooms' \subseteq Users /\ \A u \in DOMAIN userRooms' : userRooms'[u] \in RoomIds
    BY Zenon, <1>0, <2>1, <2>3 DEF With, RoomsOk
  <2>. QED
    BY Zenon, <1>0, <2>2, <2>4 DEF RoomsOk, roomVars
<1>4. ASSUME LeaveReply PROVE RoomsOk'
  <2>2. UNCHANGED <<rooms, stopping, roomVars, closing>>
    BY Zenon, <1>4 DEF LeaveReply, Complete, mainVars
  <2>3. userRooms' = userRooms \/ userRooms' = Without(userRooms, {cur.task.uid})
    BY Zenon, <1>4 DEF LeaveReply
  <2>4. DOMAIN userRooms' \subseteq Users /\ \A u \in DOMAIN userRooms' : userRooms'[u] \in RoomIds
    BY Zenon, <1>0, <2>3 DEF Without, RoomsOk
  <2>. QED
    BY Zenon, <1>0, <2>2, <2>4 DEF RoomsOk, roomVars
<1>5. ASSUME JoinBody \/ LeaveBody \/ EraseKicked PROVE RoomsOk'
  <2>1. UNCHANGED <<managerVars, roomId, life, contents, closing>>
    BY Zenon, <1>5 DEF JoinBody, LeaveBody, EraseKicked, mainVars
  <2>2. users' \in [Rooms -> SUBSET Users]
    <3>1. cur.task.op = "join" => cur.task.uid \in Users
      BY Zenon, <1>0, CurFacts
    <3>2. \/ users' \in {users, [users EXCEPT ![cur.task.room] = @ \ {cur.task.uid}]}
          \/ /\ cur.task.op = "join"
             /\ users' = [users EXCEPT ![cur.task.room] = @ \cup {cur.task.uid}]
      BY Zenon, <1>5 DEF JoinBody, LeaveBody, EraseKicked, Running
    <3>. QED
      BY <1>0, <3>1, <3>2 DEF RoomsOk
  <2>. QED
    BY Zenon, <1>0, <2>1, <2>2 DEF RoomsOk, managerVars
<1>6. ASSUME CloseRoom PROVE RoomsOk'
  <2>1. UNCHANGED <<roomVars, closing>>
    BY Zenon, <1>6 DEF CloseRoom, mainVars
  <2>2. PICK keys, uids : /\ rooms' = rooms \/ rooms' = Without(rooms, keys)
                          /\ userRooms' = userRooms \/ userRooms' = Without(userRooms, uids)
    BY Zenon, <1>6 DEF CloseRoom
  <2>3. /\ DOMAIN rooms' \subseteq RoomIds /\ \A j \in DOMAIN rooms' : rooms'[j] \in Rooms
        /\ DOMAIN userRooms' \subseteq Users /\ \A u \in DOMAIN userRooms' : userRooms'[u] \in RoomIds
    BY Zenon, <1>0, <2>2 DEF Without, RoomsOk
  <2>. QED
    BY Zenon, <1>0, <2>1, <2>3 DEF RoomsOk, roomVars
<1>7. ASSUME RunCreated \/ CloseImpl \/ ReleaseContents PROVE RoomsOk'
  <2>1. UNCHANGED <<managerVars, roomId, users, closing>>
    BY Zenon, <1>7 DEF RunCreated, CloseImpl, ReleaseContents, mainVars
  <2>2. life' \in [Rooms -> Lives] /\ contents' \in [Rooms -> {"null", "built", "created"}]
    BY Zenon, <1>0, <1>7 DEF RunCreated, CloseImpl, ReleaseContents, RoomsOk, Lives
  <2>. QED
    BY Zenon, <1>0, <2>1, <2>2 DEF RoomsOk, managerVars
<1>8. ASSUME Shutdown PROVE RoomsOk'
  <2>1. UNCHANGED roomVars /\ rooms' = EmptyMap /\ userRooms' = EmptyMap /\ closing' = Range(rooms)
    BY Zenon, <1>8 DEF Shutdown
  <2>2. closing' \subseteq Rooms
    BY <1>0, <2>1 DEF RoomsOk, Range
  <2>3. DOMAIN rooms' = {} /\ Range(rooms') = {} /\ DOMAIN userRooms' = {}
    BY Zenon, <2>1, MapFacts
  <2>. QED
    BY Zenon, <1>0, <2>1, <2>2, <2>3 DEF RoomsOk, roomVars
<1>11. CASE Environment
  BY Zenon, <1>1, <1>11
     DEF Environment, ReceiveCreate, ReceiveJoin, ReceiveLeave, Receive, ReceiveForward,
         ReceiveRefused, ReceiveCancel, StopChannel, mainVars
<1>12. CASE Router
  BY Zenon, <1>1, <1>2, <1>12
     DEF Router, CreateBegin, RequestWithoutRoom, RejectRequest, LookupUser, PostRequest,
         ForwardWithoutRoom, FindForward, DeliverKick, DeliverChat, EchoToUsers, DeliverNull,
         DeliverRaces, mainVars
<1>13. CASE Strand
  BY Zenon, <1>1, <1>3, <1>4, <1>5, <1>6, <1>7, <1>13
     DEF Strand, BeginRequest, NotifyEnter, NotifyExit, TakeClose, RunKick, RunSend, mainVars
<1>14. CASE Main \/ Terminated \/ UNCHANGED vars
  BY Zenon, <1>1, <1>8, <1>14 DEF Main, StopWorkers, Terminated, vars, mainVars
<1>. QED
  BY Zenon, <1>11, <1>12, <1>13, <1>14 DEF Next

(* What every step does to the strand: nothing, take the head, post a task *)
(* that is no close() (a kick only when one was forwarded), or shut down.  *)
StrandMoves ==
  \/ strand' = strand
  \/ \E ops : Take(ops) /\ strand' = Tail(strand)
  \/ \E t \in TaskType : Post(t) /\ t.op # "close" /\ (t.op = "kick" => main = "running" /\ ~(Messages \subseteq {Chat}))
  \/ Shutdown

(* What a step does to the strand. *)
LEMMA StrandEffect ==
  ASSUME TypeOK, [Next]_vars
  PROVE  StrandMoves
<1>0. RoomsOk /\ strand \in Seq(TaskType) /\ CurOk /\ RouterOk
  BY Zenon DEF TypeOK
<1>1. ASSUME NEW r \in Rooms, NEW i \in RoomIds, CreateRoom(r, i) PROVE StrandMoves
  BY Zenon, <1>1, RoomTaskType DEF CreateRoom, StrandMoves
<1>2. ASSUME PostRequest PROVE StrandMoves
  <2>1. router \in RouterType /\ rooms[router.id] \in Rooms /\ router.key \in Requests
    BY <1>0, <1>2 DEF PostRequest, At, RouterOk, NoMessage, RoomsOk
  <2>2. router.op \in {"join", "leave"} /\ router.uid \in Users
    BY Zenon, <1>2, <2>1 DEF PostRequest, RouterType
  <2>. DEFINE t == [op |-> router.op, room |-> rooms[router.id], uid |-> router.uid, key |-> router.key]
  <2>3. t \in TaskType /\ t.op \notin {"close", "kick"}
    BY Zenon, <2>1, <2>2 DEF TaskType, RequestTask
  <2>4. Post(t)
    BY Zenon, <1>2 DEF PostRequest
  <2>. QED
    BY Zenon, <2>3, <2>4 DEF StrandMoves
<1>3. ASSUME DeliverKick PROVE StrandMoves
  <2>1. router.room \in Rooms /\ router.msg \in Users /\ main = "running" /\ ~(Messages \subseteq {Chat})
    BY Zenon, <1>0, <1>3, RoomServerAssumption DEF DeliverKick, At, RouterOk
  <2>. DEFINE t == [op |-> "kick", room |-> router.room, uid |-> router.msg, key |-> None]
  <2>2. t \in TaskType /\ t.op # "close"
    BY Zenon, <2>1 DEF TaskType, KickTask
  <2>3. Post(t)
    BY Zenon, <1>3 DEF DeliverKick
  <2>. QED
    BY Zenon, <2>1, <2>2, <2>3 DEF StrandMoves
<1>4. ASSUME EchoToUsers PROVE StrandMoves
  <2>1. Task("send", router.room) \in TaskType /\ Task("send", router.room).op = "send"
    BY Zenon, <1>0, <1>4, RoomTaskType DEF EchoToUsers, At, RouterOk
  <2>. QED
    BY Zenon, <1>4, <2>1 DEF EchoToUsers, StrandMoves
<1>5. ASSUME NotifyEnter \/ NotifyExit PROVE StrandMoves
  <2>1. cur.task.room \in Rooms
    BY Zenon, <1>0, <1>5, CurFacts DEF NotifyEnter, NotifyExit, Running
  <2>2. Task("send", cur.task.room) \in TaskType /\ Task("send", cur.task.room).op = "send"
    BY Zenon, <2>1, RoomTaskType
  <2>. QED
    BY Zenon, <1>5, <2>2 DEF NotifyEnter, NotifyExit, StrandMoves
<1>6. ASSUME \/ RunCreated \/ BeginRequest \/ TakeClose \/ RunKick \/ RunSend PROVE StrandMoves
  BY Zenon, <1>6 DEF RunCreated, BeginRequest, TakeClose, RunKick, RunSend, StrandMoves
<1>7. ASSUME strand' = strand PROVE StrandMoves
  BY Zenon, <1>7 DEF StrandMoves
<1>11. CASE Environment
  BY Zenon, <1>7, <1>11
     DEF Environment, ReceiveCreate, ReceiveJoin, ReceiveLeave, Receive, ReceiveForward,
         ReceiveRefused, ReceiveCancel, StopChannel
<1>12. CASE Router
  BY Zenon, <1>1, <1>2, <1>3, <1>4, <1>7, <1>12
     DEF Router, CreateBegin, RequestWithoutRoom, RejectRequest, LookupUser,
         ForwardWithoutRoom, FindForward, DeliverChat, DeliverNull, DeliverRaces
<1>13. CASE Strand
  BY Zenon, <1>5, <1>6, <1>7, <1>13
     DEF Strand, JoinBody, LeaveBody, JoinReply, LeaveReply, Complete, CloseRoom, CloseImpl,
         ReleaseContents, EraseKicked
<1>14. CASE Main \/ Terminated \/ UNCHANGED vars
  BY Zenon, <1>7, <1>14 DEF Main, StopWorkers, Terminated, vars, StrandMoves
<1>. QED
  BY Zenon, <1>11, <1>12, <1>13, <1>14 DEF Next

(* Every step keeps the strand's type. *)
LEMMA StrandStep ==
  ASSUME TypeOK, [Next]_vars
  PROVE  strand' \in Seq(TaskType)
<1>0. RoomsOk /\ strand \in Seq(TaskType)
  BY Zenon DEF TypeOK
<1>. QED
  BY Zenon, <1>0, StrandEffect, TakeFacts, PostFacts, ShutdownFacts DEF StrandMoves

(* Every step keeps the running task's type. *)
LEMMA CurStep ==
  ASSUME TypeOK, [Next]_vars
  PROVE  CurOk'
<1>0. strand \in Seq(TaskType) /\ CurOk /\ users \in [Rooms -> SUBSET Users]
  BY Zenon DEF TypeOK, RoomsOk
<1>1. ASSUME cur' = cur PROVE CurOk'
  BY Zenon, <1>0, <1>1 DEF CurOk
<1>2. ASSUME cur' = Idle PROVE CurOk'
  BY Zenon, <1>2 DEF CurOk, Idle
<1>3. ASSUME NEW task \in TaskType, NEW step,
             \/ task.op \in {"join", "leave"} /\ step \in {"body", "reply"}
             \/ task.op = "close" /\ step = "close"
             \/ task.op = "kick" /\ step = "kicked",
             cur' = [Idle EXCEPT !.task = task, !.step = step]
      PROVE  CurOk'
  <2>1. cur' = [task |-> task, step |-> step, done |-> FALSE, notify |-> FALSE]
    BY Zenon, <1>3 DEF Idle
  <2>2. cur' \in CurType
    <3>1. CASE task.op \in {"join", "leave"} /\ step \in {"body", "reply"}
      <4>1. task \in RequestTask
        BY Zenon, <3>1, TaskFacts
      <4>. QED
        BY Zenon, <2>1, <3>1, <4>1 DEF CurType
    <3>2. CASE task.op = "close" /\ step = "close"
      <4>1. task \in RoomTask
        BY Zenon, <3>2, TaskFacts
      <4>. QED
        BY Zenon, <2>1, <3>2, <4>1 DEF CurType
    <3>3. CASE task.op = "kick" /\ step = "kicked"
      <4>1. task \in KickTask
        BY Zenon, <3>3, TaskFacts
      <4>. QED
        BY Zenon, <2>1, <3>3, <4>1 DEF CurType
    <3>. QED
      BY Zenon, <1>3, <3>1, <3>2, <3>3
  <2>. QED
    BY Zenon, <1>3, <2>1, <2>2 DEF CurOk
<1>4. ASSUME Running({"join", "leave"}, "body"),
             \/ cur' = [cur EXCEPT !.step = "reply"]
             \/ \E b \in BOOLEAN : cur' = [cur EXCEPT !.step = "reply", !.done = TRUE, !.notify = b]
      PROVE  CurOk'
  <2>1. cur \in [task : RequestTask, step : {"body", "reply", "notify", "empty", "close", "destroy"},
                 done : BOOLEAN, notify : BOOLEAN]
    BY Zenon, <1>0, <1>4, CurFacts DEF Running, CurType, KickTask, RoomTask
  <2>2. cur' \in CurType /\ cur'.step = "reply"
    BY Zenon, <1>4, <2>1 DEF CurType
  <2>. QED
    BY Zenon, <2>2 DEF CurOk
<1>5. ASSUME NEW step \in {"notify", "empty", "close", "destroy"},
             cur.step \in {"reply", "notify", "empty", "close"}, cur.task.op \in {"join", "leave"},
             step # "notify" => cur.task.op = "leave",
             cur' = [cur EXCEPT !.step = step]
      PROVE  CurOk'
  <2>1. cur \in [task : RequestTask, step : {"body", "reply", "notify", "empty", "close", "destroy"},
                 done : BOOLEAN, notify : BOOLEAN]
    BY Zenon, <1>0, <1>5, CurFacts DEF CurType, KickTask, RoomTask
  <2>2. cur' \in CurType /\ cur'.step = step /\ cur'.task = cur.task
    BY Zenon, <1>5, <2>1 DEF CurType
  <2>. QED
    BY Zenon, <1>5, <2>2 DEF CurOk
<1>6. ASSUME cur.step = "close", cur.task.op = "close", cur' = [cur EXCEPT !.step = "destroy"]
      PROVE  CurOk'
  <2>1. cur \in [task : RoomTask, step : {"close", "destroy"}, done : BOOLEAN, notify : BOOLEAN]
    BY Zenon, <1>0, <1>6, CurFacts DEF CurType, KickTask, RequestTask
  <2>2. cur' \in CurType /\ cur'.step = "destroy" /\ cur'.task = cur.task
    BY Zenon, <1>6, <2>1 DEF CurType
  <2>. QED
    BY Zenon, <1>6, <2>2 DEF CurOk
<1>7. CASE BeginRequest \/ TakeClose \/ RunKick
  <2>1. ASSUME NEW ops, Take(ops), strand' = Tail(strand)
        PROVE  Head(strand) \in TaskType /\ Head(strand).op \in ops
    BY Zenon, <1>0, <2>1, TakeFacts
  <2>2. CASE BeginRequest
    <3>1. Head(strand) \in TaskType /\ Head(strand).op \in {"join", "leave"}
      BY Zenon, <2>1, <2>2 DEF BeginRequest
    <3>2. \E step \in {"body", "reply"} : cur' = [Idle EXCEPT !.task = Head(strand), !.step = step]
      BY Zenon, <2>2 DEF BeginRequest
    <3>. QED
      BY Zenon, <1>3, <3>1, <3>2
  <2>3. CASE TakeClose
    <3>1. Head(strand) \in TaskType /\ Head(strand).op = "close"
      BY <2>1, <2>3 DEF TakeClose
    <3>2. cur' = [Idle EXCEPT !.task = Head(strand), !.step = "close"]
      BY Zenon, <2>3 DEF TakeClose
    <3>. QED
      BY Zenon, <1>3, <3>1, <3>2
  <2>4. CASE RunKick
    <3>1. Head(strand) \in TaskType /\ Head(strand).op = "kick"
      BY <2>1, <2>4 DEF RunKick
    <3>2. cur' = Idle \/ cur' = [Idle EXCEPT !.task = Head(strand), !.step = "kicked"]
      BY Zenon, <2>4 DEF RunKick
    <3>. QED
      BY Zenon, <1>2, <1>3, <3>1, <3>2
  <2>. QED
    BY Zenon, <1>7, <2>2, <2>3, <2>4
<1>8. CASE JoinBody \/ LeaveBody
  BY Zenon, <1>4, <1>8 DEF JoinBody, LeaveBody, Running
<1>9. CASE JoinReply \/ LeaveReply
  <2>1. cur.step = "reply" /\ cur.task.op \in {"join", "leave"}
        /\ (cur' = Idle \/ cur' = [cur EXCEPT !.step = "notify"])
    BY Zenon, <1>9 DEF JoinReply, LeaveReply, Running, Complete
  <2>. QED
    BY Zenon, <1>2, <1>5, <2>1
<1>10. CASE NotifyExit \/ CloseRoom \/ CloseImpl
  <2>1. \/ cur' = Idle
        \/ /\ cur.task.op = "leave" /\ cur.step \in {"notify", "empty", "close"}
           /\ \E step \in {"empty", "close", "destroy"} : cur' = [cur EXCEPT !.step = step]
        \/ cur.step = "close" /\ cur.task.op = "close" /\ cur' = [cur EXCEPT !.step = "destroy"]
    BY Zenon, <1>10 DEF NotifyExit, CloseRoom, CloseImpl, Running
  <2>. QED
    BY Zenon, <1>2, <1>5, <1>6, <2>1
<1>11. CASE Environment
  BY Zenon, <1>1, <1>11
     DEF Environment, ReceiveCreate, ReceiveJoin, ReceiveLeave, Receive, ReceiveForward,
         ReceiveRefused, ReceiveCancel, StopChannel
<1>12. CASE Router
  BY Zenon, <1>1, <1>12
     DEF Router, CreateBegin, CreateRoom, RequestWithoutRoom, RejectRequest, LookupUser,
         PostRequest, ForwardWithoutRoom, FindForward, DeliverKick, DeliverChat, EchoToUsers,
         DeliverNull, DeliverRaces
<1>13. CASE Strand
  BY Zenon, <1>1, <1>2, <1>7, <1>8, <1>9, <1>10, <1>13
     DEF Strand, RunCreated, NotifyEnter, ReleaseContents, EraseKicked, RunSend
<1>14. CASE Main \/ Terminated \/ UNCHANGED vars
  BY Zenon, <1>1, <1>14 DEF Main, Shutdown, StopWorkers, Terminated, vars
<1>. QED
  BY Zenon, <1>11, <1>12, <1>13, <1>14 DEF Next

(* Every step keeps the router's and the main thread's types. *)
LEMMA RouterStep ==
  ASSUME TypeOK, [Next]_vars
  PROVE  RouterOk' /\ main' \in {"running", "joined", "closing", "stopped", "crashed"}
<1>. DEFINE Goal == RouterOk' /\ main' \in {"running", "joined", "closing", "stopped", "crashed"}
<1>0. /\ RouterOk /\ RoomsOk
      /\ main \in {"running", "joined", "closing", "stopped", "crashed"}
  BY Zenon DEF TypeOK
<1>1. ASSUME UNCHANGED <<router, main>> PROVE Goal
  BY Zenon, <1>0, <1>1 DEF RouterOk
<1>2. ASSUME router' = NoMessage, main' = main PROVE Goal
  BY Zenon, <1>0, <1>2 DEF RouterOk, NoMessage
<1>3. ASSUME router' = router,
             \/ main' = "crashed"
             \/ router.pc = "recv" /\ main' \in {"joined", "closing", "stopped"}
      PROVE  Goal
  BY Zenon, <1>0, <1>3 DEF RouterOk
<1>4. ASSUME NEW k \in Requests, NEW u \in Users,
             ReceiveCreate(k, u) \/ ReceiveLeave(k, u) \/ \E i \in RoomIds : ReceiveJoin(k, u, i)
      PROVE  Goal
  <2>1. main = "running" /\ main' = main
    BY Zenon, <1>4 DEF ReceiveCreate, ReceiveJoin, ReceiveLeave, Receive, Ready, mainVars
  <2>2. CASE ReceiveCreate(k, u)
    <3>1. router' = [pc |-> "begin", op |-> "create", key |-> k, uid |-> u, id |-> None,
                     room |-> None, msg |-> None, to |-> {}]
      BY Zenon, <2>2 DEF ReceiveCreate, Receive, NoMessage
    <3>. QED
      BY Zenon, <2>1, <3>1 DEF RouterOk, RouterType
  <2>3. CASE ReceiveLeave(k, u)
    <3>1. router' = [pc |-> "lookup", op |-> "leave", key |-> k, uid |-> u, id |-> None,
                     room |-> None, msg |-> None, to |-> {}]
      BY Zenon, <2>3 DEF ReceiveLeave, Receive, NoMessage
    <3>. QED
      BY Zenon, <2>1, <3>1 DEF RouterOk, RouterType
  <2>4. ASSUME NEW i \in RoomIds, ReceiveJoin(k, u, i) PROVE Goal
    <3>1. router' = [pc |-> "find", op |-> "join", key |-> k, uid |-> u, id |-> i,
                     room |-> None, msg |-> None, to |-> {}]
      BY Zenon, <2>4 DEF ReceiveJoin, Receive, NoMessage
    <3>. QED
      BY Zenon, <2>1, <3>1 DEF RouterOk, RouterType
  <2>. QED
    BY Zenon, <1>4, <2>2, <2>3, <2>4
<1>5. ASSUME NEW u \in Users, NEW msg \in Messages, ReceiveForward(u, msg) PROVE Goal
  <2>1. /\ main = "running" /\ main' = main
        /\ router' = [pc |-> "lookup", op |-> "forward", key |-> None, uid |-> u, id |-> None,
                      room |-> None, msg |-> msg, to |-> {}]
    BY Zenon, <1>5 DEF ReceiveForward, Ready, mainVars, NoMessage
  <2>. QED
    BY Zenon, <2>1 DEF RouterOk, RouterType
<1>6. ASSUME CreateBegin \/ RequestWithoutRoom PROVE Goal
  <2>1. /\ router \in RouterType /\ main' = main
        /\ \/ router.op = "create" /\ router' = [router EXCEPT !.pc = "create"]
           \/ router.op \in {"join", "leave"} /\ router' = [router EXCEPT !.pc = "reject"]
    BY <1>0, <1>6 DEF CreateBegin, RequestWithoutRoom, FindsNoRoom, At, RouterOk, NoMessage, mainVars
  <2>2. router.pc # "recv" /\ router.key \in Requests
    BY Zenon, <1>0, <2>1 DEF RouterOk, RouterType
  <2>3. /\ router' \in RouterType /\ router'.op = router.op /\ router'.key = router.key
        /\ router'.pc \in {"create", "reject"} /\ (router'.pc = "create" <=> router'.op = "create")
    BY Zenon, <2>1 DEF RouterType
  <2>. QED
    BY Zenon, <1>0, <2>1, <2>2, <2>3 DEF RouterOk
<1>7. ASSUME LookupUser PROVE Goal
  <2>1. /\ router \in RouterType /\ router.pc = "lookup" /\ main' = main
        /\ \E i \in RoomIds : router' = [router EXCEPT !.pc = "find", !.id = i]
    <3>1. router.pc = "lookup" /\ main' = main
      BY Zenon, <1>7 DEF LookupUser, At, mainVars
    <3>2. router \in RouterType
      BY <1>0, <3>1 DEF RouterOk, NoMessage
    <3>3. userRooms[router.uid] \in RoomIds
      BY Zenon, <1>0, <1>7 DEF LookupUser, RoomsOk
    <3>4. router' = [router EXCEPT !.pc = "find", !.id = userRooms[router.uid]]
      BY Zenon, <1>7 DEF LookupUser
    <3>. QED
      BY Zenon, <3>1, <3>2, <3>3, <3>4
  <2>2. /\ router' \in RouterType /\ router'.op = router.op /\ router'.key = router.key
        /\ router'.msg = router.msg /\ router'.pc = "find" /\ router'.id \in RoomIds
    BY Zenon, <2>1 DEF RouterType
  <2>. QED
    BY Zenon, <1>0, <2>1, <2>2 DEF RouterOk
<1>8. ASSUME FindForward \/ DeliverChat PROVE Goal
  <2>1. /\ router \in RouterType /\ router.op = "forward" /\ main' = main /\ router.pc # "recv"
        /\ \/ \E r \in Rooms : router' = [router EXCEPT !.pc = "call", !.room = r]
           \/ /\ router.room \in Rooms
              /\ \E S \in SUBSET Users : router' = [router EXCEPT !.pc = "echo", !.to = S]
    <3>1. router.pc \in {"find", "call"} /\ main' = main
      BY Zenon, <1>8 DEF FindForward, DeliverChat, At, mainVars
    <3>2. router \in RouterType
      BY <1>0, <3>1 DEF RouterOk, NoMessage
    <3>3. CASE FindForward
      <4>1. rooms[router.id] \in Rooms
        BY Zenon, <1>0, <3>3 DEF FindForward, RoomsOk
      <4>2. router' = [router EXCEPT !.pc = "call", !.room = rooms[router.id]] /\ router.op = "forward"
        BY Zenon, <3>3 DEF FindForward
      <4>. QED
        BY Zenon, <3>1, <3>2, <4>1, <4>2
    <3>4. CASE DeliverChat
      <4>1. router.room \in Rooms /\ router.op = "forward"
        BY Zenon, <1>0, <3>4 DEF DeliverChat, At, RouterOk
      <4>2. users[router.room] \in SUBSET Users
        BY Zenon, <1>0, <4>1 DEF RoomsOk
      <4>3. router' = [router EXCEPT !.pc = "echo", !.to = users[router.room]]
        BY Zenon, <3>4 DEF DeliverChat
      <4>. QED
        BY Zenon, <3>1, <3>2, <4>1, <4>2, <4>3
    <3>. QED
      BY Zenon, <1>8, <3>3, <3>4
  <2>2. /\ router' \in RouterType /\ router'.op = router.op /\ router'.room \in Rooms
        /\ router'.msg = router.msg /\ router'.pc \in {"call", "echo"}
    BY Zenon, <2>1 DEF RouterType
  <2>. QED
    BY Zenon, <1>0, <2>1, <2>2 DEF RouterOk
<1>9. ASSUME StopChannel \/ Shutdown \/ StopWorkers \/ DeliverNull \/ DeliverRaces PROVE Goal
  <2>1. NoMessage.pc = "recv"
    BY Zenon DEF NoMessage
  <2>. QED
    BY Zenon, <1>0, <1>3, <1>9, <2>1 DEF StopChannel, Shutdown, StopWorkers, DeliverNull, DeliverRaces, RouterOk
<1>11. CASE Environment
  BY Zenon, <1>1, <1>4, <1>5, <1>9, <1>11 DEF Environment, ReceiveRefused, ReceiveCancel, mainVars
<1>12. CASE Router
  BY Zenon, <1>1, <1>2, <1>6, <1>7, <1>8, <1>9, <1>12
     DEF Router, CreateRoom, RejectRequest, PostRequest, ForwardWithoutRoom, DeliverKick,
         EchoToUsers, mainVars
<1>13. CASE Strand
  BY Zenon, <1>1, <1>13
     DEF Strand, RunCreated, BeginRequest, JoinBody, LeaveBody, JoinReply, LeaveReply, Complete,
         NotifyEnter, NotifyExit, CloseRoom, TakeClose, CloseImpl, ReleaseContents, RunKick,
         EraseKicked, RunSend, mainVars
<1>14. CASE Main \/ Terminated \/ UNCHANGED vars
  BY Zenon, <1>1, <1>9, <1>14 DEF Main, Terminated, vars, mainVars
<1>. QED
  BY Zenon, <1>11, <1>12, <1>13, <1>14 DEF Next

(* The types hold at the start. *)
LEMMA TypeInit == Init => TypeOK
<1>. SUFFICES ASSUME Init PROVE TypeOK
  BY Zenon
<1>1. KeysOk
  BY Zenon DEF Init, Registry!Init, KeysOk, Registry!EmptyMap
<1>2. RoomsOk
  <2>1. DOMAIN rooms = {} /\ Range(rooms) = {} /\ DOMAIN userRooms = {}
    BY Zenon, MapFacts DEF Init
  <2>. QED
    BY Zenon, <2>1 DEF Init, RoomsOk, Lives
<1>3. CurOk /\ RouterOk
  BY Zenon DEF Init, CurOk, RouterOk, Idle, NoMessage
<1>. QED
  BY <1>1, <1>2, <1>3 DEF Init, TypeOK

(* Every step keeps the types. *)
LEMMA TypeStep ==
  ASSUME TypeOK, [Next]_vars
  PROVE  TypeOK'
BY Zenon, KeysStep, RoomsStep, StrandStep, CurStep, RouterStep DEF TypeOK

-----------------------------------------------------------------------------
(* Requests *)

(* The tasks that carry a request stay, in order; a task may be taken. *)
SameKeyed ==
  \E shift \in {0, 1} : \A n \in 1..Len(strand') :
    Carries(n)' => n + shift \in 1..Len(strand) /\ strand'[n] = strand[n + shift]

(* The requests on a strand that is left alone. *)
LEMMA KeyedSame ==
  ASSUME TypeOK, strand' = strand
  PROVE  SameKeyed
<1>1. Len(strand) \in Nat
  BY DEF TypeOK
<1>2. \A n \in 1..Len(strand') : n + 0 \in 1..Len(strand) /\ strand'[n] = strand[n + 0]
  BY <1>1
<1>. QED
  BY Zenon, <1>2 DEF SameKeyed

(* Taking a task brings no request to the strand. *)
LEMMA KeyedTake ==
  ASSUME TypeOK, NEW ops, Take(ops), strand' = Tail(strand)
  PROVE  SameKeyed
<1>1. \A n \in 1..Len(strand') : n + 1 \in 1..Len(strand) /\ strand'[n] = strand[n + 1]
  BY Zenon, TakeFacts DEF TypeOK
<1>. QED
  BY Zenon, <1>1 DEF SameKeyed

(* Posting a task without a request brings none. *)
LEMMA KeyedPost ==
  ASSUME TypeOK, NEW t \in TaskType, Post(t), t.op \notin {"join", "leave"}
  PROVE  SameKeyed
<1>1. Len(strand) \in Nat
  BY DEF TypeOK
<1>2. \A n \in 1..Len(strand') : Carries(n)' => n \in 1..Len(strand) /\ strand'[n] = strand[n]
  BY Zenon, PostFacts DEF TypeOK, Carries
<1>3. \A n \in 1..Len(strand') : Carries(n)' => n + 0 \in 1..Len(strand) /\ strand'[n] = strand[n + 0]
  BY <1>1, <1>2
<1>. QED
  BY Zenon, <1>3 DEF SameKeyed

(* The closes of shutdown() bring none. *)
LEMMA KeyedShutdown ==
  ASSUME TypeOK, Shutdown
  PROVE  SameKeyed
<1>1. Len(strand) \in Nat
  BY DEF TypeOK
<1>2. \A n \in 1..Len(strand') : Carries(n)' => n \in 1..Len(strand) /\ strand'[n] = strand[n]
  BY Zenon, ShutdownFacts DEF TypeOK, Carries
<1>3. \A n \in 1..Len(strand') : Carries(n)' => n + 0 \in 1..Len(strand) /\ strand'[n] = strand[n + 0]
  BY <1>1, <1>2
<1>. QED
  BY Zenon, <1>3 DEF SameKeyed

(* Every step but the posting of a request keeps the tasks that carry one. *)
LEMMA KeyedEffect ==
  ASSUME TypeOK, [Next]_vars, ~PostRequest
  PROVE  SameKeyed
<1>0. RoomsOk /\ strand \in Seq(TaskType) /\ CurOk /\ RouterOk
  BY Zenon DEF TypeOK
<1>1. ASSUME NEW r \in Rooms, NEW op \in {"created", "send", "close"}, Post(Task(op, r)) PROVE SameKeyed
  BY Zenon, <1>1, RoomTaskType, KeyedPost
<1>2. ASSUME NEW r \in Rooms, NEW i \in RoomIds, CreateRoom(r, i) PROVE SameKeyed
  BY Zenon, <1>1, <1>2 DEF CreateRoom
<1>3. ASSUME DeliverKick PROVE SameKeyed
  <2>1. router.room \in Rooms /\ router.msg \in Users
    BY Zenon, <1>0, <1>3, RoomServerAssumption DEF DeliverKick, At, RouterOk
  <2>2. [op |-> "kick", room |-> router.room, uid |-> router.msg, key |-> None] \in TaskType
    BY Zenon, <2>1 DEF TaskType, KickTask
  <2>3. [op |-> "kick", room |-> router.room, uid |-> router.msg, key |-> None].op \notin {"join", "leave"}
    BY Zenon
  <2>. QED
    BY Zenon, <1>3, <2>2, <2>3, KeyedPost DEF DeliverKick
<1>4. ASSUME EchoToUsers PROVE SameKeyed
  <2>1. router.room \in Rooms
    BY Zenon, <1>0, <1>4 DEF EchoToUsers, At, RouterOk
  <2>. QED
    BY Zenon, <1>1, <1>4, <2>1, KeyedSame DEF EchoToUsers
<1>5. ASSUME NotifyEnter \/ NotifyExit PROVE SameKeyed
  <2>1. cur.task.room \in Rooms
    BY Zenon, <1>0, <1>5, CurFacts DEF NotifyEnter, NotifyExit, Running
  <2>. QED
    BY Zenon, <1>1, <1>5, <2>1 DEF NotifyEnter, NotifyExit
<1>6. ASSUME \/ RunCreated \/ BeginRequest \/ TakeClose \/ RunKick \/ RunSend PROVE SameKeyed
  BY Zenon, <1>6, KeyedTake DEF RunCreated, BeginRequest, TakeClose, RunKick, RunSend
<1>7. ASSUME strand' = strand PROVE SameKeyed
  BY Zenon, <1>7, KeyedSame
<1>11. CASE Environment
  BY Zenon, <1>7, <1>11
     DEF Environment, ReceiveCreate, ReceiveJoin, ReceiveLeave, Receive, ReceiveForward,
         ReceiveRefused, ReceiveCancel, StopChannel
<1>12. CASE Router
  BY Zenon, <1>2, <1>3, <1>4, <1>7, <1>12
     DEF Router, CreateBegin, RequestWithoutRoom, RejectRequest, LookupUser,
         ForwardWithoutRoom, FindForward, DeliverChat, DeliverNull, DeliverRaces
<1>13. CASE Strand
  BY Zenon, <1>5, <1>6, <1>7, <1>13
     DEF Strand, JoinBody, LeaveBody, JoinReply, LeaveReply, Complete, CloseRoom, CloseImpl,
         ReleaseContents, EraseKicked
<1>14. CASE Main \/ Terminated \/ UNCHANGED vars
  BY Zenon, <1>7, <1>14, KeyedShutdown DEF Main, StopWorkers, Terminated, vars
<1>. QED
  BY Zenon, <1>11, <1>12, <1>13, <1>14 DEF Next

(* When no task takes up a request, it is enough that the requests of the  *)
(* waiting tasks stay active and unstarted, and are taken up nowhere else. *)
LEMMA CarriesKept ==
  ASSUME TypeOK, StrandCarries, CarriedApart, SameKeyed,
         \A n \in 1..Len(strand) : Carries(n) =>
           /\ strand[n].key \in DOMAIN active'
           /\ ticket'[strand[n].key] \in {"queued", "cancelled"}
           /\ strand[n].key # router'.key
           /\ cur'.step \in {"body", "reply"} => strand[n].key # cur'.task.key
  PROVE  StrandCarries' /\ CarriedApart'
<1>1. PICK shift \in {0, 1} : \A n \in 1..Len(strand') :
        Carries(n)' => n + shift \in 1..Len(strand) /\ strand'[n] = strand[n + shift]
  BY Zenon DEF SameKeyed
<1>2. \A n \in 1..Len(strand') : Carries(n)' => Carries(n + shift)
  BY Zenon, <1>1 DEF Carries
<1>3. StrandCarries'
  BY Zenon, <1>1, <1>2 DEF StrandCarries
<1>4. CarriedApart'
  <2>. SUFFICES ASSUME NEW m \in 1..Len(strand'), NEW n \in 1..Len(strand'), Carries(m)', Carries(n)',
                       strand'[m].key = strand'[n].key
                PROVE  m = n
    BY Zenon DEF CarriedApart
  <2>1. m + shift = n + shift
    BY Zenon, <1>1, <1>2 DEF CarriedApart
  <2>. QED
    BY <2>1
<1>. QED
  BY Zenon, <1>3, <1>4

(* Steps that pass no request on keep them carried once. *)
LEMMA CarriedQuiet ==
  ASSUME TypeOK, Carried, SameKeyed, UNCHANGED <<ticket, active>>,
         \/ router' = router
         \/ ~HasRequest' /\ router'.key = None
         \/ /\ router'.op = router.op /\ router'.key = router.key
            /\ router.pc \notin {"create", "reject"} /\ router'.pc \notin {"create", "reject"},
         cur'.step \notin {"body", "reply"} \/ cur' = cur
  PROVE  Carried'
<1>1. None \notin Requests /\ DOMAIN active \subseteq Requests
  BY Zenon, RoomServerAssumption DEF TypeOK, KeysOk
<1>2. RouterCarries'
  BY Zenon DEF Carried, RouterCarries, HasRequest
<1>3. router'.key \in {router.key, None}
  BY Zenon
<1>4. CurCarries'
  BY Zenon, <1>1, <1>3 DEF Carried, CurCarries
<1>5. StrandCarries' /\ CarriedApart'
  <2>1. \A n \in 1..Len(strand) : Carries(n) =>
           /\ strand[n].key \in DOMAIN active'
           /\ ticket'[strand[n].key] \in {"queued", "cancelled"}
           /\ strand[n].key # router'.key
           /\ cur'.step \in {"body", "reply"} => strand[n].key # cur'.task.key
    BY Zenon, <1>1, <1>3 DEF Carried, StrandCarries
  <2>. QED
    BY Zenon, <2>1, CarriesKept DEF Carried
<1>. QED
  BY Zenon, <1>2, <1>4, <1>5 DEF Carried

(* A request that arrives is carried by the router, if admitted. *)
LEMMA CarriedReceive ==
  ASSUME TypeOK, Carried, NEW k \in Requests, NEW u,
         ReceiveCreate(k, u) \/ ReceiveLeave(k, u) \/ \E i \in RoomIds : ReceiveJoin(k, u, i)
  PROVE  Carried'
<1>1. /\ Registry!Admit(k, k, 0) /\ strand' = strand /\ cur' = cur
      /\ router'.key = k /\ router'.pc \notin {"create", "reject"}
  BY Zenon DEF ReceiveCreate, ReceiveLeave, ReceiveJoin, Receive, NoMessage
<1>2. /\ k \notin DOMAIN active /\ ticket' = [ticket EXCEPT ![k] = "queued"]
      /\ DOMAIN active' = DOMAIN active \cup {k}
      /\ ticket \in [Requests -> {"unused", "queued", "started", "cancelled"}]
      /\ DOMAIN active \subseteq Requests
  BY Zenon, <1>1, AdmitKeys DEF TypeOK, KeysOk
<1>3. RouterCarries'
  BY Zenon, <1>1, <1>2 DEF RouterCarries
<1>4. CurCarries'
  BY Zenon, <1>1, <1>2 DEF Carried, CurCarries
<1>5. SameKeyed
  BY Zenon, <1>1, KeyedSame
<1>6. \A n \in 1..Len(strand) : Carries(n) =>
        /\ strand[n].key \in DOMAIN active'
        /\ ticket'[strand[n].key] \in {"queued", "cancelled"}
        /\ strand[n].key # router'.key
        /\ cur'.step \in {"body", "reply"} => strand[n].key # cur'.task.key
  BY Zenon, <1>1, <1>2 DEF Carried, StrandCarries
<1>. QED
  BY Zenon, <1>3, <1>4, <1>5, <1>6, CarriesKept DEF Carried

(* A cancellation leaves the request with who carries it. *)
LEMMA CarriedCancel ==
  ASSUME TypeOK, Carried, NEW k \in Requests, ReceiveCancel(k)
  PROVE  Carried'
<1>1. /\ Registry!Cancel(k, 0) /\ strand' = strand /\ cur' = cur /\ router' = router
      /\ router.pc = "recv"
  BY Zenon DEF ReceiveCancel, Ready, At
<1>2. ~HasRequest' /\ router'.key = None
  BY <1>1 DEF TypeOK, RouterOk, RouterType, NoMessage, HasRequest
<1>3. /\ active' = active /\ DOMAIN active \subseteq Requests
      /\ \A j \in Requests : \/ ticket'[j] = ticket[j]
                             \/ ticket[j] = "queued" /\ ticket'[j] = "cancelled"
  BY Zenon, <1>1, CancelKeys DEF TypeOK, KeysOk
<1>4. RouterCarries'
  BY Zenon, <1>2 DEF RouterCarries
<1>5. CurCarries'
  BY Zenon, <1>1, <1>3 DEF Carried, CurCarries
<1>6. SameKeyed
  BY Zenon, <1>1, KeyedSame
<1>7. \A n \in 1..Len(strand) : Carries(n) =>
        /\ strand[n].key \in DOMAIN active'
        /\ ticket'[strand[n].key] \in {"queued", "cancelled"}
        /\ strand[n].key # router'.key
        /\ cur'.step \in {"body", "reply"} => strand[n].key # cur'.task.key
  BY Zenon, <1>1, <1>3 DEF Carried, StrandCarries
<1>. QED
  BY Zenon, <1>4, <1>5, <1>6, <1>7, CarriesKept DEF Carried

(* begin() on the router thread. *)
LEMMA CarriedBegin ==
  ASSUME TypeOK, Carried, CreateBegin \/ RequestWithoutRoom
  PROVE  Carried'
<1>1. /\ router.op \in {"create", "join", "leave"} /\ router.key \in Requests
      /\ router.pc \notin {"create", "reject"} /\ router \in RouterType
  BY DEF CreateBegin, RequestWithoutRoom, FindsNoRoom, At, TypeOK, RouterOk, NoMessage
<1>2. /\ Registry!TryStart(router.key) /\ strand' = strand /\ cur' = cur
      /\ router'.key = router.key /\ router'.pc \in {"create", "reject"}
  BY Zenon, <1>1 DEF CreateBegin, RequestWithoutRoom, RouterType
<1>3. /\ active' = active /\ DOMAIN active \subseteq Requests
      /\ ticket' = [ticket EXCEPT ![router.key] = IF @ = "queued" THEN "started" ELSE @]
      /\ ticket \in [Requests -> {"unused", "queued", "started", "cancelled"}]
  BY Zenon, <1>1, <1>2, TryStartKeys DEF TypeOK, KeysOk
<1>4. RouterCarries'
  BY Zenon, <1>1, <1>2, <1>3 DEF Carried, RouterCarries, HasRequest
<1>5. CurCarries'
  BY Zenon, <1>2, <1>3 DEF Carried, CurCarries
<1>6. SameKeyed
  BY Zenon, <1>2, KeyedSame
<1>7. \A n \in 1..Len(strand) : Carries(n) =>
        /\ strand[n].key \in DOMAIN active'
        /\ ticket'[strand[n].key] \in {"queued", "cancelled"}
        /\ strand[n].key # router'.key
        /\ cur'.step \in {"body", "reply"} => strand[n].key # cur'.task.key
  BY Zenon, <1>2, <1>3 DEF Carried, StrandCarries
<1>. QED
  BY Zenon, <1>4, <1>5, <1>6, <1>7, CarriesKept DEF Carried

(* complete() on the router thread. *)
LEMMA CarriedAnswer ==
  ASSUME TypeOK, Carried, SameKeyed,
         RejectRequest \/ \E r \in Rooms, i \in RoomIds : CreateRoom(r, i)
  PROVE  Carried'
<1>1. router.key \in Requests
  BY Zenon DEF RejectRequest, CreateRoom, At, TypeOK, RouterOk
<1>2. Registry!Finish(router.key, router.key, 0) /\ cur' = cur /\ router' = NoMessage
  BY Zenon DEF RejectRequest, CreateRoom
<1>3. /\ DOMAIN active' = DOMAIN active \ {router.key} /\ ticket' = ticket
      /\ DOMAIN active \subseteq Requests
  BY Zenon, <1>1, <1>2, FinishKeys DEF TypeOK, KeysOk
<1>4. ~HasRequest' /\ router'.key = None
  BY Zenon, <1>2 DEF HasRequest, NoMessage
<1>5. None \notin Requests
  BY Zenon, RoomServerAssumption
<1>6. RouterCarries'
  BY Zenon, <1>4 DEF RouterCarries
<1>7. CurCarries'
  BY Zenon, <1>2, <1>3, <1>4, <1>5 DEF Carried, CurCarries
<1>8. \A n \in 1..Len(strand) : Carries(n) =>
        /\ strand[n].key \in DOMAIN active'
        /\ ticket'[strand[n].key] \in {"queued", "cancelled"}
        /\ strand[n].key # router'.key
        /\ cur'.step \in {"body", "reply"} => strand[n].key # cur'.task.key
  BY Zenon, <1>2, <1>3, <1>4, <1>5 DEF Carried, StrandCarries
<1>. QED
  BY Zenon, <1>6, <1>7, <1>8, CarriesKept DEF Carried

(* The router hands its request to the strand. *)
LEMMA CarriedPost ==
  ASSUME TypeOK, Carried, PostRequest
  PROVE  Carried'
<1>. DEFINE t == [op |-> router.op, room |-> rooms[router.id], uid |-> router.uid, key |-> router.key]
<1>1. /\ router \in RouterType /\ router.op \in {"join", "leave"} /\ router.key \in Requests
      /\ rooms[router.id] \in Rooms /\ router.pc = "find"
  BY DEF PostRequest, At, TypeOK, RouterOk, NoMessage, RoomsOk
<1>2. t \in TaskType /\ t.key = router.key
  BY Zenon, <1>1 DEF TaskType, RequestTask, RouterType
<1>3. Post(t) /\ router' = NoMessage /\ UNCHANGED <<active, ticket, cur>>
  BY Zenon DEF PostRequest, registryVars
<1>4. router.key \in DOMAIN active /\ ticket[router.key] = "queued"
  BY Zenon, <1>1 DEF Carried, RouterCarries, HasRequest
<1>5. ~HasRequest' /\ router'.key = None /\ None \notin Requests /\ DOMAIN active \subseteq Requests
  BY Zenon, <1>3, RoomServerAssumption DEF HasRequest, NoMessage, TypeOK, KeysOk
<1>. HIDE DEF t
<1>6. /\ Len(strand) \in Nat
      /\ \A n \in 1..Len(strand) : strand'[n] = strand[n]
      /\ strand'[Len(strand) + 1] = t
      /\ \A n \in 1..Len(strand') : n \in 1..Len(strand) \/ n = Len(strand) + 1
  BY Zenon, <1>2, <1>3, PostFacts DEF TypeOK
<1>7. RouterCarries'
  BY Zenon, <1>5 DEF RouterCarries
<1>8. CurCarries'
  BY Zenon, <1>3, <1>5 DEF Carried, CurCarries
<1>9. StrandCarries'
  <2>. SUFFICES ASSUME NEW n \in 1..Len(strand'), Carries(n)'
                PROVE  /\ strand'[n].key \in DOMAIN active
                       /\ ticket[strand'[n].key] \in {"queued", "cancelled"}
                       /\ cur.step \in {"body", "reply"} => strand'[n].key # cur.task.key
    BY Zenon, <1>3, <1>5 DEF StrandCarries
  <2>1. CASE n \in 1..Len(strand)
    BY Zenon, <1>6, <2>1 DEF Carried, StrandCarries, Carries
  <2>2. CASE n = Len(strand) + 1
    BY Zenon, <1>2, <1>4, <1>6, <2>2 DEF Carried, CurCarries
  <2>. QED
    BY Zenon, <1>6, <2>1, <2>2
<1>10. CarriedApart'
  <2>. SUFFICES ASSUME NEW m \in 1..Len(strand'), NEW n \in 1..Len(strand'), Carries(m)', Carries(n)',
                       strand'[m].key = strand'[n].key
                PROVE  m = n
    BY Zenon DEF CarriedApart
  <2>1. \A i \in 1..Len(strand) : Carries(i)' => strand'[i].key # router.key
    BY Zenon, <1>6 DEF Carried, StrandCarries, Carries
  <2>2. CASE m \in 1..Len(strand) /\ n \in 1..Len(strand)
    BY Zenon, <1>6, <2>2 DEF Carried, CarriedApart, Carries
  <2>. QED
    BY Zenon, <1>2, <1>6, <2>1, <2>2
<1>. QED
  BY Zenon, <1>7, <1>8, <1>9, <1>10 DEF Carried

(* The strand takes a request up and starts it, unless it was cancelled. *)
LEMMA CarriedTake ==
  ASSUME TypeOK, Carried, BeginRequest
  PROVE  Carried'
<1>1. /\ Take({"join", "leave"}) /\ strand' = Tail(strand) /\ router' = router
      /\ Registry!TryStart(Head(strand).key)
  BY Zenon DEF BeginRequest
<1>2. /\ 1 \in 1..Len(strand) /\ Head(strand) = strand[1] /\ strand[1] \in TaskType
      /\ Carries(1) /\ Len(strand') \in Nat
      /\ \A n \in 1..Len(strand') : n + 1 \in 1..Len(strand) /\ strand'[n] = strand[n + 1] /\ n + 1 # 1
  BY <1>1, TakeFacts DEF TypeOK, Carries
<1>3. strand[1].key \in Requests
  BY Zenon, <1>2, TaskFacts DEF Carries
<1>4. /\ strand[1].key \in DOMAIN active /\ ticket[strand[1].key] \in {"queued", "cancelled"}
      /\ strand[1].key # router.key
  BY Zenon, <1>2 DEF Carried, StrandCarries
<1>5. /\ active' = active
      /\ ticket' = [ticket EXCEPT ![strand[1].key] = IF @ = "queued" THEN "started" ELSE @]
      /\ ticket \in [Requests -> {"unused", "queued", "started", "cancelled"}]
      /\ DOMAIN active \subseteq Requests
  BY Zenon, <1>1, <1>2, <1>3, TryStartKeys DEF TypeOK, KeysOk
<1>6. /\ cur'.task = strand[1]
      /\ cur'.step = IF ticket[strand[1].key] = "queued" THEN "body" ELSE "reply"
  BY Zenon, <1>2 DEF BeginRequest, Idle
<1>7. RouterCarries'
  BY Zenon, <1>1, <1>4, <1>5 DEF Carried, RouterCarries, HasRequest
<1>8. CurCarries'
  BY Zenon, <1>1, <1>3, <1>4, <1>5, <1>6 DEF CurCarries
<1>9. \A n \in 1..Len(strand') : Carries(n)' => Carries(n + 1) /\ strand[n + 1].key # strand[1].key
  BY Zenon, <1>2 DEF Carries, Carried, CarriedApart
<1>10. StrandCarries'
  BY <1>1, <1>2, <1>5, <1>6, <1>9 DEF Carried, StrandCarries
<1>11. CarriedApart'
  <2>. SUFFICES ASSUME NEW m \in 1..Len(strand'), NEW n \in 1..Len(strand'), Carries(m)', Carries(n)',
                       strand'[m].key = strand'[n].key
                PROVE  m = n
    BY Zenon DEF CarriedApart
  <2>1. m + 1 = n + 1
    BY Zenon, <1>2, <1>9 DEF Carried, CarriedApart
  <2>. QED
    BY <2>1
<1>. QED
  BY Zenon, <1>7, <1>8, <1>10, <1>11 DEF Carried

(* The body of a join or leave keeps its request. *)
LEMMA CarriedBody ==
  ASSUME TypeOK, Carried, JoinBody \/ LeaveBody
  PROVE  Carried'
<1>1. cur.step = "body" /\ UNCHANGED <<ticket, active, strand, router>>
  BY Zenon DEF JoinBody, LeaveBody, Running, registryVars
<1>2. cur'.step = "reply" /\ cur'.task = cur.task
  <2>1. cur \in CurType
    BY Zenon, <1>1, CurFacts DEF TypeOK
  <2>. QED
    BY Zenon, <2>1 DEF JoinBody, LeaveBody, CurType
<1>3. SameKeyed
  BY Zenon, <1>1, KeyedSame
<1>4. \A n \in 1..Len(strand) : Carries(n) =>
        /\ strand[n].key \in DOMAIN active'
        /\ ticket'[strand[n].key] \in {"queued", "cancelled"}
        /\ strand[n].key # router'.key
        /\ cur'.step \in {"body", "reply"} => strand[n].key # cur'.task.key
  BY Zenon, <1>1, <1>2 DEF Carried, StrandCarries
<1>5. RouterCarries' /\ CurCarries'
  BY <1>1, <1>2 DEF Carried, RouterCarries, CurCarries, HasRequest
<1>. QED
  BY Zenon, <1>3, <1>4, <1>5, CarriesKept DEF Carried

(* The reply finishes the request that the task carried. *)
LEMMA CarriedComplete ==
  ASSUME TypeOK, Carried, JoinReply \/ LeaveReply
  PROVE  Carried'
<1>1. cur.step = "reply" /\ cur.task.op \in {"join", "leave"} /\ UNCHANGED <<strand, router>>
  BY Zenon DEF JoinReply, LeaveReply, Running, Complete
<1>2. cur.task.key \in Requests /\ Registry!Finish(cur.task.key, cur.task.key, 0)
  BY Zenon, <1>1, CurFacts DEF JoinReply, LeaveReply, Complete, TypeOK
<1>3. cur'.step \in {"notify", "idle"}
  <2>1. cur \in CurType /\ Idle.step = "idle"
    BY Zenon, <1>1, CurFacts DEF TypeOK, Idle
  <2>. QED
    BY Zenon, <2>1 DEF JoinReply, LeaveReply, Complete, CurType
<1>4. /\ DOMAIN active' = DOMAIN active \ {cur.task.key} /\ ticket' = ticket
  BY Zenon, <1>2, FinishKeys DEF TypeOK
<1>5. SameKeyed
  BY <1>1, KeyedSame
<1>6. \A n \in 1..Len(strand) : Carries(n) =>
        /\ strand[n].key \in DOMAIN active'
        /\ ticket'[strand[n].key] \in {"queued", "cancelled"}
        /\ strand[n].key # router'.key
        /\ cur'.step \in {"body", "reply"} => strand[n].key # cur'.task.key
  BY Zenon, <1>1, <1>3, <1>4 DEF Carried, StrandCarries
<1>7. RouterCarries' /\ CurCarries'
  BY Zenon, <1>1, <1>3, <1>4 DEF Carried, RouterCarries, CurCarries, HasRequest
<1>. QED
  BY Zenon, <1>5, <1>6, <1>7, CarriesKept DEF Carried

(* The strand's other operations leave no request half done. *)
LEMMA CurQuiet ==
  ASSUME TypeOK,
         \/ NotifyEnter \/ NotifyExit \/ CloseRoom \/ TakeClose \/ CloseImpl
         \/ ReleaseContents \/ RunKick \/ EraseKicked
  PROVE  cur'.step \notin {"body", "reply"}
<1>1. Idle.step = "idle" /\ CurOk
  BY Zenon DEF Idle, TypeOK
<1>2. ASSUME NEW task, NEW step, cur' = [Idle EXCEPT !.task = task, !.step = step]
      PROVE  cur'.step = step
  BY Zenon, <1>2 DEF Idle
<1>3. ASSUME NEW step, cur.step \in {"notify", "empty", "close"}, cur' = [cur EXCEPT !.step = step]
      PROVE  cur'.step = step
  BY Zenon, <1>1, <1>3, CurFacts DEF CurType
<1>4. CASE NotifyEnter \/ ReleaseContents \/ EraseKicked
  BY Zenon, <1>1, <1>4 DEF NotifyEnter, ReleaseContents, EraseKicked
<1>5. CASE TakeClose \/ RunKick
  BY Zenon, <1>1, <1>2, <1>5 DEF TakeClose, RunKick
<1>6. CASE NotifyExit \/ CloseRoom \/ CloseImpl
  BY Zenon, <1>1, <1>3, <1>6 DEF NotifyExit, CloseRoom, CloseImpl, Running
<1>. QED
  BY Zenon, <1>4, <1>5, <1>6

(* Every step keeps every request carried once. *)
LEMMA CarriedStep ==
  ASSUME TypeOK, Carried, [Next]_vars
  PROVE  Carried'
<1>1. CASE PostRequest
  BY Zenon, <1>1, CarriedPost
<1>. SUFFICES ASSUME ~PostRequest PROVE Carried'
  BY Zenon, <1>1
<1>2. SameKeyed
  BY Zenon, KeyedEffect
<1>4. ASSUME UNCHANGED <<ticket, active>>, router' = router \/ router' = NoMessage,
             cur'.step \notin {"body", "reply"} \/ cur' = cur
      PROVE  Carried'
  <2>1. router' = router \/ (~HasRequest' /\ router'.key = None)
    BY <1>4 DEF HasRequest, NoMessage
  <2>. QED
    BY Zenon, <1>2, <1>4, <2>1, CarriedQuiet
<1>5. ASSUME LookupUser \/ FindForward \/ DeliverChat PROVE Carried'
  <2>1. /\ router.pc \in {"lookup", "find", "call"} /\ UNCHANGED <<ticket, active, cur>>
    BY Zenon, <1>5 DEF LookupUser, FindForward, DeliverChat, At, registryVars
  <2>2. router \in RouterType
    BY <2>1 DEF TypeOK, RouterOk, NoMessage
  <2>3. router'.op = router.op /\ router'.key = router.key /\ router'.pc \in {"find", "call", "echo"}
    BY Zenon, <1>5, <2>2 DEF LookupUser, FindForward, DeliverChat, RouterType
  <2>. QED
    BY Zenon, <1>2, <2>1, <2>3, CarriedQuiet
<1>6. ASSUME NEW u \in Users, NEW msg \in Messages, ReceiveForward(u, msg) PROVE Carried'
  <2>1. ~HasRequest' /\ router'.key = None /\ UNCHANGED <<ticket, active, cur>>
    BY Zenon, <1>6 DEF ReceiveForward, HasRequest, NoMessage, registryVars
  <2>. QED
    BY Zenon, <1>2, <2>1, CarriedQuiet
<1>7. ASSUME NEW k \in Requests, ReceiveRefused(k) PROVE Carried'
  <2>1. UNCHANGED <<ticket, active, router, cur>>
    BY Zenon, <1>7, RefuseKeys DEF ReceiveRefused, TypeOK
  <2>. QED
    BY Zenon, <1>4, <2>1
<1>11. CASE Environment
  <2>1. CASE StopChannel
    BY Zenon, <1>4, <2>1 DEF StopChannel, registryVars
  <2>. QED
    BY Zenon, <1>6, <1>7, <1>11, <2>1, CarriedReceive, CarriedCancel DEF Environment
<1>12. CASE Router
  <2>1. ASSUME UNCHANGED <<registryVars, cur>>, router' = router \/ router' = NoMessage PROVE Carried'
    BY Zenon, <1>4, <2>1 DEF registryVars
  <2>2. CASE CreateBegin \/ RequestWithoutRoom
    BY Zenon, <2>2, CarriedBegin
  <2>3. CASE RejectRequest \/ \E r \in Rooms, i \in RoomIds : CreateRoom(r, i)
    BY Zenon, <1>2, <2>3, CarriedAnswer
  <2>4. CASE ForwardWithoutRoom \/ DeliverKick \/ EchoToUsers \/ DeliverNull \/ DeliverRaces
    BY Zenon, <2>1, <2>4 DEF ForwardWithoutRoom, DeliverKick, EchoToUsers, DeliverNull, DeliverRaces
  <2>. QED
    BY Zenon, <1>5, <1>12, <2>2, <2>3, <2>4 DEF Router
<1>13. CASE Strand
  <2>1. CASE RunCreated \/ RunSend
    BY Zenon, <1>4, <2>1 DEF RunCreated, RunSend, registryVars
  <2>2. ASSUME \/ NotifyEnter \/ NotifyExit \/ CloseRoom \/ TakeClose \/ CloseImpl
               \/ ReleaseContents \/ RunKick \/ EraseKicked
        PROVE  Carried'
    <3>1. UNCHANGED <<registryVars, router>>
      BY Zenon, <2>2 DEF NotifyEnter, NotifyExit, CloseRoom, TakeClose, CloseImpl, ReleaseContents,
                  RunKick, EraseKicked
    <3>2. cur'.step \notin {"body", "reply"}
      BY Zenon, <2>2, CurQuiet
    <3>. QED
      BY Zenon, <1>4, <3>1, <3>2 DEF registryVars
  <2>. QED
    BY Zenon, <1>13, <2>1, <2>2, CarriedTake, CarriedBody, CarriedComplete DEF Strand
<1>14. CASE Main \/ Terminated \/ UNCHANGED vars
  BY Zenon, <1>4, <1>14 DEF Main, Shutdown, StopWorkers, Terminated, vars, registryVars
<1>. QED
  BY Zenon, <1>11, <1>12, <1>13, <1>14 DEF Next

(* Every step keeps answers to one a request, and effects to started ones. *)
LEMMA AnsweredStep ==
  ASSUME TypeOK, Carried, AnsweredOnce, MutatedStarted, [Next]_vars
  PROVE  AnsweredOnce' /\ MutatedStarted'
<1>. DEFINE Goal == AnsweredOnce' /\ MutatedStarted'
            Count(k) == IF k \in finished /\ ticket[k] = "started" THEN 1 ELSE 0
<1>0. /\ KeysOk /\ reply \in [Requests -> Seq(BOOLEAN)] /\ mutated \in SUBSET Requests
      /\ ticket \in [Requests -> {"unused", "queued", "started", "cancelled"}]
      /\ strand \in Seq(TaskType) /\ CurOk /\ RouterOk
      /\ \A k \in DOMAIN active : k \in Requests /\ k \notin finished
  BY Zenon DEF TypeOK, KeysOk
<1>1. ASSUME UNCHANGED <<registryVars, historyVars>> PROVE Goal
  BY Zenon, <1>1 DEF registryVars, historyVars, AnsweredOnce, MutatedStarted
<1>2. ASSUME UNCHANGED historyVars, finished' = finished,
             \A k \in Requests : \/ ticket'[k] = ticket[k]
                                 \/ ticket[k] # "started" /\ (k \notin finished \/ ticket'[k] # "started")
      PROVE  Goal
  BY Zenon, <1>0, <1>2 DEF historyVars, AnsweredOnce, MutatedStarted
<1>3. ASSUME NEW k \in Requests, NEW message, Receive(k, message) PROVE Goal
  <2>1. UNCHANGED historyVars /\ Registry!Admit(k, k, 0)
    BY Zenon, <1>3 DEF Receive
  <2>2. /\ ticket[k] = "unused" /\ k \notin finished /\ finished' = finished
        /\ ticket' = [ticket EXCEPT ![k] = "queued"]
    BY Zenon, <1>0, <2>1, AdmitKeys
  <2>3. \A j \in Requests : \/ ticket'[j] = ticket[j]
                            \/ ticket[j] # "started" /\ (j \notin finished \/ ticket'[j] # "started")
    BY Zenon, <1>0, <2>2
  <2>. QED
    BY Zenon, <1>2, <2>1, <2>2, <2>3
<1>4. ASSUME NEW k \in Requests, ReceiveRefused(k) PROVE Goal
  <2>1. UNCHANGED historyVars /\ UNCHANGED <<ticket, active, finished>>
    BY Zenon, <1>0, <1>4, RefuseKeys DEF ReceiveRefused
  <2>. QED
    BY Zenon, <1>2, <2>1
<1>5. ASSUME NEW k \in Requests, ReceiveCancel(k) PROVE Goal
  <2>1. UNCHANGED historyVars /\ Registry!Cancel(k, 0)
    BY Zenon, <1>5 DEF ReceiveCancel
  <2>2. /\ finished' = finished
        /\ \A j \in Requests : \/ ticket'[j] = ticket[j]
                               \/ ticket[j] = "queued" /\ ticket'[j] = "cancelled"
    BY Zenon, <1>0, <2>1, CancelKeys
  <2>. QED
    BY Zenon, <1>2, <2>1, <2>2
<1>6. ASSUME NEW k \in DOMAIN active, Registry!TryStart(k), UNCHANGED historyVars PROVE Goal
  <2>1. /\ finished' = finished /\ k \notin finished
        /\ ticket' = [ticket EXCEPT ![k] = IF @ = "queued" THEN "started" ELSE @]
    BY Zenon, <1>0, <1>6, TryStartKeys
  <2>2. \A j \in Requests : \/ ticket'[j] = ticket[j]
                            \/ ticket[j] # "started" /\ (j \notin finished \/ ticket'[j] # "started")
    BY Zenon, <1>0, <2>1
  <2>. QED
    BY Zenon, <1>2, <1>6, <2>1, <2>2
<1>7. ASSUME CreateBegin \/ RequestWithoutRoom PROVE Goal
  <2>1. /\ router.op \in {"create", "join", "leave"} /\ Registry!TryStart(router.key)
        /\ UNCHANGED historyVars
    BY Zenon, <1>0, <1>7 DEF CreateBegin, RequestWithoutRoom, At, RouterOk
  <2>2. router.key \in DOMAIN active
    BY Zenon, <2>1 DEF Carried, RouterCarries, HasRequest
  <2>. QED
    BY Zenon, <1>6, <2>1, <2>2
<1>8. ASSUME BeginRequest PROVE Goal
  <2>1. 1 \in 1..Len(strand) /\ Carries(1) /\ Registry!TryStart(strand[1].key) /\ UNCHANGED historyVars
    BY Zenon, <1>0, <1>8, TakeFacts DEF BeginRequest, Carries
  <2>2. strand[1].key \in DOMAIN active
    BY Zenon, <2>1 DEF Carried, StrandCarries
  <2>. QED
    BY Zenon, <1>6, <2>1, <2>2
<1>9. ASSUME NEW k \in DOMAIN active, NEW success \in BOOLEAN, Registry!Finish(k, k, 0),
             ticket[k] \in {"started", "cancelled"},
             reply' = IF ticket[k] = "started" THEN [reply EXCEPT ![k] = Append(@, success)] ELSE reply,
             mutated' = mutated \/ (mutated' = mutated \cup {k} /\ ticket[k] = "started")
      PROVE  Goal
  <2>1. finished' = finished \cup {k} /\ ticket' = ticket /\ k \in Requests /\ k \notin finished
    BY Zenon, <1>0, <1>9, FinishKeys
  <2>2. MutatedStarted'
    BY Zenon, <1>9, <2>1 DEF MutatedStarted
  <2>3. AnsweredOnce'
    <3>. SUFFICES ASSUME NEW j \in Requests
                  PROVE  Len(reply'[j]) = IF j \in finished' /\ ticket'[j] = "started" THEN 1 ELSE 0
      BY Zenon DEF AnsweredOnce
    <3>1. Len(reply[j]) = IF j \in finished /\ ticket[j] = "started" THEN 1 ELSE 0
      BY Zenon DEF AnsweredOnce
    <3>2. CASE j # k \/ ticket[k] # "started"
      <4>1. reply'[j] = reply[j]
        BY Zenon, <1>0, <1>9, <3>2
      <4>. QED
        BY Zenon, <2>1, <3>1, <3>2, <4>1
    <3>3. CASE j = k /\ ticket[k] = "started"
      <4>1. reply'[j] = Append(reply[j], success) /\ reply[j] \in Seq(BOOLEAN)
        BY Zenon, <1>0, <1>9, <3>3
      <4>2. Len(reply'[j]) = Len(reply[j]) + 1
        BY <4>1, AppendFacts
      <4>3. Len(reply[j]) = 0
        BY Zenon, <2>1, <3>1, <3>3
      <4>. QED
        BY <2>1, <3>3, <4>2, <4>3
    <3>. QED
      BY Zenon, <3>2, <3>3
  <2>. QED
    BY Zenon, <2>2, <2>3
<1>10. ASSUME RejectRequest PROVE Goal
  <2>1. /\ router.op \in {"join", "leave"} /\ router.pc = "reject"
        /\ Registry!Finish(router.key, router.key, 0)
        /\ reply' = [reply EXCEPT ![router.key] = Append(@, FALSE)] /\ mutated' = mutated
    BY Zenon, <1>0, <1>10 DEF RejectRequest, At, RouterOk
  <2>2. router.key \in DOMAIN active /\ ticket[router.key] = "started"
    BY Zenon, <2>1 DEF Carried, RouterCarries, HasRequest
  <2>. QED
    BY Zenon, <1>9, <2>1, <2>2
<1>11. ASSUME NEW r \in Rooms, NEW i \in RoomIds, CreateRoom(r, i) PROVE Goal
  <2>1. /\ router.op = "create" /\ router.pc = "create"
        /\ Registry!Finish(router.key, router.key, 0)
        /\ reply' = [reply EXCEPT ![router.key] = Append(@, TRUE)]
        /\ mutated' = mutated \cup {router.key}
    BY Zenon, <1>0, <1>11 DEF CreateRoom, At, RouterOk
  <2>2. router.key \in DOMAIN active /\ ticket[router.key] = "started"
    BY Zenon, <2>1 DEF Carried, RouterCarries, HasRequest
  <2>. QED
    BY Zenon, <1>9, <2>1, <2>2
<1>12. ASSUME JoinBody \/ LeaveBody PROVE Goal
  <2>1. /\ cur.step = "body" /\ UNCHANGED <<registryVars, reply>>
        /\ mutated' = mutated \/ mutated' = mutated \cup {cur.task.key}
    BY Zenon, <1>12 DEF JoinBody, LeaveBody, Running
  <2>2. ticket[cur.task.key] = "started"
    BY Zenon, <2>1 DEF Carried, CurCarries
  <2>. QED
    BY Zenon, <2>1, <2>2 DEF registryVars, AnsweredOnce, MutatedStarted
<1>13. ASSUME JoinReply \/ LeaveReply PROVE Goal
  <2>1. cur.step = "reply" /\ \E success \in BOOLEAN : Complete(success)
    BY Zenon, <1>13 DEF JoinReply, LeaveReply, Running
  <2>2. cur.task.key \in DOMAIN active /\ ticket[cur.task.key] \in {"started", "cancelled"}
    BY Zenon, <2>1 DEF Carried, CurCarries
  <2>3. PICK success \in BOOLEAN : Complete(success)
    BY Zenon, <2>1
  <2>4. /\ Registry!Finish(cur.task.key, cur.task.key, 0) /\ mutated' = mutated
        /\ reply' = IF ticket[cur.task.key] = "started"
                    THEN [reply EXCEPT ![cur.task.key] = Append(@, success)] ELSE reply
    BY Zenon, <2>3 DEF Complete
  <2>. QED
    BY Zenon, <1>9, <2>2, <2>4
<1>14. CASE Environment
  BY Zenon, <1>1, <1>3, <1>4, <1>5, <1>14
     DEF Environment, ReceiveCreate, ReceiveJoin, ReceiveLeave, ReceiveForward, StopChannel
<1>15. CASE Router
  BY Zenon, <1>1, <1>7, <1>10, <1>11, <1>15
     DEF Router, LookupUser, PostRequest, ForwardWithoutRoom, FindForward, DeliverKick,
         DeliverChat, EchoToUsers, DeliverNull, DeliverRaces
<1>16. CASE Strand
  BY Zenon, <1>1, <1>8, <1>12, <1>13, <1>16
     DEF Strand, RunCreated, NotifyEnter, NotifyExit, CloseRoom, TakeClose, CloseImpl,
         ReleaseContents, RunKick, EraseKicked, RunSend
<1>17. CASE Main \/ Terminated \/ UNCHANGED vars
  BY Zenon, <1>1, <1>17 DEF Main, Shutdown, StopWorkers, Terminated, vars
<1>. QED
  BY Zenon, <1>14, <1>15, <1>16, <1>17 DEF Next

(* The registry inside the server takes only steps of QueuedRequests. *)
LEMMA RegistryStep ==
  ASSUME TypeOK, Carried, [Next]_vars
  PROVE  [Registry!Next]_(Registry!vars)
<1>. DEFINE Goal == [Registry!Next]_(Registry!vars)
<1>0. /\ KeysOk /\ strand \in Seq(TaskType) /\ CurOk /\ RouterOk
      /\ 0 \in Registry!Now
      /\ \A k \in DOMAIN active : k \in Requests /\ k \in DOMAIN holder /\ holder[k] = k
  BY DEF TypeOK, KeysOk, Registry!Now
<1>1. ASSUME UNCHANGED registryVars PROVE Goal
  BY Zenon, <1>1 DEF registryVars, Registry!vars
<1>2. ASSUME NEW k \in Requests, Registry!Admit(k, k, 0) \/ Registry!Refuse(k, 0) \/ Registry!Cancel(k, 0)
      PROVE  Goal
  BY Zenon, <1>0, <1>2 DEF Registry!Next
<1>3. ASSUME NEW k \in DOMAIN active, Registry!TryStart(k) \/ Registry!Finish(k, k, 0)
      PROVE  Goal
  <2>1. k \in Registry!Held /\ holder[k] = k
    BY Zenon, <1>0, <1>3 DEF Registry!Held
  <2>. QED
    BY Zenon, <1>0, <1>3, <2>1 DEF Registry!Next
<1>4. ASSUME HasRequest PROVE router.key \in DOMAIN active
  BY Zenon, <1>4 DEF Carried, RouterCarries
<1>5. ASSUME CreateBegin \/ RequestWithoutRoom \/ RejectRequest
             \/ \E r \in Rooms, i \in RoomIds : CreateRoom(r, i)
      PROVE  Goal
  <2>1. HasRequest
    BY Zenon, <1>0, <1>5 DEF CreateBegin, RequestWithoutRoom, RejectRequest, CreateRoom, At, RouterOk, HasRequest
  <2>2. \/ Registry!TryStart(router.key)
        \/ Registry!Finish(router.key, router.key, 0)
    BY Zenon, <1>5 DEF CreateBegin, RequestWithoutRoom, RejectRequest, CreateRoom
  <2>. QED
    BY Zenon, <1>3, <1>4, <2>1, <2>2
<1>6. ASSUME BeginRequest PROVE Goal
  <2>1. 1 \in 1..Len(strand) /\ Carries(1) /\ Registry!TryStart(strand[1].key)
    BY Zenon, <1>0, <1>6, TakeFacts DEF BeginRequest, Carries
  <2>2. strand[1].key \in DOMAIN active
    BY Zenon, <2>1 DEF Carried, StrandCarries
  <2>. QED
    BY Zenon, <1>3, <2>1, <2>2
<1>7. ASSUME JoinReply \/ LeaveReply PROVE Goal
  <2>1. cur.step = "reply" /\ Registry!Finish(cur.task.key, cur.task.key, 0)
    BY Zenon, <1>7 DEF JoinReply, LeaveReply, Running, Complete
  <2>2. cur.task.key \in DOMAIN active
    BY Zenon, <2>1 DEF Carried, CurCarries
  <2>. QED
    BY Zenon, <1>3, <2>1, <2>2
<1>11. CASE Environment
  BY Zenon, <1>1, <1>2, <1>11
     DEF Environment, ReceiveCreate, ReceiveJoin, ReceiveLeave, Receive, ReceiveForward,
         ReceiveRefused, ReceiveCancel, StopChannel
<1>12. CASE Router
  BY Zenon, <1>1, <1>5, <1>12
     DEF Router, LookupUser, PostRequest, ForwardWithoutRoom, FindForward, DeliverKick,
         DeliverChat, EchoToUsers, DeliverNull, DeliverRaces
<1>13. CASE Strand
  BY Zenon, <1>1, <1>6, <1>7, <1>13
     DEF Strand, RunCreated, JoinBody, LeaveBody, NotifyEnter, NotifyExit, CloseRoom, TakeClose,
         CloseImpl, ReleaseContents, RunKick, EraseKicked, RunSend
<1>14. CASE Main \/ Terminated \/ UNCHANGED vars
  BY Zenon, <1>1, <1>14 DEF Main, Shutdown, StopWorkers, Terminated, vars
<1>. QED
  BY Zenon, <1>11, <1>12, <1>13, <1>14 DEF Next

-----------------------------------------------------------------------------
(* Rooms: what each step does to them, to the strand and to its task *)

roomState == <<rooms, userRooms, roomId, users, life, contents>>

(* The strand takes a request, a close or a kick. *)
LEMMA TakenFacts ==
  ASSUME TypeOK, BeginRequest \/ TakeClose \/ RunKick
  PROVE  /\ UNCHANGED <<roomState, router, main, closing>>
         /\ cur = Idle /\ strand' = Tail(strand) /\ 1 \in 1..Len(strand)
         /\ \E ops : Take(ops)
         /\ strand[1].op # "created"
         /\ \/ cur' = Idle /\ strand[1].op = "kick"
            \/ /\ cur' # Idle /\ cur'.task = strand[1] /\ ~cur'.done /\ ~cur'.notify
               /\ \/ strand[1].op \in {"join", "leave"} /\ cur'.step \in {"body", "reply"}
                  \/ strand[1].op = "close" /\ cur'.step = "close"
                  \/ /\ strand[1].op = "kick" /\ cur'.step = "kicked"
                     /\ strand[1].uid \in users[strand[1].room]
<1>0. strand \in Seq(TaskType)
  BY Zenon DEF TypeOK
<1>1. ASSUME NEW ops, Take(ops), strand' = Tail(strand)
      PROVE  Head(strand) = strand[1] /\ strand[1].op \in ops /\ 1 \in 1..Len(strand) /\ cur = Idle
  BY Zenon, <1>0, <1>1, TakeFacts
<1>2. ASSUME NEW task, NEW step, step # "idle", cur' = [Idle EXCEPT !.task = task, !.step = step]
      PROVE  cur' # Idle /\ cur'.task = task /\ cur'.step = step /\ ~cur'.done /\ ~cur'.notify
  BY Zenon, <1>2 DEF Idle
<1>3. CASE BeginRequest
  <2>1. /\ UNCHANGED <<roomState, router, main, closing>> /\ Take({"join", "leave"}) /\ strand' = Tail(strand)
    BY Zenon, <1>3 DEF BeginRequest, roomState, managerVars, roomVars, mainVars
  <2>2. \E step \in {"body", "reply"} : cur' = [Idle EXCEPT !.task = Head(strand), !.step = step]
    BY Zenon, <1>3 DEF BeginRequest
  <2>3. Head(strand) = strand[1] /\ strand[1].op \in {"join", "leave"} /\ 1 \in 1..Len(strand) /\ cur = Idle
    BY Zenon, <1>1, <2>1
  <2>4. cur' # Idle /\ cur'.task = Head(strand) /\ cur'.step \in {"body", "reply"} /\ ~cur'.done /\ ~cur'.notify
    BY Zenon, <1>2, <2>2
  <2>5. \E ops : Take(ops)
    BY Zenon, <2>1
  <2>. QED
    BY Zenon, <2>1, <2>3, <2>4, <2>5
<1>4. CASE TakeClose
  <2>1. /\ UNCHANGED <<roomState, router, main, closing>> /\ Take({"close"}) /\ strand' = Tail(strand)
    BY Zenon, <1>4 DEF TakeClose, roomState, managerVars, roomVars, mainVars
  <2>2. cur' = [Idle EXCEPT !.task = Head(strand), !.step = "close"]
    BY Zenon, <1>4 DEF TakeClose
  <2>3. Head(strand) = strand[1] /\ strand[1].op \in {"close"} /\ 1 \in 1..Len(strand) /\ cur = Idle
    BY Zenon, <1>1, <2>1
  <2>4. cur' # Idle /\ cur'.task = Head(strand) /\ cur'.step = "close" /\ ~cur'.done /\ ~cur'.notify
    BY Zenon, <1>2, <2>2
  <2>5. \E ops : Take(ops)
    BY Zenon, <2>1
  <2>. QED
    BY Zenon, <2>1, <2>3, <2>4, <2>5
<1>5. CASE RunKick
  <2>1. /\ UNCHANGED <<roomState, router, main, closing>> /\ Take({"kick"}) /\ strand' = Tail(strand)
    BY Zenon, <1>5 DEF RunKick, roomState, managerVars, roomVars, mainVars
  <2>2. \/ cur' = Idle
        \/ /\ Head(strand).uid \in users[Head(strand).room]
           /\ cur' = [Idle EXCEPT !.task = Head(strand), !.step = "kicked"]
    BY Zenon, <1>5 DEF RunKick
  <2>3. Head(strand) = strand[1] /\ strand[1].op \in {"kick"} /\ 1 \in 1..Len(strand) /\ cur = Idle
    BY Zenon, <1>1, <2>1
  <2>4. \/ cur' = Idle
        \/ /\ Head(strand).uid \in users[Head(strand).room]
           /\ cur' # Idle /\ cur'.task = Head(strand) /\ cur'.step = "kicked" /\ ~cur'.done /\ ~cur'.notify
    BY Zenon, <1>2, <2>2
  <2>5. \E ops : Take(ops)
    BY Zenon, <2>1
  <2>. QED
    BY Zenon, <2>1, <2>3, <2>4, <2>5
<1>. QED
  BY Zenon, <1>3, <1>4, <1>5

(* A step of the running operation that moves it on to another. *)
LEMMA AdvanceFacts ==
  ASSUME CurOk, cur # Idle
  PROVE  /\ \A step : cur' = [cur EXCEPT !.step = step] =>
              /\ cur'.task = cur.task /\ cur'.step = step /\ cur'.done = cur.done
              /\ cur'.notify = cur.notify
         /\ \A step, b : cur' = [cur EXCEPT !.step = step, !.done = TRUE, !.notify = b] =>
              /\ cur'.task = cur.task /\ cur'.step = step /\ cur'.done = TRUE
              /\ cur'.notify = b
BY Zenon, CurFacts DEF CurType

(* The body of a join or leave changes users_ of its own room. *)
LEMMA BodyFacts ==
  ASSUME TypeOK, Stages, JoinBody \/ LeaveBody
  PROVE  /\ UNCHANGED <<rooms, userRooms, roomId, life, contents, strand, router, main, closing>>
         /\ cur.step = "body" /\ cur.task.op \in {"join", "leave"} /\ cur # Idle
         /\ cur.task.room \in Rooms
         /\ cur'.task = cur.task /\ cur'.step = "reply" /\ (cur'.notify => cur'.done)
         /\ cur'.done => life[cur.task.room] = "open"
         /\ \A r \in Rooms : r # cur.task.room \/ life[r] # "open" => users'[r] = users[r]
<1>0. CurOk /\ users \in [Rooms -> SUBSET Users]
  BY Zenon DEF TypeOK, RoomsOk
<1>1. /\ UNCHANGED <<rooms, userRooms, roomId, life, contents, strand, router, main, closing>>
      /\ cur.step = "body" /\ cur.task.op \in {"join", "leave"}
  BY Zenon DEF JoinBody, LeaveBody, Running, managerVars, mainVars
<1>2. cur # Idle /\ cur.task.room \in Rooms /\ ~cur.done /\ ~cur.notify
  BY Zenon, <1>0, <1>1, CurFacts DEF Stages
<1>3. \/ cur' = [cur EXCEPT !.step = "reply"] /\ users' = users
      \/ /\ life[cur.task.room] = "open"
         /\ \E b : cur' = [cur EXCEPT !.step = "reply", !.done = TRUE, !.notify = b]
         /\ \E S : users' = [users EXCEPT ![cur.task.room] = S]
  BY Zenon DEF JoinBody, LeaveBody
<1>4. /\ cur'.task = cur.task /\ cur'.step = "reply" /\ (cur'.notify => cur'.done)
      /\ cur'.done => life[cur.task.room] = "open"
  BY Zenon, <1>0, <1>2, <1>3, AdvanceFacts
<1>5. \A r \in Rooms : r # cur.task.room \/ life[r] # "open" => users'[r] = users[r]
  BY Zenon, <1>0, <1>2, <1>3
<1>. QED
  BY Zenon, <1>1, <1>2, <1>4, <1>5

(* The reply of a join or leave changes the index only. *)
LEMMA ReplyFacts ==
  ASSUME TypeOK, JoinReply \/ LeaveReply
  PROVE  /\ UNCHANGED <<rooms, roomId, users, life, contents, strand, router, main, closing>>
         /\ cur.step = "reply" /\ cur.task.op \in {"join", "leave"} /\ cur # Idle
         /\ cur.task.room \in Rooms
         /\ \/ cur' = Idle
            \/ /\ cur.notify /\ cur'.task = cur.task /\ cur'.step = "notify"
               /\ cur'.done = cur.done /\ cur'.notify = cur.notify
<1>1. /\ UNCHANGED <<rooms, roomId, users, life, contents, strand, router, main, closing>>
      /\ cur.step = "reply" /\ cur.task.op \in {"join", "leave"}
      /\ \/ cur' = Idle
         \/ cur.notify /\ cur' = [cur EXCEPT !.step = "notify"]
  BY Zenon DEF JoinReply, LeaveReply, Running, Complete, roomVars, mainVars
<1>2. cur # Idle /\ cur.task.room \in Rooms /\ CurOk
  BY Zenon, <1>1, CurFacts DEF TypeOK
<1>. QED
  BY Zenon, <1>1, <1>2, AdvanceFacts

(* The notification posts a send and leaves the rooms alone. *)
LEMMA NotifyFacts ==
  ASSUME TypeOK, NotifyEnter \/ NotifyExit
  PROVE  /\ UNCHANGED <<roomState, router, main, closing>>
         /\ cur.step = "notify" /\ cur # Idle
         /\ cur.task.room \in Rooms /\ Post(Task("send", cur.task.room))
         /\ \/ cur' = Idle
            \/ /\ cur.task.op = "leave" /\ cur'.task = cur.task /\ cur'.step = "empty"
               /\ cur'.done = cur.done /\ cur'.notify = cur.notify /\ users[cur.task.room] = {}
<1>1. /\ UNCHANGED <<roomState, router, main, closing>>
      /\ cur.step = "notify" /\ Post(Task("send", cur.task.room))
      /\ \/ cur' = Idle
         \/ cur.task.op = "leave" /\ users[cur.task.room] = {} /\ cur' = [cur EXCEPT !.step = "empty"]
  BY Zenon DEF NotifyEnter, NotifyExit, Running, roomState, managerVars, roomVars, mainVars
<1>2. cur # Idle /\ cur.task.room \in Rooms /\ CurOk
  BY Zenon, <1>1, CurFacts DEF TypeOK
<1>. QED
  BY Zenon, <1>1, <1>2, AdvanceFacts

(* close_room takes an empty room out of the maps. *)
LEMMA CloseRoomFacts ==
  ASSUME TypeOK, CloseRoom
  PROVE  /\ UNCHANGED <<roomId, users, life, contents, strand, router, main, closing>>
         /\ cur.step = "empty" /\ cur.task.op = "leave" /\ cur # Idle /\ cur.task.room \in Rooms
         /\ \/ cur' = Idle /\ UNCHANGED <<rooms, userRooms>>
            \/ /\ cur'.task = cur.task /\ cur'.step = "close"
               /\ cur'.done = cur.done /\ cur'.notify = cur.notify
               /\ Registered(cur.task.room)
               /\ rooms' = Without(rooms, {roomId[cur.task.room]})
               /\ userRooms' = Without(userRooms, {u \in DOMAIN userRooms :
                                                     userRooms[u] = roomId[cur.task.room]})
<1>1. /\ UNCHANGED <<roomId, users, life, contents, strand, router, main, closing>>
      /\ cur.step = "empty" /\ cur.task.op = "leave"
      /\ \/ cur' = Idle /\ UNCHANGED <<rooms, userRooms>>
         \/ /\ Registered(cur.task.room)
            /\ rooms' = Without(rooms, {roomId[cur.task.room]})
            /\ userRooms' = Without(userRooms, {u \in DOMAIN userRooms :
                                                     userRooms[u] = roomId[cur.task.room]})
            /\ cur' = [cur EXCEPT !.step = "close"]
  BY Zenon DEF CloseRoom, Running, roomVars, mainVars
<1>2. cur # Idle /\ cur.task.room \in Rooms /\ CurOk
  BY Zenon, <1>1, CurFacts DEF TypeOK
<1>. QED
  BY Zenon, <1>1, <1>2, AdvanceFacts

(* close() of an open room begins to destroy it. *)
LEMMA CloseImplFacts ==
  ASSUME TypeOK, CloseImpl
  PROVE  /\ UNCHANGED <<rooms, userRooms, roomId, users, contents, strand, router, main, closing>>
         /\ cur.step = "close" /\ cur.task.op \in {"leave", "close"} /\ cur # Idle
         /\ cur.task.room \in Rooms
         /\ \A r \in Rooms : r # cur.task.room => life'[r] = life[r]
         /\ \/ cur' = Idle /\ life' = life /\ life[cur.task.room] # "open"
            \/ /\ cur'.task = cur.task /\ cur'.step = "destroy"
               /\ cur'.done = cur.done /\ cur'.notify = cur.notify
               /\ life[cur.task.room] = "open" /\ life'[cur.task.room] = "closing"
<1>1. /\ UNCHANGED <<rooms, userRooms, roomId, users, contents, strand, router, main, closing>>
      /\ cur.step = "close" /\ cur.task.op \in {"leave", "close"}
      /\ life' = [life EXCEPT ![cur.task.room] = IF @ = "open" THEN "closing" ELSE @]
      /\ \/ cur' = Idle /\ life[cur.task.room] # "open"
         \/ life[cur.task.room] = "open" /\ cur' = [cur EXCEPT !.step = "destroy"]
  BY Zenon DEF CloseImpl, Running, managerVars, mainVars
<1>2. cur # Idle /\ cur.task.room \in Rooms /\ CurOk /\ life \in [Rooms -> Lives]
  BY Zenon, <1>1, CurFacts DEF TypeOK, RoomsOk
<1>3. /\ \A r \in Rooms : r # cur.task.room => life'[r] = life[r]
      /\ life[cur.task.room] = "open" => life'[cur.task.room] = "closing"
      /\ life[cur.task.room] # "open" => life' = life
  BY Zenon, <1>1, <1>2
<1>. QED
  BY Zenon, <1>1, <1>2, <1>3, AdvanceFacts

(* Releasing the contents closes the room. *)
LEMMA ReleaseFacts ==
  ASSUME TypeOK, ReleaseContents
  PROVE  /\ UNCHANGED <<rooms, userRooms, roomId, users, strand, router, main, closing>>
         /\ cur.step = "destroy" /\ cur # Idle /\ cur.task.room \in Rooms /\ cur' = Idle
         /\ \A r \in Rooms : r # cur.task.room => life'[r] = life[r] /\ contents'[r] = contents[r]
         /\ life'[cur.task.room] = "closed" /\ contents'[cur.task.room] = "null"
<1>1. cur.step = "destroy"
  BY Zenon DEF ReleaseContents, Running
<1>2. cur # Idle /\ cur.task.room \in Rooms
  BY Zenon, <1>1, CurFacts DEF TypeOK
<1>. QED
  BY Zenon, <1>1, <1>2 DEF ReleaseContents, managerVars, mainVars, TypeOK, RoomsOk

(* A kick erases a user of its own room. *)
LEMMA EraseFacts ==
  ASSUME TypeOK, EraseKicked
  PROVE  /\ UNCHANGED <<rooms, userRooms, roomId, life, contents, strand, router, main, closing>>
         /\ cur.step = "kicked" /\ cur # Idle /\ cur.task.room \in Rooms /\ cur' = Idle
         /\ \A r \in Rooms : r # cur.task.room => users'[r] = users[r]
<1>1. cur.step = "kicked"
  BY Zenon DEF EraseKicked, Running
<1>2. cur # Idle /\ cur.task.room \in Rooms
  BY Zenon, <1>1, CurFacts DEF TypeOK
<1>. QED
  BY Zenon, <1>1, <1>2 DEF EraseKicked, managerVars, mainVars, TypeOK, RoomsOk

(* Steps that change no room, task or map. *)
QuietStep ==
  /\ UNCHANGED <<roomState, strand, cur, closing>>
  /\ router'.room = router.room \/ router'.room = None
  /\ \/ main' = main
     \/ main' = "crashed"
     \/ main = "running" /\ main' = "joined"
     \/ StopWorkers

(* The router posts a task on a room it has found. *)
RouterPosts(t) ==
  /\ Post(t)
  /\ UNCHANGED <<roomState, cur, main, closing>>
  /\ router'.room = None
  /\ life[t.room] # "unborn"
  /\ t.op \in {"join", "leave", "kick", "send"}
  /\ t.op = "kick" => main = "running" /\ t.uid \in Messages

(* The kinds of step there are, as far as the rooms are concerned. *)
Kinds ==
  \/ QuietStep
  \/ FindForward
  \/ \E r \in Rooms, i \in RoomIds : CreateRoom(r, i)
  \/ \E t \in TaskType : RouterPosts(t)
  \/ RunCreated \/ RunSend
  \/ BeginRequest \/ TakeClose \/ RunKick
  \/ JoinBody \/ LeaveBody
  \/ JoinReply \/ LeaveReply
  \/ NotifyEnter \/ NotifyExit
  \/ CloseRoom \/ CloseImpl \/ ReleaseContents \/ EraseKicked
  \/ Shutdown

(* What a step does to rooms, strand and threads, as a list of cases. *)
LEMMA StepKinds ==
  ASSUME TypeOK, Born, LookupsAreSound, [Next]_vars
  PROVE  Kinds
<1>0. RoomsOk /\ RouterOk
  BY Zenon DEF TypeOK
<1>2. ASSUME UNCHANGED <<managerVars, roomVars, strand, cur, mainVars>>,
             router'.room = router.room \/ router'.room = None
      PROVE  Kinds
  BY Zenon, <1>2 DEF managerVars, roomVars, mainVars, roomState, QuietStep, Kinds
<1>3. NoMessage.room = None
  BY Zenon DEF NoMessage
<1>4. CASE Environment
  <2>1. ASSUME NEW k \in Requests, NEW message, message.room = None, Receive(k, message) PROVE Kinds
    BY Zenon, <1>2, <2>1 DEF Receive
  <2>2. ASSUME NEW k \in Requests, NEW u \in Users, ReceiveCreate(k, u) PROVE Kinds
    BY Zenon, <2>1, <2>2 DEF ReceiveCreate, NoMessage
  <2>3. ASSUME NEW k \in Requests, NEW u \in Users, ReceiveLeave(k, u) PROVE Kinds
    BY Zenon, <2>1, <2>3 DEF ReceiveLeave, NoMessage
  <2>4. ASSUME NEW k \in Requests, NEW u \in Users, NEW i \in RoomIds, ReceiveJoin(k, u, i) PROVE Kinds
    BY Zenon, <2>1, <2>4 DEF ReceiveJoin, NoMessage
  <2>5. ASSUME NEW k \in Requests, ReceiveRefused(k) \/ ReceiveCancel(k) PROVE Kinds
    BY Zenon, <1>2, <2>5 DEF ReceiveRefused, ReceiveCancel
  <2>6. ASSUME NEW u \in Users, NEW msg \in Messages, ReceiveForward(u, msg) PROVE Kinds
    BY Zenon, <1>2, <2>6 DEF ReceiveForward, NoMessage
  <2>7. ASSUME StopChannel PROVE Kinds
    BY Zenon, <2>7 DEF StopChannel, managerVars, roomVars, roomState, QuietStep, Kinds
  <2>. QED
    BY <1>4, <2>2, <2>3, <2>4, <2>5, <2>6, <2>7 DEF Environment
<1>5. CASE Router
  <2>1. CASE CreateBegin \/ LookupUser \/ RequestWithoutRoom \/ DeliverChat
    <3>1. router.pc # "recv"
      BY Zenon, <2>1 DEF CreateBegin, LookupUser, RequestWithoutRoom, FindsNoRoom, DeliverChat, At
    <3>2. router \in RouterType
      BY <1>0, <3>1 DEF RouterOk, NoMessage
    <3>3. router'.room = router.room
      BY Zenon, <2>1, <3>2 DEF CreateBegin, LookupUser, RequestWithoutRoom, DeliverChat, RouterType
    <3>. QED
      BY Zenon, <1>2, <2>1, <3>3 DEF CreateBegin, LookupUser, RequestWithoutRoom, DeliverChat
  <2>2. CASE RejectRequest \/ ForwardWithoutRoom
    BY Zenon, <1>2, <1>3, <2>2 DEF RejectRequest, ForwardWithoutRoom
  <2>3. CASE DeliverNull \/ DeliverRaces
    BY Zenon, <2>3 DEF DeliverNull, DeliverRaces, managerVars, roomVars, roomState, QuietStep, Kinds
  <2>4. CASE PostRequest
    <3>. DEFINE t == [op |-> router.op, room |-> rooms[router.id], uid |-> router.uid, key |-> router.key]
    <3>1. router \in RouterType /\ rooms[router.id] \in Rooms /\ router.key \in Requests
      BY <1>0, <2>4 DEF PostRequest, At, RouterOk, NoMessage, RoomsOk
    <3>2. router.op \in {"join", "leave"} /\ router.uid \in Users
      BY Zenon, <2>4, <3>1 DEF PostRequest, RouterType
    <3>3. life[rooms[router.id]] = "open"
      BY Zenon, <2>4 DEF PostRequest, LookupsAreSound
    <3>4. t \in TaskType /\ t.op \in {"join", "leave"} /\ life[t.room] # "unborn"
      BY Zenon, <3>1, <3>2, <3>3 DEF TaskType, RequestTask
    <3>5. Post(t) /\ UNCHANGED <<roomState, cur, main, closing>> /\ router'.room = None
      BY Zenon, <1>3, <2>4 DEF PostRequest, managerVars, roomVars, roomState, mainVars
    <3>. HIDE DEF t
    <3>. QED
      BY Zenon, <3>4, <3>5 DEF RouterPosts, Kinds
  <2>5. CASE DeliverKick
    <3>. DEFINE t == [op |-> "kick", room |-> router.room, uid |-> router.msg, key |-> None]
    <3>1. /\ router.room \in Rooms /\ router.msg \in Users /\ router.msg \in Messages
          /\ main = "running"
      BY Zenon, <1>0, <2>5, RoomServerAssumption DEF DeliverKick, At, RouterOk
    <3>2. life[router.room] # "unborn"
      BY Zenon, <3>1, RoomServerAssumption DEF Born
    <3>3. t \in TaskType /\ t.op = "kick" /\ t.uid \in Messages /\ life[t.room] # "unborn"
      BY Zenon, <3>1, <3>2 DEF TaskType, KickTask
    <3>4. Post(t) /\ UNCHANGED <<roomState, cur, main, closing>> /\ router'.room = None
      BY Zenon, <1>3, <2>5 DEF DeliverKick, managerVars, roomVars, roomState, mainVars
    <3>. HIDE DEF t
    <3>. QED
      BY Zenon, <3>1, <3>3, <3>4 DEF RouterPosts, Kinds
  <2>6. CASE EchoToUsers
    <3>1. router.room \in Rooms
      BY Zenon, <1>0, <2>6 DEF EchoToUsers, At, RouterOk
    <3>2. life[router.room] # "unborn"
      BY Zenon, <3>1, RoomServerAssumption DEF Born
    <3>3. UNCHANGED <<managerVars, roomVars, cur, mainVars>> /\ router'.room = None
      BY Zenon, <1>3, <2>6 DEF EchoToUsers
    <3>4. CASE strand' = strand
      BY Zenon, <1>2, <3>3, <3>4
    <3>5. CASE Post(Task("send", router.room))
      <4>. DEFINE t == Task("send", router.room)
      <4>1. t \in TaskType /\ t.op = "send" /\ life[t.room] # "unborn" /\ Post(t)
        BY Zenon, <3>1, <3>2, <3>5, RoomTaskType
      <4>. HIDE DEF t
      <4>. QED
        BY Zenon, <3>3, <4>1 DEF managerVars, roomVars, roomState, mainVars, RouterPosts, Kinds
    <3>. QED
      BY Zenon, <2>6, <3>4, <3>5 DEF EchoToUsers
  <2>7. CASE FindForward \/ \E r \in Rooms, i \in RoomIds : CreateRoom(r, i)
    BY Zenon, <2>7 DEF Kinds
  <2>. QED
    BY <1>5, <2>1, <2>2, <2>3, <2>4, <2>5, <2>6, <2>7 DEF Router
<1>6. CASE Strand
  BY Zenon, <1>6 DEF Strand, Kinds
<1>7. CASE StopWorkers
  BY Zenon, <1>7 DEF StopWorkers, managerVars, roomVars, roomState, QuietStep, Kinds
<1>8. CASE Terminated \/ UNCHANGED vars
  BY Zenon, <1>2, <1>8 DEF Terminated, vars
<1>9. CASE Shutdown
  BY Zenon, <1>9 DEF Kinds
<1>. QED
  BY Zenon, <1>4, <1>5, <1>6, <1>7, <1>8, <1>9 DEF Next, Main

(* create_room makes a room nothing has referred to. *)
LEMMA CreateFacts ==
  ASSUME TypeOK, Born, LookupsAreSound, NEW r \in Rooms, NEW i \in RoomIds, CreateRoom(r, i)
  PROVE  /\ UNCHANGED <<cur, main, closing>> /\ router'.room = None /\ Post(Task("created", r))
         /\ router.uid \in Users
         /\ life[r] = "unborn" /\ life'[r] = "open" /\ contents'[r] = "built" /\ roomId'[r] = i
         /\ \A q \in Rooms : q # r => /\ roomId'[q] = roomId[q] /\ users'[q] = users[q]
                                      /\ life'[q] = life[q] /\ contents'[q] = contents[q]
         /\ \A n \in 1..Len(strand) : strand[n].room # r
         /\ cur # Idle => cur.task.room # r
         /\ \A j \in DOMAIN rooms : rooms[j] # r
         /\ rooms' = With(rooms, i, r) /\ userRooms' = With(userRooms, router.uid, i)
<1>1. /\ UNCHANGED <<cur, main, closing>> /\ Post(Task("created", r)) /\ life[r] = "unborn"
      /\ rooms' = With(rooms, i, r) /\ userRooms' = With(userRooms, router.uid, i)
      /\ router' = NoMessage
  BY Zenon DEF CreateRoom, mainVars
<1>2. router'.room = None
  BY Zenon, <1>1 DEF NoMessage
<1>3. /\ life'[r] = "open" /\ contents'[r] = "built" /\ roomId'[r] = i
      /\ \A q \in Rooms : q # r => /\ roomId'[q] = roomId[q] /\ users'[q] = users[q]
                                   /\ life'[q] = life[q] /\ contents'[q] = contents[q]
  BY Zenon DEF CreateRoom, TypeOK, RoomsOk
<1>4. /\ \A n \in 1..Len(strand) : strand[n].room # r
      /\ cur # Idle => cur.task.room # r
  BY Zenon, <1>1 DEF Born
<1>5. \A j \in DOMAIN rooms : rooms[j] # r
  BY Zenon, <1>1 DEF LookupsAreSound
<1>6. router.uid \in Users
  BY DEF CreateRoom, At, TypeOK, RouterOk, NoMessage, RouterType
<1>. QED
  BY Zenon, <1>1, <1>2, <1>3, <1>4, <1>5, <1>6

(* A room once made keeps its id, and the manager forgets it for good. *)
LEMMA OneWay ==
  ASSUME TypeOK, Born, Stages, LookupsAreSound, [Next]_vars, NEW r \in Rooms, life[r] # "unborn"
  PROVE  /\ life'[r] # "unborn" /\ roomId'[r] = roomId[r]
         /\ Registered(r)' => Registered(r)
         /\ life'[r] = "open" => life[r] = "open"
<1>. DEFINE Goal == /\ life'[r] # "unborn" /\ roomId'[r] = roomId[r]
                    /\ Registered(r)' => Registered(r)
                    /\ life'[r] = "open" => life[r] = "open"
<1>1. ASSUME UNCHANGED <<rooms, roomId, life>> PROVE Goal
  BY Zenon, <1>1 DEF Registered
<1>2. ASSUME NEW q \in Rooms, NEW i \in RoomIds, CreateRoom(q, i) PROVE Goal
  <2>1. /\ life[q] = "unborn" /\ r # q /\ life'[r] = life[r] /\ roomId'[r] = roomId[r]
        /\ rooms' = With(rooms, i, q)
    BY Zenon, <1>2, CreateFacts
  <2>2. Registered(r)' => Registered(r)
    BY Zenon, <2>1 DEF Registered, With
  <2>. QED
    BY Zenon, <2>1, <2>2
<1>3. ASSUME CloseRoom PROVE Goal
  <2>1. UNCHANGED <<roomId, life>> /\ (rooms' = rooms \/ \E ids : rooms' = Without(rooms, ids))
    BY Zenon, <1>3, CloseRoomFacts
  <2>2. Registered(r)' => Registered(r)
    BY Zenon, <2>1 DEF Registered, Without
  <2>. QED
    BY Zenon, <2>1, <2>2
<1>4. ASSUME Shutdown PROVE Goal
  <2>1. UNCHANGED <<roomId, life>> /\ rooms' = EmptyMap
    BY Zenon, <1>4 DEF Shutdown, roomVars
  <2>2. ~Registered(r)'
    BY Zenon, <2>1, MapFacts DEF Registered
  <2>. QED
    BY Zenon, <2>1, <2>2
<1>5. ASSUME CloseImpl PROVE Goal
  <2>1. UNCHANGED <<rooms, roomId>>
    BY Zenon, <1>5, CloseImplFacts
  <2>2. life'[r] # "unborn" /\ (life'[r] = "open" => life[r] = "open")
    BY Zenon, <1>5, CloseImplFacts
  <2>. QED
    BY Zenon, <2>1, <2>2 DEF Registered
<1>6. ASSUME ReleaseContents PROVE Goal
  <2>1. UNCHANGED <<rooms, roomId>>
    BY Zenon, <1>6, ReleaseFacts
  <2>2. life'[r] # "unborn" /\ (life'[r] = "open" => life[r] = "open")
    BY Zenon, <1>6, ReleaseFacts
  <2>. QED
    BY Zenon, <2>1, <2>2 DEF Registered
<1>7. CASE QuietStep \/ \E t \in TaskType : RouterPosts(t)
  BY Zenon, <1>1, <1>7 DEF QuietStep, RouterPosts, roomState
<1>8. CASE FindForward \/ RunCreated \/ RunSend
  BY Zenon, <1>1, <1>8 DEF FindForward, RunCreated, RunSend, managerVars, roomVars
<1>9. CASE BeginRequest \/ TakeClose \/ RunKick
  BY Zenon, <1>1, <1>9, TakenFacts DEF roomState
<1>10. CASE JoinBody \/ LeaveBody
  BY Zenon, <1>1, <1>10, BodyFacts
<1>11. CASE JoinReply \/ LeaveReply
  BY Zenon, <1>1, <1>11, ReplyFacts
<1>12. CASE NotifyEnter \/ NotifyExit
  BY Zenon, <1>1, <1>12, NotifyFacts DEF roomState
<1>13. CASE EraseKicked
  BY Zenon, <1>1, <1>13, EraseFacts
<1>14. Kinds
  BY Zenon, StepKinds
<1>. QED
  BY Zenon, <1>2, <1>3, <1>4, <1>5, <1>6, <1>7, <1>8, <1>9, <1>10, <1>11, <1>12, <1>13, <1>14 DEF Kinds

(* Every step keeps tasks and lookups to rooms that were created. *)
LEMMA BornStep ==
  ASSUME TypeOK, TypeOK', Born, Stages, LookupsAreSound, [Next]_vars
  PROVE  Born'
<1>. DEFINE Tasks == \A n \in 1..Len(strand') : life'[strand'[n].room] # "unborn"
            Cur == cur' # Idle => life'[cur'.task.room] # "unborn"
            Rtr == router'.room # None => life'[router'.room] # "unborn"
<1>0. /\ strand \in Seq(TaskType) /\ RoomsOk /\ CurOk /\ RouterOk
      /\ \A n \in 1..Len(strand) : strand[n] \in TaskType /\ strand[n].room \in Rooms
      /\ cur # Idle => cur.task.room \in Rooms
  <2>1. \A n \in 1..Len(strand) : strand[n] \in TaskType
    BY Zenon, EntryTyped DEF TypeOK
  <2>. QED
    BY Zenon, <2>1, TaskFacts, CurFacts DEF TypeOK
<1>1. \A r \in Rooms : life[r] # "unborn" => life'[r] # "unborn"
  BY Zenon, OneWay
<1>2. /\ \A n \in 1..Len(strand) : life'[strand[n].room] # "unborn"
      /\ cur # Idle => life'[cur.task.room] # "unborn"
      /\ router.room # None => life'[router.room] # "unborn"
  <2>1. router.room # None => router.room \in Rooms
    BY <1>0 DEF RouterOk, RouterType, NoMessage
  <2>. QED
    BY Zenon, <1>0, <1>1, <2>1 DEF Born
<1>3. ASSUME strand' = strand PROVE Tasks
  BY Zenon, <1>2, <1>3
<1>4. ASSUME NEW ops, Take(ops), strand' = Tail(strand) PROVE Tasks
  <2>1. \A n \in 1..Len(strand') : n + 1 \in 1..Len(strand) /\ strand'[n] = strand[n + 1]
    BY Zenon, <1>0, <1>4, TakeFacts
  <2>. QED
    BY Zenon, <1>2, <2>1
<1>5. ASSUME NEW t \in TaskType, Post(t), life'[t.room] # "unborn" PROVE Tasks
  <2>1. /\ \A n \in 1..Len(strand) : strand'[n] = strand[n]
        /\ strand'[Len(strand) + 1] = t
        /\ \A n \in 1..Len(strand') : n \in 1..Len(strand) \/ n = Len(strand) + 1
    BY Zenon, <1>0, <1>5, PostFacts
  <2>. QED
    BY Zenon, <1>2, <1>5, <2>1
<1>6. ASSUME router' = router \/ router'.room = None \/ router'.room = router.room PROVE Rtr
  BY Zenon, <1>2, <1>6
<1>7. ASSUME cur' = cur \/ cur' = Idle \/ (cur # Idle /\ cur'.task = cur.task) PROVE Cur
  BY Zenon, <1>2, <1>7
<1>. DEFINE Goal == Tasks /\ Cur /\ Rtr
<1>. SUFFICES Goal
  BY Zenon DEF Born
<1>8. CASE QuietStep
  BY Zenon, <1>3, <1>6, <1>7, <1>8 DEF QuietStep
<1>9. CASE FindForward
  <2>1. strand' = strand /\ cur' = cur /\ life' = life
    BY Zenon, <1>9 DEF FindForward, roomVars
  <2>2. router.pc = "find" /\ router.id \in DOMAIN rooms
        /\ router' = [router EXCEPT !.pc = "call", !.room = rooms[router.id]]
    BY Zenon, <1>9 DEF FindForward, At
  <2>3. router'.room = rooms[router.id]
    BY Zenon, <1>0, <2>2 DEF RouterOk, RouterType, NoMessage
  <2>4. Rtr
    BY Zenon, <2>1, <2>2, <2>3 DEF LookupsAreSound
  <2>. QED
    BY Zenon, <1>3, <1>7, <2>1, <2>4
<1>10. ASSUME NEW r \in Rooms, NEW i \in RoomIds, CreateRoom(r, i) PROVE Goal
  <2>1. Post(Task("created", r)) /\ life'[r] = "open" /\ cur' = cur /\ router'.room = None
    BY Zenon, <1>10, CreateFacts
  <2>2. Task("created", r) \in TaskType /\ Task("created", r).room = r
    BY Zenon, RoomTaskType
  <2>3. Tasks
    BY Zenon, <1>5, <2>1, <2>2
  <2>. QED
    BY Zenon, <1>6, <1>7, <2>1, <2>3
<1>11. ASSUME NEW t \in TaskType, RouterPosts(t) PROVE Goal
  <2>1. Post(t) /\ life[t.room] # "unborn" /\ t.room \in Rooms /\ cur' = cur /\ router'.room = None
    BY Zenon, <1>11, TaskFacts DEF RouterPosts
  <2>2. Tasks
    BY Zenon, <1>1, <1>5, <2>1
  <2>. QED
    BY Zenon, <1>6, <1>7, <2>1, <2>2
<1>12. CASE RunCreated \/ RunSend
  <2>1. /\ cur' = cur /\ router' = router /\ strand' = Tail(strand) /\ \E ops : Take(ops)
    BY Zenon, <1>12 DEF RunCreated, RunSend
  <2>. QED
    BY Zenon, <1>4, <1>6, <1>7, <2>1
<1>13. CASE BeginRequest \/ TakeClose \/ RunKick
  <2>1. /\ router' = router /\ strand' = Tail(strand) /\ \E ops : Take(ops) /\ 1 \in 1..Len(strand)
        /\ cur' = Idle \/ cur'.task = strand[1]
    BY Zenon, <1>13, TakenFacts
  <2>2. Cur
    BY Zenon, <1>2, <2>1
  <2>. QED
    BY Zenon, <1>4, <1>6, <2>1, <2>2
<1>14. CASE NotifyEnter \/ NotifyExit
  <2>1. /\ router' = router /\ Post(Task("send", cur.task.room)) /\ cur # Idle
        /\ cur' = Idle \/ cur'.task = cur.task
        /\ cur.task.room \in Rooms
    BY Zenon, <1>14, NotifyFacts
  <2>2. Task("send", cur.task.room) \in TaskType /\ Task("send", cur.task.room).room = cur.task.room
    BY Zenon, <2>1, RoomTaskType
  <2>3. Tasks
    BY Zenon, <1>2, <1>5, <2>1, <2>2
  <2>. QED
    BY Zenon, <1>6, <1>7, <2>1, <2>3
<1>15. ASSUME strand' = strand, router' = router, cur # Idle, cur' = Idle \/ cur'.task = cur.task
       PROVE  Goal
  BY Zenon, <1>3, <1>6, <1>7, <1>15
<1>16. CASE JoinBody \/ LeaveBody
  BY Zenon, <1>15, <1>16, BodyFacts
<1>17. CASE JoinReply \/ LeaveReply
  BY Zenon, <1>15, <1>17, ReplyFacts
<1>18. CASE CloseRoom
  BY Zenon, <1>15, <1>18, CloseRoomFacts
<1>19. CASE CloseImpl
  BY Zenon, <1>15, <1>19, CloseImplFacts
<1>20. CASE ReleaseContents
  BY Zenon, <1>15, <1>20, ReleaseFacts
<1>21. CASE EraseKicked
  BY Zenon, <1>15, <1>21, EraseFacts
<1>22. CASE Shutdown
  <2>1. /\ \A n \in 1..Len(strand) : strand'[n] = strand[n]
        /\ \A n \in 1..Len(strand') : n \in 1..Len(strand) \/ strand'[n].room \in Range(rooms)
    BY Zenon, <1>0, <1>22, ShutdownFacts
  <2>2. \A r \in Range(rooms) : life[r] = "open"
    BY DEF LookupsAreSound, Range
  <2>3. life' = life /\ cur' = cur /\ router' = router
    BY Zenon, <1>22 DEF Shutdown, roomVars
  <2>4. Tasks
    BY Zenon, <1>2, <2>1, <2>2, <2>3
  <2>. QED
    BY Zenon, <1>6, <1>7, <2>3, <2>4
<1>. QED
  BY StepKinds, <1>8, <1>9, <1>10, <1>11, <1>12, <1>13, <1>14, <1>16, <1>17, <1>18, <1>19, <1>20,
     <1>21, <1>22 DEF Kinds

(* Where the running operation stands, and what its room is like then. *)
CurStages ==
  /\ cur.notify => cur.done
  /\ cur.step = "body" => ~cur.done
  /\ cur.step \in {"reply", "notify", "empty"} /\ cur.done => life[cur.task.room] = "open"
  /\ cur.step \in {"notify", "empty"} => cur.done
  /\ cur.step = "kicked" => life[cur.task.room] = "open"
  /\ cur.step = "close" => ~Registered(cur.task.room)
  /\ cur.step = "destroy" => life[cur.task.room] = "closing"

(* Every step keeps what the running task knows of its room. *)
LEMMA CurStagesStep ==
  ASSUME TypeOK, TypeOK', Born, Stages, LookupsAreSound, KicksFirst, [Next]_vars
  PROVE  CurStages'
<1>0. /\ strand \in Seq(TaskType) /\ RoomsOk /\ CurOk
      /\ \A n \in 1..Len(strand) : strand[n] \in TaskType /\ strand[n].room \in Rooms
      /\ cur # Idle => cur.task.room \in Rooms
  <2>1. \A n \in 1..Len(strand) : strand[n] \in TaskType
    BY Zenon, EntryTyped DEF TypeOK
  <2>. QED
    BY Zenon, <2>1, TaskFacts, CurFacts DEF TypeOK
<1>1. Idle.step = "idle" /\ ~Idle.notify /\ Idle.step \notin {"reply", "notify", "empty", "body", "kicked", "close", "destroy"}
  BY Zenon DEF Idle
<1>2. \A r \in Rooms : life[r] # "unborn" /\ Registered(r)' => Registered(r)
  BY Zenon, OneWay
<1>3. ASSUME cur' = Idle PROVE CurStages'
  BY Zenon, <1>1, <1>3 DEF CurStages
<1>4. ASSUME cur' = cur, cur # Idle => life'[cur.task.room] = life[cur.task.room] PROVE CurStages'
  <2>1. CASE cur = Idle
    BY Zenon, <1>3, <1>4, <2>1
  <2>2. CASE cur # Idle
    <3>1. Registered(cur.task.room)' => Registered(cur.task.room)
      <4>. DEFINE r == cur.task.room
      <4>1. r \in Rooms /\ life[r] # "unborn"
        BY Zenon, <1>0, <2>2 DEF Born
      <4>2. cur'.task.room = r
        BY Zenon, <1>4
      <4>3. Registered(cur.task.room)' <=> (roomId'[r] \in DOMAIN rooms' /\ rooms'[roomId'[r]] = r)
        BY Zenon, <4>2 DEF Registered
      <4>. HIDE DEF r
      <4>4. (roomId'[r] \in DOMAIN rooms' /\ rooms'[roomId'[r]] = r) => Registered(r)
        BY Zenon, <1>2, <4>1 DEF Registered
      <4>. QED
        BY Zenon, <4>3, <4>4 DEF r
    <3>. QED
      BY Zenon, <1>4, <2>2, <3>1 DEF CurStages, Stages
  <2>. QED
    BY Zenon, <2>1, <2>2
<1>5. CASE QuietStep \/ \E t \in TaskType : RouterPosts(t)
  BY Zenon, <1>4, <1>5 DEF QuietStep, RouterPosts, roomState
<1>6. CASE FindForward \/ Shutdown \/ RunCreated \/ RunSend
  BY Zenon, <1>4, <1>6 DEF FindForward, Shutdown, RunCreated, RunSend, roomVars
<1>7. ASSUME NEW r \in Rooms, NEW i \in RoomIds, CreateRoom(r, i) PROVE CurStages'
  <2>1. cur' = cur /\ (cur # Idle => life'[cur.task.room] = life[cur.task.room])
    BY Zenon, <1>0, <1>7, CreateFacts
  <2>. QED
    BY Zenon, <1>4, <2>1
<1>8. CASE BeginRequest \/ TakeClose \/ RunKick
  <2>1. /\ UNCHANGED <<roomState, main>> /\ 1 \in 1..Len(strand)
        /\ \/ cur' = Idle /\ strand[1].op = "kick"
           \/ /\ cur' # Idle /\ cur'.task = strand[1] /\ ~cur'.done /\ ~cur'.notify
              /\ \/ strand[1].op \in {"join", "leave"} /\ cur'.step \in {"body", "reply"}
                 \/ strand[1].op = "close" /\ cur'.step = "close"
                 \/ /\ strand[1].op = "kick" /\ cur'.step = "kicked"
                    /\ strand[1].uid \in users[strand[1].room]
    BY Zenon, <1>8, TakenFacts
  <2>2. strand[1].op = "close" => ~Registered(strand[1].room)
    BY Zenon, <2>1 DEF Stages
  <2>3. strand[1].op = "kick" /\ strand[1].uid \in users[strand[1].room] => life[strand[1].room] = "open"
    <3>1. strand[1].room \in Rooms /\ life[strand[1].room] # "unborn"
      BY Zenon, <1>0, <2>1 DEF Born
    <3>2. life[strand[1].room] \in Lives
      BY Zenon, <1>0, <3>1 DEF RoomsOk
    <3>3. strand[1].op = "kick" => ~NoKicks
      BY Zenon, <2>1 DEF NoKicks
    <3>. QED
      BY Zenon, <3>1, <3>2, <3>3 DEF KicksFirst, Lives
  <2>4. UNCHANGED <<rooms, roomId, life>>
    BY Zenon, <2>1 DEF roomState
  <2>5. CASE cur' = Idle
    BY Zenon, <1>3, <2>5
  <2>6. CASE cur'.task = strand[1] /\ ~cur'.done /\ ~cur'.notify
             /\ cur'.step \in {"body", "reply", "close", "kicked"}
             /\ (cur'.step = "close" => ~Registered(strand[1].room))
             /\ (cur'.step = "kicked" => life[strand[1].room] = "open")
    <3>1. Registered(cur.task.room)' <=> Registered(strand[1].room)
      BY Zenon, <2>4, <2>6 DEF Registered
    <3>. QED
      BY Zenon, <2>4, <2>6, <3>1 DEF CurStages
  <2>. QED
    BY <2>1, <2>2, <2>3, <2>5, <2>6
<1>9. CASE JoinBody \/ LeaveBody
  BY Zenon, <1>9, BodyFacts DEF CurStages
<1>10. CASE JoinReply \/ LeaveReply
  <2>1. /\ life' = life /\ cur.step = "reply"
        /\ \/ cur' = Idle
           \/ /\ cur.notify /\ cur'.task = cur.task /\ cur'.step = "notify"
              /\ cur'.done = cur.done /\ cur'.notify = cur.notify
    BY Zenon, <1>10, ReplyFacts
  <2>2. CASE cur' = Idle
    BY Zenon, <1>3, <2>2
  <2>3. CASE cur' # Idle
    BY Zenon, <2>1, <2>3 DEF CurStages, Stages
  <2>. QED
    BY Zenon, <2>2, <2>3
<1>11. CASE NotifyEnter \/ NotifyExit
  <2>1. /\ life' = life /\ cur.step = "notify"
        /\ \/ cur' = Idle
           \/ /\ cur'.task = cur.task /\ cur'.step = "empty"
              /\ cur'.done = cur.done /\ cur'.notify = cur.notify
    BY Zenon, <1>11, NotifyFacts DEF roomState
  <2>2. CASE cur' = Idle
    BY Zenon, <1>3, <2>2
  <2>3. CASE cur' # Idle
    BY <2>1, <2>3 DEF CurStages, Stages
  <2>. QED
    BY Zenon, <2>2, <2>3
<1>12. CASE CloseRoom
  <2>1. /\ roomId' = roomId
        /\ \/ cur' = Idle
           \/ /\ cur'.task = cur.task /\ cur'.step = "close"
              /\ cur'.done = cur.done /\ cur'.notify = cur.notify
              /\ rooms' = Without(rooms, {roomId[cur.task.room]})
    BY Zenon, <1>12, CloseRoomFacts
  <2>2. CASE cur' = Idle
    BY Zenon, <1>3, <2>2
  <2>3. CASE cur' # Idle
    <3>1. roomId'[cur'.task.room] \notin DOMAIN rooms'
      BY Zenon, <2>1, <2>3 DEF Without
    <3>. QED
      BY Zenon, <2>1, <2>3, <3>1 DEF CurStages, Stages, Registered
  <2>. QED
    BY Zenon, <2>2, <2>3
<1>13. CASE CloseImpl
  <2>1. \/ cur' = Idle
        \/ /\ cur'.task = cur.task /\ cur'.step = "destroy"
           /\ cur'.done = cur.done /\ cur'.notify = cur.notify
           /\ life'[cur.task.room] = "closing"
    BY Zenon, <1>13, CloseImplFacts
  <2>2. CASE cur' = Idle
    BY Zenon, <1>3, <2>2
  <2>3. CASE cur' # Idle
    BY Zenon, <2>1, <2>3 DEF CurStages, Stages
  <2>. QED
    BY Zenon, <2>2, <2>3
<1>14. CASE ReleaseContents \/ EraseKicked
  BY Zenon, <1>3, <1>14, ReleaseFacts, EraseFacts
<1>. QED
  BY StepKinds, <1>5, <1>6, <1>7, <1>8, <1>9, <1>10, <1>11, <1>12, <1>13, <1>14 DEF Kinds

(* Every step keeps that, and that a room about to be closed is unknown. *)
LEMMA StagesStep ==
  ASSUME TypeOK, TypeOK', Born, Stages, LookupsAreSound, KicksFirst, [Next]_vars
  PROVE  Stages'
<1>. DEFINE Closes == \A n \in 1..Len(strand') : strand'[n].op = "close" =>
                        ~(roomId'[strand'[n].room] \in DOMAIN rooms'
                          /\ rooms'[roomId'[strand'[n].room]] = strand'[n].room)
            Gone(r) == ~(roomId'[r] \in DOMAIN rooms' /\ rooms'[roomId'[r]] = r)
<1>. SUFFICES Closes
  BY Zenon, CurStagesStep DEF CurStages, Stages, Registered
<1>0. /\ strand \in Seq(TaskType) /\ RoomsOk
      /\ \A n \in 1..Len(strand) : strand[n] \in TaskType /\ strand[n].room \in Rooms
  <2>1. \A n \in 1..Len(strand) : strand[n] \in TaskType
    BY Zenon, EntryTyped DEF TypeOK
  <2>. QED
    BY Zenon, <2>1, TaskFacts DEF TypeOK
<1>1. \A r \in Rooms : life[r] # "unborn" /\ ~Registered(r) => Gone(r)
  BY Zenon, OneWay DEF Registered
<1>2. \A n \in 1..Len(strand) : strand[n].op = "close" => Gone(strand[n].room)
  BY Zenon, <1>0, <1>1 DEF Stages, Born
<1>3. CASE strand' = strand
  BY Zenon, <1>2, <1>3
<1>4. ASSUME NEW ops, Take(ops), strand' = Tail(strand) PROVE Closes
  <2>1. \A n \in 1..Len(strand') : n + 1 \in 1..Len(strand) /\ strand'[n] = strand[n + 1]
    BY Zenon, <1>0, <1>4, TakeFacts
  <2>. QED
    BY Zenon, <1>2, <2>1
<1>5. ASSUME NEW t \in TaskType, Post(t), t.op # "close" PROVE Closes
  <2>1. /\ \A n \in 1..Len(strand) : strand'[n] = strand[n]
        /\ strand'[Len(strand) + 1] = t
        /\ \A n \in 1..Len(strand') : n \in 1..Len(strand) \/ n = Len(strand) + 1
    BY Zenon, <1>0, <1>5, PostFacts
  <2>. QED
    BY Zenon, <1>2, <1>5, <2>1
<1>6. CASE Shutdown
  <2>1. DOMAIN rooms' = {}
    BY Zenon, <1>6, MapFacts DEF Shutdown
  <2>. QED
    BY Zenon, <2>1
<1>. QED
  BY Zenon, StrandEffect, <1>3, <1>4, <1>5, <1>6 DEF StrandMoves

(* Every step keeps lookups sound. *)
LEMMA LookupsStep ==
  ASSUME TypeOK, TypeOK', Born, Stages, LookupsAreSound, [Next]_vars
  PROVE  LookupsAreSound'
<1>. DEFINE Known == \A i \in DOMAIN rooms' : roomId'[rooms'[i]] = i /\ life'[rooms'[i]] = "open"
            Indexed == \A u \in DOMAIN userRooms' : userRooms'[u] \in DOMAIN rooms'
            Goal == Known /\ Indexed
<1>. SUFFICES Goal
  BY Zenon DEF LookupsAreSound, Range
<1>0. /\ RoomsOk /\ \A i \in DOMAIN rooms : rooms[i] \in Rooms
      /\ \A i \in DOMAIN rooms : roomId[rooms[i]] = i /\ life[rooms[i]] = "open"
      /\ \A u \in DOMAIN userRooms : userRooms[u] \in DOMAIN rooms
  BY Zenon DEF TypeOK, RoomsOk, LookupsAreSound, Range
<1>1. ASSUME UNCHANGED <<rooms, userRooms, roomId, life>> PROVE Goal
  BY Zenon, <1>0, <1>1
<1>2. CASE QuietStep \/ \E t \in TaskType : RouterPosts(t)
  BY Zenon, <1>1, <1>2 DEF QuietStep, RouterPosts, roomState
<1>3. CASE FindForward \/ RunCreated \/ RunSend
  BY Zenon, <1>1, <1>3 DEF FindForward, RunCreated, RunSend, managerVars, roomVars
<1>4. CASE BeginRequest \/ TakeClose \/ RunKick
  BY Zenon, <1>1, <1>4, TakenFacts DEF roomState
<1>5. CASE JoinBody \/ LeaveBody
  BY Zenon, <1>1, <1>5, BodyFacts
<1>6. CASE NotifyEnter \/ NotifyExit
  BY Zenon, <1>1, <1>6, NotifyFacts DEF roomState
<1>7. CASE EraseKicked
  BY Zenon, <1>1, <1>7, EraseFacts
<1>8. ASSUME NEW r \in Rooms, NEW i \in RoomIds, CreateRoom(r, i) PROVE Goal
  <2>1. /\ rooms' = With(rooms, i, r) /\ userRooms' = With(userRooms, router.uid, i)
        /\ roomId'[r] = i /\ life'[r] = "open"
        /\ \A q \in Rooms : q # r => roomId'[q] = roomId[q] /\ life'[q] = life[q]
        /\ \A j \in DOMAIN rooms : rooms[j] # r
    BY <1>8, CreateFacts
  <2>2. Known
    BY Zenon, <1>0, <2>1 DEF With
  <2>3. Indexed
    BY Zenon, <1>0, <2>1 DEF With
  <2>. QED
    BY Zenon, <2>2, <2>3
<1>9. CASE JoinReply \/ LeaveReply
  <2>1. UNCHANGED <<rooms, roomId, life>>
    BY Zenon, <1>9, ReplyFacts
  <2>2. \/ userRooms' = userRooms
        \/ \E uids : userRooms' = Without(userRooms, uids)
        \/ /\ userRooms' = With(userRooms, cur.task.uid, roomId[cur.task.room])
           /\ roomId[cur.task.room] \in DOMAIN rooms
    BY Zenon, <1>9 DEF JoinReply, LeaveReply, Registered
  <2>3. CASE userRooms' = userRooms
    BY Zenon, <1>0, <2>1, <2>3
  <2>4. ASSUME NEW uids, userRooms' = Without(userRooms, uids) PROVE Indexed
    BY Zenon, <1>0, <2>1, <2>4 DEF Without
  <2>5. CASE /\ userRooms' = With(userRooms, cur.task.uid, roomId[cur.task.room])
             /\ roomId[cur.task.room] \in DOMAIN rooms
    <3>1. Indexed
      BY Zenon, <1>0, <2>1, <2>5 DEF With
    <3>. QED
      BY Zenon, <1>0, <2>1, <3>1
  <2>. QED
    BY Zenon, <1>0, <2>1, <2>2, <2>3, <2>4, <2>5
<1>10. CASE CloseRoom
  <2>1. CASE UNCHANGED <<rooms, userRooms>>
    BY Zenon, <1>1, <1>10, <2>1, CloseRoomFacts
  <2>2. CASE ~UNCHANGED <<rooms, userRooms>>
    <3>1. /\ UNCHANGED <<roomId, life>>
          /\ rooms' = Without(rooms, {roomId[cur.task.room]})
          /\ userRooms' = Without(userRooms, {u \in DOMAIN userRooms :
                                                userRooms[u] = roomId[cur.task.room]})
      BY Zenon, <1>10, <2>2, CloseRoomFacts
    <3>. QED
      BY Zenon, <1>0, <3>1 DEF Without
  <2>. QED
    BY Zenon, <2>1, <2>2
<1>11. CASE CloseImpl
  <2>1. /\ UNCHANGED <<rooms, userRooms, roomId>> /\ cur.step = "close"
        /\ \A r \in Rooms : r # cur.task.room => life'[r] = life[r]
    BY Zenon, <1>11, CloseImplFacts
  <2>2. \A i \in DOMAIN rooms : rooms[i] # cur.task.room
    BY <1>0, <2>1 DEF Stages, Registered
  <2>. QED
    BY Zenon, <1>0, <2>1, <2>2
<1>12. CASE ReleaseContents
  <2>1. /\ UNCHANGED <<rooms, userRooms, roomId>> /\ cur.step = "destroy"
        /\ \A r \in Rooms : r # cur.task.room => life'[r] = life[r]
    BY Zenon, <1>12, ReleaseFacts
  <2>2. \A i \in DOMAIN rooms : rooms[i] # cur.task.room
    BY Zenon, <1>0, <2>1 DEF Stages
  <2>. QED
    BY Zenon, <1>0, <2>1, <2>2
<1>13. CASE Shutdown
  <2>1. DOMAIN rooms' = {} /\ DOMAIN userRooms' = {}
    BY Zenon, <1>13, MapFacts DEF Shutdown
  <2>. QED
    BY Zenon, <2>1
<1>. QED
  BY StepKinds, <1>2, <1>3, <1>4, <1>5, <1>6, <1>7, <1>8, <1>9, <1>10, <1>11, <1>12, <1>13 DEF Kinds

(* Kicks: the tasks that a step can add are no kick unless one was forwarded.*)
LEMMA KickTasks ==
  ASSUME TypeOK, [Next]_vars, main # "running" \/ Messages \subseteq {Chat}
  PROVE  NoKicks => NoKicks'
<1>0. strand \in Seq(TaskType) /\ RoomsOk
  BY Zenon DEF TypeOK
<1>. SUFFICES ASSUME NoKicks PROVE NoKicks'
  BY Zenon
<1>1. CASE strand' = strand
  BY Zenon, <1>1 DEF NoKicks
<1>2. ASSUME NEW ops, Take(ops), strand' = Tail(strand) PROVE NoKicks'
  <2>1. \A n \in 1..Len(strand') : n + 1 \in 1..Len(strand) /\ strand'[n] = strand[n + 1]
    BY Zenon, <1>0, <1>2, TakeFacts
  <2>. QED
    BY Zenon, <2>1 DEF NoKicks
<1>3. ASSUME NEW t \in TaskType, Post(t), t.op # "kick" PROVE NoKicks'
  <2>1. /\ \A n \in 1..Len(strand) : strand'[n] = strand[n]
        /\ strand'[Len(strand) + 1] = t
        /\ \A n \in 1..Len(strand') : n \in 1..Len(strand) \/ n = Len(strand) + 1
    BY Zenon, <1>0, <1>3, PostFacts
  <2>. QED
    BY Zenon, <1>3, <2>1 DEF NoKicks
<1>4. CASE Shutdown
  <2>1. /\ \A n \in 1..Len(strand) : strand'[n] = strand[n]
        /\ \A n \in 1..Len(strand') : n \in 1..Len(strand) \/ strand'[n].op = "close"
    BY Zenon, <1>0, <1>4, ShutdownFacts
  <2>. QED
    BY Zenon, <2>1 DEF NoKicks
<1>. QED
  BY Zenon, StrandEffect, <1>1, <1>2, <1>3, <1>4 DEF StrandMoves

(* The main thread never goes back from shutdown(). *)
LEMMA MainStep ==
  ASSUME [Next]_vars
  PROVE  main' \in {"running", "joined"} => main \in {"running", "joined"} /\ ~Shutdown
<1>1. ASSUME main' = main, ~Shutdown
      PROVE  main' \in {"running", "joined"} => main \in {"running", "joined"} /\ ~Shutdown
  BY Zenon, <1>1
<1>2. Shutdown => main' = "closing"
  BY Zenon DEF Shutdown
<1>3. CASE Environment
  <2>1. main' = main \/ (main = "running" /\ main' = "joined")
    BY Zenon, <1>3 DEF Environment, ReceiveCreate, ReceiveJoin, ReceiveLeave, Receive, ReceiveForward,
                ReceiveRefused, ReceiveCancel, StopChannel, mainVars
  <2>. QED
    BY Zenon, <1>2, <2>1
<1>4. CASE Router
  <2>1. main' = main \/ main' = "crashed"
    BY Zenon, <1>4 DEF Router, CreateBegin, CreateRoom, RequestWithoutRoom, RejectRequest, LookupUser,
                PostRequest, ForwardWithoutRoom, FindForward, DeliverKick, DeliverChat, EchoToUsers,
                DeliverNull, DeliverRaces, mainVars
  <2>. QED
    BY Zenon, <1>2, <2>1
<1>5. CASE Strand
  <2>1. main' = main
    BY Zenon, <1>5 DEF Strand, RunCreated, BeginRequest, JoinBody, LeaveBody, JoinReply, LeaveReply, Complete,
                NotifyEnter, NotifyExit, CloseRoom, TakeClose, CloseImpl, ReleaseContents, RunKick,
                EraseKicked, RunSend, mainVars
  <2>. QED
    BY Zenon, <1>2, <2>1
<1>6. CASE Main
  BY Zenon, <1>2, <1>6 DEF Main, StopWorkers
<1>7. CASE Terminated \/ UNCHANGED vars
  <2>1. main' = main
    BY Zenon, <1>7 DEF Terminated, vars, mainVars
  <2>. QED
    BY Zenon, <1>2, <2>1
<1>. QED
  BY Zenon, <1>3, <1>4, <1>5, <1>6, <1>7 DEF Next

(* The strand goes on with its task, ends it, or takes the oldest one. *)
LEMMA CurTask ==
  ASSUME TypeOK, Born, Stages, LookupsAreSound, [Next]_vars
  PROVE  \/ cur'.task = cur.task
         \/ cur' = Idle
         \/ /\ BeginRequest \/ TakeClose \/ RunKick
            /\ 1 \in 1..Len(strand) /\ cur'.task = strand[1] /\ strand' = Tail(strand)
<1>. DEFINE Goal == \/ cur'.task = cur.task
                    \/ cur' = Idle
                    \/ /\ BeginRequest \/ TakeClose \/ RunKick
                       /\ 1 \in 1..Len(strand) /\ cur'.task = strand[1] /\ strand' = Tail(strand)
<1>1. CASE QuietStep \/ FindForward \/ \E t \in TaskType : RouterPosts(t)
  BY Zenon, <1>1 DEF QuietStep, FindForward, RouterPosts
<1>2. CASE RunCreated \/ RunSend \/ Shutdown \/ \E r \in Rooms, i \in RoomIds : CreateRoom(r, i)
  BY Zenon, <1>2 DEF RunCreated, RunSend, Shutdown, CreateRoom
<1>3. CASE BeginRequest \/ TakeClose \/ RunKick
  BY Zenon, <1>3, TakenFacts
<1>4. CASE JoinBody \/ LeaveBody
  BY Zenon, <1>4, BodyFacts
<1>5. CASE JoinReply \/ LeaveReply
  BY Zenon, <1>5, ReplyFacts
<1>6. CASE NotifyEnter \/ NotifyExit
  BY Zenon, <1>6, NotifyFacts
<1>7. CASE CloseRoom
  BY Zenon, <1>7, CloseRoomFacts
<1>8. CASE CloseImpl
  BY Zenon, <1>8, CloseImplFacts
<1>9. CASE ReleaseContents \/ EraseKicked
  BY Zenon, <1>9 DEF ReleaseContents, EraseKicked
<1>. QED
  BY StepKinds, <1>1, <1>2, <1>3, <1>4, <1>5, <1>6, <1>7, <1>8, <1>9 DEF Kinds

(* A room that is closed keeps its users; close_impl is how one closes. *)
LEMMA ClosedRooms ==
  ASSUME TypeOK, Born, Stages, LookupsAreSound, [Next]_vars,
         NEW r \in Rooms, life'[r] \in {"closing", "closed"}
  PROVE  /\ users'[r] = users[r]
         /\ life[r] \in {"closing", "closed"} \/ (CloseImpl /\ r = cur.task.room)
<1>. DEFINE Goal == /\ users'[r] = users[r]
                    /\ life[r] \in {"closing", "closed"} \/ (CloseImpl /\ r = cur.task.room)
<1>1. ASSUME life'[r] = life[r], users'[r] = users[r] PROVE Goal
  BY Zenon, <1>1
<1>2. CASE QuietStep \/ \E t \in TaskType : RouterPosts(t)
  BY Zenon, <1>1, <1>2 DEF QuietStep, RouterPosts, roomState
<1>3. CASE FindForward \/ RunCreated \/ RunSend \/ Shutdown
  BY Zenon, <1>1, <1>3 DEF FindForward, RunCreated, RunSend, Shutdown, roomVars
<1>4. ASSUME NEW q \in Rooms, NEW i \in RoomIds, CreateRoom(q, i) PROVE Goal
  <2>1. life'[q] = "open" /\ (r # q => life'[r] = life[r] /\ users'[r] = users[r])
    BY Zenon, <1>4, CreateFacts
  <2>. QED
    BY Zenon, <1>1, <2>1
<1>5. CASE BeginRequest \/ TakeClose \/ RunKick
  BY Zenon, <1>1, <1>5, TakenFacts DEF roomState
<1>6. CASE JoinBody \/ LeaveBody
  <2>1. life' = life /\ (life[r] # "open" => users'[r] = users[r])
    BY Zenon, <1>6, BodyFacts
  <2>. QED
    BY Zenon, <1>1, <2>1
<1>7. CASE JoinReply \/ LeaveReply
  BY Zenon, <1>1, <1>7, ReplyFacts
<1>8. CASE NotifyEnter \/ NotifyExit
  BY Zenon, <1>1, <1>8, NotifyFacts DEF roomState
<1>9. CASE CloseRoom
  BY Zenon, <1>1, <1>9, CloseRoomFacts
<1>10. CASE CloseImpl
  <2>1. users' = users /\ (r # cur.task.room => life'[r] = life[r])
    BY Zenon, <1>10, CloseImplFacts
  <2>. QED
    BY Zenon, <1>10, <2>1
<1>11. CASE ReleaseContents
  <2>1. users' = users /\ (r # cur.task.room => life'[r] = life[r]) /\ cur.step = "destroy"
    BY Zenon, <1>11, ReleaseFacts
  <2>. QED
    BY Zenon, <2>1 DEF Stages
<1>12. CASE EraseKicked
  <2>1. /\ life' = life /\ (r # cur.task.room => users'[r] = users[r]) /\ cur.step = "kicked"
    BY Zenon, <1>12, EraseFacts
  <2>. QED
    BY Zenon, <2>1 DEF Stages
<1>. QED
  BY StepKinds, <1>2, <1>3, <1>4, <1>5, <1>6, <1>7, <1>8, <1>9, <1>10, <1>11, <1>12 DEF Kinds

(* The room of a leave that closes it stays empty. *)
LEMMA EmptyRooms ==
  ASSUME TypeOK, Born, Stages, LookupsAreSound, KicksFirst, [Next]_vars,
         cur'.task.op = "leave", cur'.step \in {"empty", "close", "destroy"}
  PROVE  users'[cur'.task.room] = {}
<1>0. cur # Idle => cur.task.room \in Rooms
  BY Zenon, CurFacts DEF TypeOK
<1>1. cur' # Idle
  BY DEF Idle
<1>2. ASSUME cur' = cur, users'[cur.task.room] = users[cur.task.room] PROVE users'[cur'.task.room] = {}
  BY Zenon, <1>2 DEF KicksFirst
<1>3. CASE QuietStep \/ \E t \in TaskType : RouterPosts(t)
  BY Zenon, <1>2, <1>3 DEF QuietStep, RouterPosts, roomState
<1>4. CASE FindForward \/ RunCreated \/ RunSend \/ Shutdown
  BY Zenon, <1>2, <1>4 DEF FindForward, RunCreated, RunSend, Shutdown, roomVars
<1>5. ASSUME NEW q \in Rooms, NEW i \in RoomIds, CreateRoom(q, i) PROVE users'[cur'.task.room] = {}
  <2>1. cur' = cur /\ users'[cur.task.room] = users[cur.task.room]
    BY Zenon, <1>0, <1>1, <1>5, CreateFacts
  <2>. QED
    BY Zenon, <1>2, <2>1
<1>6. CASE BeginRequest \/ TakeClose \/ RunKick
  BY Zenon, <1>1, <1>6, TakenFacts
<1>7. CASE JoinBody \/ LeaveBody
  BY Zenon, <1>7, BodyFacts
<1>8. CASE JoinReply \/ LeaveReply
  BY Zenon, <1>1, <1>8, ReplyFacts
<1>9. CASE NotifyEnter \/ NotifyExit
  BY Zenon, <1>1, <1>9, NotifyFacts DEF roomState
<1>10. CASE CloseRoom
  <2>1. cur'.task = cur.task /\ users' = users /\ cur.step = "empty"
    BY Zenon, <1>1, <1>10, CloseRoomFacts
  <2>. QED
    BY Zenon, <2>1 DEF KicksFirst
<1>11. CASE CloseImpl
  <2>1. cur'.task = cur.task /\ users' = users /\ cur.step = "close"
    BY Zenon, <1>1, <1>11, CloseImplFacts
  <2>. QED
    BY Zenon, <2>1 DEF KicksFirst
<1>12. CASE ReleaseContents \/ EraseKicked
  BY Zenon, <1>1, <1>12 DEF ReleaseContents, EraseKicked
<1>. QED
  BY StepKinds, <1>3, <1>4, <1>5, <1>6, <1>7, <1>8, <1>9, <1>10, <1>11, <1>12 DEF Kinds

(* Every step keeps kicks ahead of closes. *)
LEMMA KicksFirstStep ==
  ASSUME TypeOK, TypeOK', Born, Stages, LookupsAreSound, KicksFirst, [Next]_vars
  PROVE  KicksFirst'
<1>0. strand \in Seq(TaskType) /\ RoomsOk /\ Len(strand) \in Nat /\ Idle.task.op = "none"
  BY DEF TypeOK, Idle, NoTask
<1>1. ASSUME NEW ops, Take(ops), strand' = Tail(strand)
      PROVE  /\ \A n \in 1..Len(strand') : n + 1 \in 1..Len(strand) /\ strand'[n] = strand[n + 1]
             /\ 1 \in 1..Len(strand)
  BY Zenon, <1>0, <1>1, TakeFacts
<1>2. ASSUME NEW t \in TaskType, Post(t)
      PROVE  /\ \A n \in 1..Len(strand) : strand'[n] = strand[n]
             /\ strand'[Len(strand) + 1] = t
             /\ \A n \in 1..Len(strand') : n \in 1..Len(strand) \/ n = Len(strand) + 1
  BY Zenon, <1>0, <1>2, PostFacts
<1>3. ASSUME Shutdown
      PROVE  /\ \A n \in 1..Len(strand) : strand'[n] = strand[n]
             /\ \A n \in 1..Len(strand') : n \in 1..Len(strand) \/ (n > Len(strand) /\ strand'[n].op = "close")
  BY Zenon, <1>0, <1>3, ShutdownFacts
<1>4. main' \in {"running", "joined"} =>
        /\ \A n \in 1..Len(strand') : strand'[n].op # "close"
        /\ cur'.task.op # "close"
  <2>. SUFFICES ASSUME main' \in {"running", "joined"}
                PROVE  /\ \A n \in 1..Len(strand') : strand'[n].op # "close"
                       /\ cur'.task.op # "close"
    BY Zenon
  <2>1. ~Shutdown /\ (\A n \in 1..Len(strand) : strand[n].op # "close") /\ cur.task.op # "close"
    BY Zenon, MainStep DEF KicksFirst
  <2>2. \A n \in 1..Len(strand') : strand'[n].op # "close"
    BY Zenon, StrandEffect, <1>1, <1>2, <2>1 DEF StrandMoves
  <2>3. cur'.task.op # "close"
    BY Zenon, CurTask, <1>0, <2>1
  <2>. QED
    BY Zenon, <2>2, <2>3
<1>5. \A m, n \in 1..Len(strand') : strand'[m].op = "close" /\ strand'[n].op = "kick" => n < m
  <2>. SUFFICES ASSUME NEW m \in 1..Len(strand'), NEW n \in 1..Len(strand'),
                       strand'[m].op = "close", strand'[n].op = "kick"
                PROVE  n < m
    BY Zenon
  <2>0. \A i, j \in 1..Len(strand) : strand[i].op = "close" /\ strand[j].op = "kick" => j < i
    BY Zenon DEF KicksFirst
  <2>1. CASE strand' = strand
    BY Zenon, <2>0, <2>1
  <2>2. ASSUME NEW ops, Take(ops), strand' = Tail(strand) PROVE n < m
    <3>1. n + 1 < m + 1
      BY Zenon, <1>1, <2>0, <2>2
    <3>2. m \in Int /\ n \in Int
      OBVIOUS
    <3>. QED
      BY <3>1, <3>2
  <2>3. ASSUME NEW t \in TaskType, Post(t), t.op # "close", t.op = "kick" => main = "running" PROVE n < m
    <3>1. m \in 1..Len(strand) /\ strand[m].op = "close"
      BY Zenon, <1>2, <2>3
    <3>2. main # "running"
      BY Zenon, <3>1 DEF KicksFirst
    <3>3. n \in 1..Len(strand) /\ strand[n].op = "kick"
      BY Zenon, <1>2, <2>3, <3>2
    <3>. QED
      BY Zenon, <2>0, <3>1, <3>3
  <2>4. CASE Shutdown
    <3>1. n \in 1..Len(strand) /\ strand[n].op = "kick"
      BY Zenon, <1>3, <2>4
    <3>2. CASE m \in 1..Len(strand)
      BY Zenon, <1>3, <2>0, <2>4, <3>1, <3>2
    <3>3. CASE m > Len(strand)
      BY <1>0, <3>1, <3>3
    <3>. QED
      BY Zenon, <1>3, <2>4, <3>2, <3>3
  <2>. QED
    BY StrandEffect, <2>1, <2>2, <2>3, <2>4 DEF StrandMoves
<1>6. cur'.task.op = "close" => NoKicks'
  <2>. SUFFICES ASSUME cur'.task.op = "close" PROVE NoKicks'
    BY Zenon
  <2>1. CASE cur'.task = cur.task
    BY Zenon, <2>1, KickTasks DEF KicksFirst
  <2>2. CASE cur' = Idle
    BY Zenon, <1>0, <2>2
  <2>3. CASE /\ BeginRequest \/ TakeClose \/ RunKick
             /\ 1 \in 1..Len(strand) /\ cur'.task = strand[1] /\ strand' = Tail(strand)
    <3>1. \A n \in 1..Len(strand') : n + 1 \in 1..Len(strand) /\ strand'[n] = strand[n + 1]
      BY Zenon, <1>1, <2>3, TakenFacts
    <3>2. \A n \in 1..Len(strand') : ~(n + 1 < 1)
      OBVIOUS
    <3>. QED
      BY Zenon, <2>3, <3>1, <3>2 DEF KicksFirst, NoKicks
  <2>. QED
    BY Zenon, CurTask, <2>1, <2>2, <2>3
<1>7. ASSUME NEW r \in Rooms, life'[r] \in {"closing", "closed"}, users'[r] # {}
      PROVE  main' \notin {"running", "joined"} /\ NoKicks'
  <2>1. users[r] # {} /\ (life[r] \in {"closing", "closed"} \/ (CloseImpl /\ r = cur.task.room))
    BY Zenon, <1>7, ClosedRooms
  <2>2. main \notin {"running", "joined"} /\ NoKicks
    <3>1. CASE life[r] \in {"closing", "closed"}
      BY Zenon, <2>1, <3>1 DEF KicksFirst
    <3>2. CASE CloseImpl /\ r = cur.task.room
      <4>1. cur.step = "close" /\ cur.task.op \in {"leave", "close"}
        BY Zenon, <3>2, CloseImplFacts
      <4>2. cur.task.op = "close"
        BY Zenon, <2>1, <3>2, <4>1 DEF KicksFirst
      <4>. QED
        BY Zenon, <4>2 DEF KicksFirst
    <3>. QED
      BY Zenon, <2>1, <3>1, <3>2
  <2>. QED
    BY Zenon, <2>2, MainStep, KickTasks
<1>. QED
  BY Zenon, <1>4, <1>5, <1>6, <1>7, EmptyRooms DEF KicksFirst

-----------------------------------------------------------------------------
(* on_create_room comes first *)

(* CreatedFirst of the strand and of the running task apart. *)
QueueMade ==
  /\ \A m, n \in 1..Len(strand), r \in Rooms : Makes(m, r) /\ Makes(n, r) => m = n
  /\ \A n \in 1..Len(strand), r \in Rooms : Makes(n, r) => contents[r] = "built"
  /\ \A r \in Rooms : life[r] = "open" => Made(r, Len(strand))
  /\ \A n \in 1..Len(strand) :
       life[strand[n].room] = "open" /\ strand[n].op # "created" => Made(strand[n].room, n - 1)

CurMade ==
  /\ cur # Idle /\ life[cur.task.room] = "open" => contents[cur.task.room] = "created"
  /\ cur.step \in {"kicked", "destroy"} => contents[cur.task.room] = "created"

(* The tasks on the strand are tasks of rooms. *)
LEMMA TaskRooms ==
  ASSUME TypeOK
  PROVE  /\ Len(strand) \in Nat
         /\ \A n \in 1..Len(strand) : strand[n] \in TaskType /\ strand[n].room \in Rooms
<1>1. \A n \in 1..Len(strand) : strand[n] \in TaskType
  BY Zenon, EntryTyped DEF TypeOK
<1>. QED
  BY <1>1, TaskFacts DEF TypeOK

(* The strand and the contents stay as they are. *)
LEMMA MadeSame ==
  ASSUME TypeOK, QueueMade, strand' = strand, contents' = contents,
         \A r \in Rooms : life'[r] = "open" => life[r] = "open"
  PROVE  QueueMade'
BY TaskRooms DEF QueueMade, Makes, Made

(* contents_.reset() of a room that is closed. *)
LEMMA MadeRelease ==
  ASSUME TypeOK, QueueMade, CurMade, ReleaseContents
  PROVE  QueueMade'
<1>1. /\ strand' = strand /\ cur.task.room \in Rooms /\ contents[cur.task.room] = "created"
      /\ \A r \in Rooms : r # cur.task.room => life'[r] = life[r] /\ contents'[r] = contents[r]
      /\ life'[cur.task.room] = "closed"
  BY Zenon, ReleaseFacts DEF CurMade
<1>2. \A n \in 1..Len(strand) : ~Makes(n, cur.task.room)
  BY Zenon, <1>1 DEF QueueMade
<1>. QED
  BY <1>1, <1>2, TaskRooms DEF QueueMade, Makes, Made

(* The strand takes its oldest task. *)
LEMMA MadeTake ==
  ASSUME TypeOK, QueueMade, NEW ops, Take(ops), strand' = Tail(strand), life' = life,
         \/ strand[1].op # "created" /\ contents' = contents
         \/ strand[1].op = "created" /\ contents' = [contents EXCEPT ![strand[1].room] = "created"]
  PROVE  QueueMade'
<1>0. /\ 1 \in 1..Len(strand) /\ strand[1].room \in Rooms
      /\ Len(strand) \in Nat /\ Len(strand') \in Nat /\ Len(strand') = Len(strand) - 1
      /\ \A n \in 1..Len(strand') : n + 1 \in 1..Len(strand) /\ strand'[n] = strand[n + 1]
      /\ contents \in [Rooms -> {"null", "built", "created"}]
  BY TaskRooms, TakeFacts DEF TypeOK, RoomsOk
<1>1. \A n \in 1..Len(strand'), r \in Rooms : Makes(n, r)' <=> Makes(n + 1, r)
  BY Zenon, <1>0 DEF Makes
<1>2. \A r \in Rooms : contents'[r] = contents[r] \/ (Makes(1, r) /\ contents'[r] = "created")
  BY Zenon, <1>0 DEF Makes
<1>3. \A r \in Rooms : Makes(1, r) => contents'[r] = "created"
  BY Zenon, <1>0 DEF Makes
<1>4. ASSUME NEW m \in 1..Len(strand'), NEW n \in 1..Len(strand'), NEW r \in Rooms,
             Makes(m, r)', Makes(n, r)'
      PROVE  m = n
  <2>1. m + 1 = n + 1
    BY Zenon, <1>0, <1>1, <1>4 DEF QueueMade
  <2>. QED
    BY <1>0, <2>1
<1>5. ASSUME NEW n \in 1..Len(strand'), NEW r \in Rooms, Makes(n, r)'
      PROVE  contents'[r] = "built"
  <2>1. Makes(n + 1, r) /\ n + 1 \in 1..Len(strand) /\ n + 1 # 1
    BY <1>0, <1>1, <1>5
  <2>2. contents[r] = "built" /\ ~Makes(1, r)
    BY Zenon, <1>0, <2>1 DEF QueueMade
  <2>. QED
    BY Zenon, <1>2, <2>2
<1>6. ASSUME NEW r \in Rooms, NEW k \in 0..Len(strand'), Made(r, k + 1)
      PROVE  contents'[r] = "created" \/ \E m \in 1..k : Makes(m, r)'
  <2>1. CASE contents[r] = "created"
    BY Zenon, <1>2, <2>1
  <2>2. ASSUME NEW m \in 1..(k + 1), Makes(m, r)
        PROVE  contents'[r] = "created" \/ \E i \in 1..k : Makes(i, r)'
    <3>1. CASE m = 1
      BY Zenon, <1>3, <2>2, <3>1
    <3>2. CASE m # 1
      <4>1. m - 1 \in 1..k /\ m - 1 \in 1..Len(strand') /\ (m - 1) + 1 = m
        BY <1>0, <3>2
      <4>2. Makes(m - 1, r)' <=> Makes((m - 1) + 1, r)
        BY Zenon, <1>1, <4>1
      <4>. QED
        BY Zenon, <2>2, <4>1, <4>2
    <3>. QED
      BY Zenon, <3>1, <3>2
  <2>. QED
    BY Zenon, <1>6, <2>1, <2>2 DEF Made
<1>7. ASSUME NEW r \in Rooms, life'[r] = "open"
      PROVE  contents'[r] = "created" \/ \E m \in 1..Len(strand') : Makes(m, r)'
  <2>1. Made(r, Len(strand)) /\ Len(strand) = Len(strand') + 1 /\ Len(strand') \in 0..Len(strand')
    BY <1>0, <1>7 DEF QueueMade
  <2>2. Made(r, Len(strand') + 1)
    BY Zenon, <2>1
  <2>. QED
    BY Zenon, <1>6, <2>1, <2>2
<1>8. ASSUME NEW n \in 1..Len(strand'), NEW r \in Rooms, r = strand'[n].room,
             life'[r] = "open", strand'[n].op # "created"
      PROVE  contents'[r] = "created" \/ \E m \in 1..(n - 1) : Makes(m, r)'
  <2>1. n + 1 \in 1..Len(strand) /\ strand'[n] = strand[n + 1]
    BY Zenon, <1>0
  <2>2. Made(r, (n + 1) - 1) /\ (n + 1) - 1 = (n - 1) + 1 /\ n - 1 \in 0..Len(strand')
    BY <1>0, <1>8, <2>1 DEF QueueMade
  <2>. QED
    BY Zenon, <1>6, <2>2
<1>9. \A n \in 1..Len(strand') : strand'[n].room \in Rooms
  BY Zenon, <1>0, TaskRooms
<1>10. \A n \in 1..Len(strand') : life'[strand'[n].room] = "open" /\ strand'[n].op # "created" =>
         \/ contents'[strand'[n].room] = "created"
         \/ \E m \in 1..(n - 1) : strand'[m].op = "created" /\ strand'[m].room = strand'[n].room
  BY Zenon, <1>8, <1>9 DEF Makes
<1>. QED
  BY <1>4, <1>5, <1>7, <1>10 DEF QueueMade, Made, Makes

(* Tasks other than on_create_room join the strand. *)
LEMMA MadeExtend ==
  ASSUME TypeOK, TypeOK', QueueMade, contents' = contents, life' = life,
         Len(strand) <= Len(strand'),
         \A n \in 1..Len(strand) : n \in 1..Len(strand') /\ strand'[n] = strand[n],
         \A n \in 1..Len(strand') : n \in 1..Len(strand) \/ (n > Len(strand) /\ strand'[n].op # "created")
  PROVE  QueueMade'
<1>0. /\ Len(strand) \in Nat /\ Len(strand') \in Nat
      /\ \A n \in 1..Len(strand') : strand'[n].room \in Rooms
  BY TaskRooms, TaskFacts, EntryTyped DEF TypeOK
<1>1. /\ \A n \in 1..Len(strand), r \in Rooms : Makes(n, r)' <=> Makes(n, r)
      /\ \A n \in 1..Len(strand'), r \in Rooms : Makes(n, r)' => n \in 1..Len(strand)
  BY Zenon DEF Makes
<1>2. ASSUME NEW m \in 1..Len(strand'), NEW n \in 1..Len(strand'), NEW r \in Rooms,
             Makes(m, r)', Makes(n, r)'
      PROVE  m = n
  BY Zenon, <1>1, <1>2 DEF QueueMade
<1>3. ASSUME NEW n \in 1..Len(strand'), NEW r \in Rooms, Makes(n, r)'
      PROVE  contents'[r] = "built"
  BY Zenon, <1>1, <1>3 DEF QueueMade
<1>4. ASSUME NEW r \in Rooms, NEW k \in 0..Len(strand), NEW l \in Nat, k <= l, Made(r, k)
      PROVE  contents'[r] = "created" \/ \E m \in 1..l : Makes(m, r)'
  <2>1. \A m \in 1..k : m \in 1..l /\ m \in 1..Len(strand)
    BY <1>0, <1>4
  <2>. QED
    BY Zenon, <1>1, <1>4, <2>1 DEF Made
<1>5. ASSUME NEW r \in Rooms, life'[r] = "open"
      PROVE  contents'[r] = "created" \/ \E m \in 1..Len(strand') : Makes(m, r)'
  <2>1. Made(r, Len(strand)) /\ Len(strand) \in 0..Len(strand)
    BY <1>0, <1>5 DEF QueueMade
  <2>. QED
    BY Zenon, <1>0, <1>4, <2>1
<1>6. ASSUME NEW n \in 1..Len(strand'), NEW r \in Rooms, r = strand'[n].room,
             life'[r] = "open", strand'[n].op # "created"
      PROVE  contents'[r] = "created" \/ \E m \in 1..(n - 1) : Makes(m, r)'
  <2>1. CASE n \in 1..Len(strand)
    <3>1. Made(r, n - 1) /\ n - 1 \in 0..Len(strand) /\ n - 1 \in Nat /\ n - 1 <= n - 1
      BY <1>0, <1>6, <2>1 DEF QueueMade
    <3>. QED
      BY Zenon, <1>4, <3>1
  <2>2. CASE n > Len(strand)
    <3>1. Made(r, Len(strand)) /\ Len(strand) \in 0..Len(strand) /\ n - 1 \in Nat /\ Len(strand) <= n - 1
      BY <1>0, <1>6, <2>2 DEF QueueMade
    <3>. QED
      BY Zenon, <1>4, <3>1
  <2>. QED
    BY Zenon, <2>1, <2>2
<1>7. \A n \in 1..Len(strand') : life'[strand'[n].room] = "open" /\ strand'[n].op # "created" =>
         \/ contents'[strand'[n].room] = "created"
         \/ \E m \in 1..(n - 1) : strand'[m].op = "created" /\ strand'[m].room = strand'[n].room
  BY Zenon, <1>0, <1>6 DEF Makes
<1>. QED
  BY <1>2, <1>3, <1>5, <1>7 DEF QueueMade, Made, Makes

(* create_room posts on_create_room for the room it makes. *)
LEMMA MadeCreate ==
  ASSUME TypeOK, TypeOK', Born, LookupsAreSound, QueueMade,
         NEW q \in Rooms, NEW i \in RoomIds, CreateRoom(q, i)
  PROVE  QueueMade'
<1>1. /\ Post(Task("created", q)) /\ life[q] = "unborn" /\ contents'[q] = "built"
      /\ \A r \in Rooms : r # q => life'[r] = life[r] /\ contents'[r] = contents[r]
      /\ \A n \in 1..Len(strand) : strand[n].room # q
  BY CreateFacts
<1>2. /\ Len(strand) \in Nat /\ Len(strand') \in Nat
      /\ \A n \in 1..Len(strand') : strand'[n].room \in Rooms
  BY TaskRooms, TaskFacts, EntryTyped DEF TypeOK
<1>3. /\ Task("created", q) \in TaskType
      /\ Task("created", q).op = "created" /\ Task("created", q).room = q
  BY Zenon, RoomTaskType
<1>4. /\ \A n \in 1..Len(strand) : strand'[n] = strand[n]
      /\ strand'[Len(strand) + 1] = Task("created", q)
      /\ \A n \in 1..Len(strand') : n \in 1..Len(strand) \/ n = Len(strand) + 1
      /\ Len(strand') = Len(strand) + 1
  BY Zenon, <1>1, <1>3, PostFacts DEF TypeOK
<1>5. /\ \A n \in 1..Len(strand), r \in Rooms : Makes(n, r)' <=> Makes(n, r)
      /\ \A n \in 1..Len(strand) : ~Makes(n, q)
      /\ \A n \in 1..Len(strand'), r \in Rooms : Makes(n, r)' =>
           n \in 1..Len(strand) \/ (n = Len(strand) + 1 /\ r = q)
  BY Zenon, <1>1, <1>3, <1>4 DEF Makes
<1>6. ASSUME NEW m \in 1..Len(strand'), NEW n \in 1..Len(strand'), NEW r \in Rooms,
             Makes(m, r)', Makes(n, r)'
      PROVE  m = n
  BY Zenon, <1>5, <1>6 DEF QueueMade
<1>7. ASSUME NEW n \in 1..Len(strand'), NEW r \in Rooms, Makes(n, r)'
      PROVE  contents'[r] = "built"
  BY Zenon, <1>1, <1>5, <1>7 DEF QueueMade
<1>8. ASSUME NEW r \in Rooms, r # q, NEW k \in 0..Len(strand), NEW l \in Nat, k <= l, Made(r, k)
      PROVE  contents'[r] = "created" \/ \E m \in 1..l : Makes(m, r)'
  <2>1. \A m \in 1..k : m \in 1..l /\ m \in 1..Len(strand)
    BY <1>2, <1>8
  <2>. QED
    BY Zenon, <1>1, <1>5, <1>8, <2>1 DEF Made
<1>9. ASSUME NEW r \in Rooms, life'[r] = "open"
      PROVE  contents'[r] = "created" \/ \E m \in 1..Len(strand') : Makes(m, r)'
  <2>1. CASE r = q
    <3>1. \E m \in 1..Len(strand') : strand'[m] = Task("created", q)
      BY <1>2, <1>4
    <3>. QED
      BY Zenon, <1>3, <2>1, <3>1 DEF Makes
  <2>2. CASE r # q
    <3>1. Made(r, Len(strand)) /\ Len(strand) \in 0..Len(strand) /\ Len(strand) <= Len(strand')
      BY <1>1, <1>2, <1>4, <1>9, <2>2 DEF QueueMade
    <3>. QED
      BY Zenon, <1>2, <1>8, <2>2, <3>1
  <2>. QED
    BY Zenon, <2>1, <2>2
<1>10. ASSUME NEW n \in 1..Len(strand'), NEW r \in Rooms, r = strand'[n].room,
              life'[r] = "open", strand'[n].op # "created"
       PROVE  contents'[r] = "created" \/ \E m \in 1..(n - 1) : Makes(m, r)'
  <2>1. n \in 1..Len(strand) /\ strand'[n] = strand[n] /\ r # q
    BY Zenon, <1>1, <1>3, <1>4, <1>10
  <2>2. Made(r, n - 1) /\ n - 1 \in 0..Len(strand) /\ n - 1 \in Nat /\ n - 1 <= n - 1
    BY <1>1, <1>2, <1>10, <2>1 DEF QueueMade
  <2>. QED
    BY Zenon, <1>8, <2>1, <2>2
<1>11. \A n \in 1..Len(strand') : life'[strand'[n].room] = "open" /\ strand'[n].op # "created" =>
         \/ contents'[strand'[n].room] = "created"
         \/ \E m \in 1..(n - 1) : strand'[m].op = "created" /\ strand'[m].room = strand'[n].room
  BY Zenon, <1>2, <1>10 DEF Makes
<1>. QED
  BY Zenon, <1>6, <1>7, <1>9, <1>11 DEF QueueMade, Made, Makes

(* Every step keeps on_create_room ahead of a room's other tasks. *)
LEMMA QueueMadeStep ==
  ASSUME TypeOK, TypeOK', Born, Stages, LookupsAreSound, QueueMade, CurMade, [Next]_vars
  PROVE  QueueMade'
<1>0. strand \in Seq(TaskType) /\ RoomsOk
  BY Zenon DEF TypeOK
<1>1. ASSUME strand' = strand, contents' = contents, life' = life PROVE QueueMade'
  BY Zenon, <1>1, MadeSame
<1>2. ASSUME NEW t \in TaskType, Post(t), t.op # "created", contents' = contents, life' = life
      PROVE  QueueMade'
  <2>1. /\ Len(strand) \in Nat /\ Len(strand') = Len(strand) + 1
        /\ \A n \in 1..Len(strand) : strand'[n] = strand[n]
        /\ strand'[Len(strand) + 1] = t
        /\ \A n \in 1..Len(strand') : n \in 1..Len(strand) \/ n = Len(strand) + 1
    BY Zenon, <1>0, <1>2, PostFacts
  <2>2. /\ Len(strand) <= Len(strand')
        /\ \A n \in 1..Len(strand) : n \in 1..Len(strand') /\ strand'[n] = strand[n]
        /\ \A n \in 1..Len(strand') : n \in 1..Len(strand) \/ (n > Len(strand) /\ strand'[n].op # "created")
    BY <1>2, <2>1
  <2>. QED
    BY Zenon, <1>2, <2>2, MadeExtend
<1>3. CASE QuietStep
  BY Zenon, <1>1, <1>3 DEF QuietStep, roomState
<1>4. CASE FindForward
  BY Zenon, <1>1, <1>4 DEF FindForward, roomVars
<1>5. ASSUME NEW t \in TaskType, RouterPosts(t) PROVE QueueMade'
  BY Zenon, <1>2, <1>5 DEF RouterPosts, roomState
<1>6. CASE RunCreated
  <2>1. /\ Take({"created"}) /\ strand' = Tail(strand) /\ life' = life
        /\ contents' = [contents EXCEPT ![Head(strand).room] = "created"]
    BY Zenon, <1>6 DEF RunCreated
  <2>2. Head(strand) = strand[1] /\ strand[1].op = "created"
    BY <1>0, <2>1, TakeFacts
  <2>. QED
    BY Zenon, <2>1, <2>2, MadeTake
<1>7. CASE RunSend
  <2>1. Take({"send"}) /\ strand' = Tail(strand) /\ life' = life /\ contents' = contents
    BY Zenon, <1>7 DEF RunSend, roomVars
  <2>2. strand[1].op = "send"
    BY <1>0, <2>1, TakeFacts
  <2>. QED
    BY Zenon, <2>1, <2>2, MadeTake
<1>8. CASE BeginRequest \/ TakeClose \/ RunKick
  <2>1. /\ \E ops : Take(ops) /\ strand' = Tail(strand)
        /\ life' = life /\ contents' = contents /\ strand[1].op # "created"
    BY Zenon, <1>8, TakenFacts DEF roomState
  <2>. QED
    BY Zenon, <2>1, MadeTake
<1>9. CASE JoinBody \/ LeaveBody
  BY Zenon, <1>1, <1>9, BodyFacts
<1>10. CASE JoinReply \/ LeaveReply
  BY <1>1, <1>10, ReplyFacts
<1>11. CASE NotifyEnter \/ NotifyExit
  <2>1. /\ life' = life /\ contents' = contents
        /\ cur.task.room \in Rooms /\ Post(Task("send", cur.task.room))
    BY Zenon, <1>11, NotifyFacts DEF roomState
  <2>2. Task("send", cur.task.room) \in TaskType /\ Task("send", cur.task.room).op # "created"
    BY Zenon, <2>1, RoomTaskType
  <2>. QED
    BY Zenon, <1>2, <2>1, <2>2
<1>12. CASE CloseRoom
  BY Zenon, <1>1, <1>12, CloseRoomFacts
<1>13. CASE CloseImpl
  <2>1. strand' = strand /\ contents' = contents
    BY Zenon, <1>13, CloseImplFacts
  <2>2. \A r \in Rooms : life'[r] = "open" => life[r] = "open"
    BY Zenon, <1>13, CloseImplFacts
  <2>. QED
    BY Zenon, <2>1, <2>2, MadeSame
<1>14. CASE EraseKicked
  BY <1>1, <1>14, EraseFacts
<1>15. CASE Shutdown
  <2>1. life' = life /\ contents' = contents
    BY Zenon, <1>15 DEF Shutdown, roomVars
  <2>2. /\ Len(strand) <= Len(strand')
        /\ \A n \in 1..Len(strand) : n \in 1..Len(strand') /\ strand'[n] = strand[n]
        /\ \A n \in 1..Len(strand') : n \in 1..Len(strand) \/ (n > Len(strand) /\ strand'[n].op # "created")
    BY Zenon, <1>0, <1>15, ShutdownFacts
  <2>. QED
    BY Zenon, <2>1, <2>2, MadeExtend
<1>. QED
  BY Zenon, StepKinds, MadeCreate, MadeRelease, <1>3, <1>4, <1>5, <1>6, <1>7, <1>8, <1>9, <1>10, <1>11, <1>12,
     <1>13, <1>14, <1>15 DEF Kinds

(* Every step keeps the contents that the running task calls created. *)
LEMMA CurMadeStep ==
  ASSUME TypeOK, TypeOK', Born, Stages, Stages', LookupsAreSound, QueueMade, CurMade, [Next]_vars
  PROVE  CurMade'
<1>0. /\ cur # Idle => cur.task.room \in Rooms
      /\ Idle.step \notin {"kicked", "destroy"}
  BY Zenon, CurFacts DEF TypeOK, Idle
<1>1. ASSUME cur' = Idle PROVE CurMade'
  BY Zenon, <1>0, <1>1 DEF CurMade
<1>2. ASSUME cur' = cur, life' = life, contents' = contents PROVE CurMade'
  BY Zenon, <1>2 DEF CurMade
<1>3. ASSUME cur # Idle, cur'.task = cur.task, cur'.step \notin {"kicked", "destroy"},
             life' = life, contents' = contents
      PROVE  CurMade'
  BY Zenon, <1>3 DEF CurMade
<1>4. CASE QuietStep \/ \E t \in TaskType : RouterPosts(t)
  BY Zenon, <1>2, <1>4 DEF QuietStep, RouterPosts, roomState
<1>5. CASE FindForward \/ Shutdown
  BY Zenon, <1>2, <1>5 DEF FindForward, Shutdown, roomVars
<1>6. ASSUME NEW q \in Rooms, NEW i \in RoomIds, CreateRoom(q, i) PROVE CurMade'
  <2>0. /\ cur' = cur /\ (cur # Idle => cur.task.room # q)
        /\ \A r \in Rooms : r # q => life'[r] = life[r] /\ contents'[r] = contents[r]
    BY <1>6, CreateFacts
  <2>1. cur' = cur /\ (cur # Idle => life'[cur.task.room] = life[cur.task.room]
                                     /\ contents'[cur.task.room] = contents[cur.task.room])
    BY Zenon, <1>0, <2>0
  <2>2. CASE cur = Idle
    BY Zenon, <1>1, <2>1, <2>2
  <2>3. CASE cur # Idle
    BY Zenon, <2>1, <2>3 DEF CurMade
  <2>. QED
    BY Zenon, <2>2, <2>3
<1>7. CASE RunCreated \/ RunSend
  BY Zenon, <1>1, <1>7 DEF RunCreated, RunSend, Take
<1>8. CASE BeginRequest \/ TakeClose \/ RunKick
  <2>1. /\ life' = life /\ contents' = contents /\ 1 \in 1..Len(strand) /\ strand[1].op # "created"
        /\ cur' = Idle \/ (cur'.task = strand[1] /\ cur'.step # "destroy")
    BY Zenon, <1>8, TakenFacts DEF roomState
  <2>2. life[strand[1].room] = "open" => Made(strand[1].room, 1 - 1)
    BY Zenon, <2>1 DEF QueueMade
  <2>3. 1..(1 - 1) = {}
    OBVIOUS
  <2>4. life[strand[1].room] = "open" => contents[strand[1].room] = "created"
    BY Zenon, <2>2, <2>3 DEF Made
  <2>5. cur'.step = "kicked" => life'[cur'.task.room] = "open"
    BY Zenon DEF Stages
  <2>. QED
    BY Zenon, <1>1, <2>1, <2>4, <2>5 DEF CurMade
<1>9. CASE JoinBody \/ LeaveBody
  BY Zenon, <1>3, <1>9, BodyFacts
<1>10. CASE JoinReply \/ LeaveReply
  BY Zenon, <1>1, <1>3, <1>10, ReplyFacts
<1>11. CASE NotifyEnter \/ NotifyExit
  BY Zenon, <1>1, <1>3, <1>11, NotifyFacts DEF roomState
<1>12. CASE CloseRoom
  BY Zenon, <1>1, <1>3, <1>12, CloseRoomFacts
<1>13. CASE CloseImpl
  <2>1. /\ cur # Idle /\ contents' = contents
        /\ cur' = Idle \/ (cur'.task = cur.task /\ life[cur.task.room] = "open")
    BY Zenon, <1>13, CloseImplFacts
  <2>. QED
    BY Zenon, <1>1, <2>1 DEF CurMade
<1>14. CASE ReleaseContents \/ EraseKicked
  BY <1>1, <1>14, ReleaseFacts, EraseFacts
<1>. QED
  BY StepKinds, <1>4, <1>5, <1>6, <1>7, <1>8, <1>9, <1>10, <1>11, <1>12, <1>13, <1>14 DEF Kinds

(* Every step keeps contents created before they are called. *)
LEMMA CreatedFirstStep ==
  ASSUME TypeOK, TypeOK', Born, Stages, Stages', LookupsAreSound, CreatedFirst, [Next]_vars
  PROVE  CreatedFirst'
<1>1. QueueMade /\ CurMade
  BY Zenon DEF CreatedFirst, QueueMade, CurMade
<1>2. QueueMade' /\ CurMade'
  BY Zenon, <1>1, QueueMadeStep, CurMadeStep
<1>. QED
  BY Zenon, <1>2 DEF CreatedFirst, QueueMade, CurMade

-----------------------------------------------------------------------------
(* The invariant *)

(* The server's invariant holds at the start. *)
LEMMA ServerInit == Init => ServerInv
<1>. SUFFICES ASSUME Init PROVE ServerInv
  BY Zenon
<1>1. TypeOK
  BY Zenon, TypeInit
<1>2. /\ strand = <<>> /\ Len(strand) = 0 /\ 1..Len(strand) = {} /\ cur = Idle /\ router = NoMessage
      /\ mutated = {} /\ main = "running"
      /\ Idle.step = "idle" /\ Idle.task.op = "none" /\ Idle.notify = FALSE
      /\ NoMessage.op = "none" /\ NoMessage.room = None
  BY DEF Init, Idle, NoTask, NoMessage
<1>3. \A r \in Rooms : life[r] = "unborn"
  BY Zenon DEF Init
<1>4. DOMAIN rooms = {} /\ DOMAIN userRooms = {}
  BY Zenon, MapFacts DEF Init
<1>5. Carried /\ MutatedStarted
  BY Zenon, <1>2 DEF Carried, RouterCarries, StrandCarries, CarriedApart, CurCarries, HasRequest, MutatedStarted
<1>6. AnsweredOnce
  <2>1. finished = {}
    BY Zenon DEF Init, Registry!Init
  <2>2. \A k \in Requests : reply[k] = <<>>
    BY Zenon DEF Init
  <2>. QED
    BY <2>1, <2>2 DEF AnsweredOnce
<1>7. Born /\ Stages
  BY Zenon, <1>2 DEF Born, Stages
<1>8. LookupsAreSound
  BY Zenon, <1>4 DEF LookupsAreSound, Range
<1>9. KicksFirst
  BY Zenon, <1>2, <1>3 DEF KicksFirst
<1>10. CreatedFirst
  BY Zenon, <1>2, <1>3 DEF CreatedFirst
<1>. QED
  BY <1>1, <1>5, <1>6, <1>7, <1>8, <1>9, <1>10 DEF ServerInv

(* Every step keeps the server's invariant. *)
LEMMA ServerStep == ServerInv /\ [Next]_vars => ServerInv'
<1>. SUFFICES ASSUME ServerInv, [Next]_vars PROVE ServerInv'
  BY Zenon
<1>1. /\ TypeOK /\ Carried /\ AnsweredOnce /\ MutatedStarted /\ Born /\ Stages /\ LookupsAreSound
      /\ KicksFirst /\ CreatedFirst
  BY Zenon DEF ServerInv
<1>2. TypeOK'
  BY Zenon, <1>1, TypeStep
<1>3. Carried'
  BY Zenon, <1>1, <1>2, CarriedStep
<1>4. AnsweredOnce' /\ MutatedStarted'
  BY Zenon, <1>1, <1>2, AnsweredStep
<1>5. Born'
  BY Zenon, <1>1, <1>2, BornStep
<1>6. Stages'
  BY Zenon, <1>1, <1>2, StagesStep
<1>7. LookupsAreSound'
  BY Zenon, <1>1, <1>2, LookupsStep
<1>8. KicksFirst'
  BY Zenon, <1>1, <1>2, KicksFirstStep
<1>9. CreatedFirst'
  BY Zenon, <1>1, <1>2, <1>6, CreatedFirstStep
<1>. QED
  BY <1>2, <1>3, <1>4, <1>5, <1>6, <1>7, <1>8, <1>9 DEF ServerInv

(* ServerInv: what the threads carry, what the rooms have been through and *)
(* what waits on the strand, in every reachable state of the Room server.  *)
THEOREM ServerAlways == Spec => []ServerInv
BY ServerInit, ServerStep, PTL DEF Spec

(* A request that was started is answered once, when complete() finishes   *)
(* it, and no other request is answered, for any number of requests.       *)
THEOREM AnswersOnce == Spec => []AnsweredOnce
<1>1. ServerInv => AnsweredOnce
  BY Zenon DEF ServerInv
<1>. QED
  BY <1>1, ServerAlways, PTL

(* A cancelled request has changed no room and gets no response: begin()   *)
(* on the strand stands between the cancellation and the mutation.         *)
THEOREM CancelsHaveNoEffect == Spec => []CancelledHasNoEffect
<1>1. ServerInv => CancelledHasNoEffect
  <2>. SUFFICES ASSUME ServerInv, NEW k \in Requests, ticket[k] = "cancelled"
                PROVE  k \notin mutated /\ reply[k] = <<>>
    BY Zenon DEF CancelledHasNoEffect
  <2>1. k \notin mutated
    BY Zenon DEF ServerInv, MutatedStarted
  <2>2. reply[k] \in Seq(BOOLEAN) /\ Len(reply[k]) = 0
    BY Zenon DEF ServerInv, TypeOK, AnsweredOnce
  <2>. QED
    BY Zenon, <2>1, <2>2, EmptyFacts
<1>. QED
  BY <1>1, ServerAlways, PTL

(* find_room finds open rooms under their own id only, and the index of    *)
(* the users names no id that rooms_ lacks, whatever ids rng() draws.      *)
THEOREM FindsOpenRooms == Spec => []LookupsAreSound
<1>1. ServerInv => LookupsAreSound
  BY Zenon DEF ServerInv
<1>. QED
  BY <1>1, ServerAlways, PTL

(* The strand calls contents_ only between on_create_room and the end of   *)
(* on_destroy_room.                                                        *)
THEOREM CallsLiveContents == Spec => []StrandCallsLiveContents
<1>1. ServerInv => StrandCallsLiveContents
  <2>. SUFFICES ASSUME ServerInv PROVE StrandCallsLiveContents
    BY Zenon
  <2>1. CreatedFirst /\ Stages /\ TypeOK
    BY Zenon DEF ServerInv
  <2>2. cur.step \in {"notify", "kicked", "destroy"} => contents[cur.task.room] = "created"
    <3>1. cur.step = "notify" => cur # Idle /\ life[cur.task.room] = "open"
      BY <2>1 DEF Stages, Idle
    <3>. QED
      BY Zenon, <2>1, <3>1 DEF CreatedFirst
  <2>3. ASSUME NEW n \in 1..Len(strand), strand[n].op = "created"
        PROVE  contents[strand[n].room] = "built"
    <3>1. strand[n].room \in Rooms
      BY Zenon, <2>1, TaskRooms
    <3>. QED
      BY Zenon, <2>1, <2>3, <3>1 DEF CreatedFirst, Makes
  <2>. QED
    BY Zenon, <2>2, <2>3 DEF StrandCallsLiveContents
<1>. QED
  BY <1>1, ServerAlways, PTL

(* The registry inside the server goes through the steps of QueuedRequests *)
(* and no others: the router thread and the strand use it as it is meant.  *)
THEOREM RegistryRefined == Spec => RefinesRegistry
<1>1. Init => Registry!Init
  BY Zenon DEF Init
<1>2. ServerInv /\ [Next]_vars => [Registry!Next]_(Registry!vars)
  BY Zenon, RegistryStep DEF ServerInv
<1>. QED
  BY <1>1, <1>2, ServerAlways, PTL DEF Spec, RefinesRegistry, Registry!Spec

-----------------------------------------------------------------------------
(* Distinct ids: every open room is still referred to *)

CloseAwaits(r) == \E n \in 1..Len(strand) : strand[n].op = "close" /\ strand[n].room = r

(* close() of a room stays on the strand until it is the oldest task.      *)
LEMMA CloseStays ==
  ASSUME TypeOK, NEW r, CloseAwaits(r),
         \/ strand' = strand
         \/ \E t \in TaskType : Post(t)
         \/ Shutdown
         \/ /\ \E ops : Take(ops) /\ strand' = Tail(strand)
            /\ strand[1].op # "close" \/ strand[1].room # r
  PROVE  CloseAwaits(r)'
<1>0. strand \in Seq(TaskType) /\ RoomsOk
  BY Zenon DEF TypeOK
<1>1. PICK n \in 1..Len(strand) : strand[n].op = "close" /\ strand[n].room = r
  BY Zenon DEF CloseAwaits
<1>2. CASE strand' = strand
  BY Zenon, <1>2 DEF CloseAwaits
<1>3. ASSUME NEW t \in TaskType, Post(t) PROVE CloseAwaits(r)'
  <2>1. /\ Len(strand) \in Nat /\ Len(strand') = Len(strand) + 1
        /\ \A m \in 1..Len(strand) : strand'[m] = strand[m]
    BY Zenon, <1>0, <1>3, PostFacts
  <2>2. n \in 1..Len(strand') /\ strand'[n] = strand[n]
    BY <2>1
  <2>. QED
    BY Zenon, <1>1, <2>2 DEF CloseAwaits
<1>4. CASE Shutdown
  <2>1. n \in 1..Len(strand') /\ strand'[n] = strand[n]
    BY Zenon, <1>0, <1>4, ShutdownFacts
  <2>. QED
    BY Zenon, <1>1, <2>1 DEF CloseAwaits
<1>5. ASSUME NEW ops, Take(ops), strand' = Tail(strand), strand[1].op # "close" \/ strand[1].room # r
      PROVE  CloseAwaits(r)'
  <2>1. /\ Len(strand) \in Nat /\ Len(strand') = Len(strand) - 1
        /\ \A m \in 1..Len(strand') : strand'[m] = strand[m + 1]
    BY <1>0, <1>5, TakeFacts
  <2>2. n # 1
    BY Zenon, <1>1, <1>5
  <2>3. n - 1 \in 1..Len(strand') /\ (n - 1) + 1 = n
    BY <2>1, <2>2
  <2>4. strand'[n - 1] = strand[n]
    BY Zenon, <2>1, <2>3
  <2>. QED
    BY Zenon, <1>1, <2>3, <2>4 DEF CloseAwaits
<1>. QED
  BY Zenon, <1>2, <1>3, <1>4, <1>5

(* With distinct ids, every step keeps open rooms known. *)
LEMMA OpenIsKnownStep ==
  ASSUME DistinctIds, TypeOK, TypeOK', Born, Stages, LookupsAreSound, OpenIsKnown, [Next]_vars
  PROVE  OpenIsKnown'
<1>. DEFINE Known(r) == Registered(r) \/ (cur.step = "close" /\ cur.task.room = r) \/ CloseAwaits(r)
<1>. SUFFICES ASSUME NEW r \in Rooms, life'[r] = "open" PROVE Known(r)'
  BY Zenon DEF OpenIsKnown, CloseAwaits
<1>0. life[r] = "open" => Known(r)
  BY Zenon DEF OpenIsKnown, CloseAwaits
<1>1. ASSUME UNCHANGED <<rooms, roomId, life>>,
             cur' = cur \/ cur.step # "close",
             strand' = strand \/ \E t \in TaskType : Post(t)
      PROVE  Known(r)'
  <2>1. CloseAwaits(r) => CloseAwaits(r)'
    BY Zenon, <1>1, CloseStays
  <2>. QED
    BY Zenon, <1>0, <1>1, <2>1 DEF Registered
<1>2. CASE QuietStep
  BY Zenon, <1>1, <1>2 DEF QuietStep, roomState
<1>3. CASE FindForward
  BY Zenon, <1>1, <1>3 DEF FindForward, managerVars, roomVars
<1>4. ASSUME NEW q \in Rooms, NEW i \in RoomIds, CreateRoom(q, i) PROVE Known(r)'
  <2>1. /\ cur' = cur /\ Post(Task("created", q)) /\ roomId'[q] = i
        /\ r # q => roomId'[r] = roomId[r] /\ life'[r] = life[r]
        /\ rooms' = With(rooms, i, q)
    BY <1>4, CreateFacts
  <2>2. i \notin DOMAIN rooms
    BY Zenon, <1>4 DEF CreateRoom
  <2>3. CASE r = q
    BY Zenon, <2>1, <2>3 DEF Registered, With
  <2>4. CASE r # q
    <3>1. Registered(r) => Registered(r)'
      BY Zenon, <2>1, <2>2, <2>4 DEF Registered, With
    <3>2. CloseAwaits(r) => CloseAwaits(r)'
      BY Zenon, <2>1, CloseStays, RoomTaskType
    <3>. QED
      BY Zenon, <1>0, <2>1, <2>4, <3>1, <3>2
  <2>. QED
    BY Zenon, <2>3, <2>4
<1>5. ASSUME NEW t \in TaskType, RouterPosts(t) PROVE Known(r)'
  BY Zenon, <1>1, <1>5 DEF RouterPosts, roomState
<1>6. CASE RunCreated \/ RunSend
  <2>1. /\ UNCHANGED <<rooms, roomId, life, cur>> /\ \E ops : Take(ops) /\ strand' = Tail(strand)
    BY Zenon, <1>6 DEF RunCreated, RunSend, managerVars, roomVars
  <2>2. strand[1].op # "close"
    BY <1>6, TakeFacts DEF RunCreated, RunSend, TypeOK
  <2>3. CloseAwaits(r) => CloseAwaits(r)'
    BY Zenon, <2>1, <2>2, CloseStays
  <2>. QED
    BY Zenon, <1>0, <2>1, <2>3 DEF Registered
<1>7. CASE BeginRequest \/ TakeClose \/ RunKick
  <2>1. /\ UNCHANGED <<rooms, roomId, life>> /\ \E ops : Take(ops) /\ strand' = Tail(strand)
        /\ strand[1].op = "close" => cur'.task = strand[1] /\ cur'.step = "close"
        /\ cur = Idle
    BY Zenon, <1>7, TakenFacts DEF roomState
  <2>2. CloseAwaits(r) => CloseAwaits(r)' \/ (cur'.step = "close" /\ cur'.task.room = r)
    BY Zenon, <2>1, CloseStays
  <2>3. cur.step # "close"
    BY Zenon, <2>1 DEF Idle
  <2>. QED
    BY Zenon, <1>0, <2>1, <2>2, <2>3 DEF Registered
<1>8. CASE JoinBody \/ LeaveBody
  BY Zenon, <1>1, <1>8, BodyFacts
<1>9. CASE JoinReply \/ LeaveReply
  BY Zenon, <1>1, <1>9, ReplyFacts
<1>10. CASE NotifyEnter \/ NotifyExit
  <2>1. /\ UNCHANGED <<rooms, roomId, life>> /\ cur.step = "notify"
        /\ cur.task.room \in Rooms /\ Post(Task("send", cur.task.room))
    BY Zenon, <1>10, NotifyFacts DEF roomState
  <2>. QED
    BY Zenon, <1>1, <2>1, RoomTaskType
<1>11. CASE CloseRoom
  <2>1. /\ UNCHANGED <<roomId, life, strand>> /\ cur.step = "empty"
        /\ \/ cur' = Idle /\ rooms' = rooms
           \/ /\ cur'.task = cur.task /\ cur'.step = "close" /\ Registered(cur.task.room)
              /\ rooms' = Without(rooms, {roomId[cur.task.room]})
    BY Zenon, <1>11, CloseRoomFacts
  <2>2. Registered(r) => Registered(r)' \/ (cur'.step = "close" /\ cur'.task.room = r)
    BY Zenon, <2>1 DEF Registered, Without
  <2>3. CloseAwaits(r) => CloseAwaits(r)'
    BY Zenon, <2>1, CloseStays
  <2>. QED
    BY <1>0, <2>1, <2>2, <2>3
<1>12. CASE CloseImpl
  <2>1. /\ UNCHANGED <<rooms, roomId, strand>>
        /\ life[r] = "open" /\ r # cur.task.room
    BY Zenon, <1>12, CloseImplFacts
  <2>2. CloseAwaits(r) => CloseAwaits(r)'
    BY Zenon, <2>1, CloseStays
  <2>. QED
    BY Zenon, <1>0, <2>1, <2>2 DEF Registered
<1>13. CASE ReleaseContents
  <2>1. /\ UNCHANGED <<rooms, roomId, strand>> /\ cur.step = "destroy" /\ life[r] = "open"
    BY Zenon, <1>13, ReleaseFacts
  <2>2. CloseAwaits(r) => CloseAwaits(r)'
    BY Zenon, <2>1, CloseStays
  <2>. QED
    BY Zenon, <1>0, <2>1, <2>2 DEF Registered
<1>14. CASE EraseKicked
  BY Zenon, <1>1, <1>14, EraseFacts
<1>15. CASE Shutdown
  <2>1. UNCHANGED <<roomId, life, cur>>
    BY Zenon, <1>15 DEF Shutdown, roomVars
  <2>2. CloseAwaits(r) => CloseAwaits(r)'
    BY Zenon, <1>15, CloseStays
  <2>3. Registered(r) => CloseAwaits(r)'
    <3>1. Registered(r) => r \in Range(rooms)
      BY Zenon DEF Registered, Range
    <3>. QED
      BY Zenon, <1>15, <3>1, ShutdownFacts DEF CloseAwaits, TypeOK
  <2>. QED
    BY Zenon, <1>0, <2>1, <2>2, <2>3
<1>. QED
  BY StepKinds, <1>2, <1>3, <1>4, <1>5, <1>6, <1>7, <1>8, <1>9, <1>10, <1>11, <1>12, <1>13, <1>14,
     <1>15 DEF Kinds

(* Every step keeps shutdown() waiting for every room still open. *)
LEMMA OpenIsAwaitedStep ==
  ASSUME TypeOK, Born, Stages, LookupsAreSound, KicksFirst, OpenIsKnown, OpenIsAwaited, [Next]_vars
  PROVE  OpenIsAwaited'
<1>1. ASSUME main' = main, closing' = closing,
             main \in {"closing", "stopped"} => DOMAIN rooms' = {},
             \A r \in Rooms : life'[r] = "open" =>
               /\ life[r] = "open"
               /\ cur.step = "close" /\ cur.task.room = r => cur'.step = "close" /\ cur'.task.room = r
      PROVE  OpenIsAwaited'
  BY Zenon, <1>1 DEF OpenIsAwaited
<1>2. ASSUME main' \notin {"closing", "stopped"} PROVE OpenIsAwaited'
  BY Zenon, <1>2 DEF OpenIsAwaited
<1>3. ASSUME UNCHANGED <<main, closing, rooms, life>>, cur' = cur \/ cur.step # "close"
      PROVE  OpenIsAwaited'
  <2>1. main \in {"closing", "stopped"} => DOMAIN rooms' = {}
    BY Zenon, <1>3 DEF OpenIsAwaited
  <2>. QED
    BY Zenon, <1>1, <1>3, <2>1
<1>4. CASE QuietStep
  <2>1. UNCHANGED <<closing, rooms, life, cur>>
    BY Zenon, <1>4 DEF QuietStep, roomState
  <2>2. CASE main' = main
    BY Zenon, <1>3, <2>1, <2>2
  <2>3. CASE main' \in {"crashed", "joined"}
    BY <1>2, <2>3
  <2>4. CASE StopWorkers
    <3>1. main = "closing" /\ cur = Idle /\ (\A r \in closing : life[r] = "closed") /\ main' = "stopped"
      BY Zenon, <2>4 DEF StopWorkers
    <3>2. cur.step # "close"
      BY Zenon, <3>1 DEF Idle
    <3>3. /\ DOMAIN rooms = {}
          /\ \A r \in Rooms : life[r] = "open" => r \in closing
      BY Zenon, <3>1, <3>2 DEF OpenIsAwaited
    <3>4. \A r \in Rooms : life[r] # "open"
      BY <3>1, <3>3
    <3>. QED
      BY Zenon, <2>1, <3>3, <3>4 DEF OpenIsAwaited
  <2>. QED
    BY Zenon, <1>4, <2>2, <2>3, <2>4 DEF QuietStep
<1>5. CASE FindForward \/ RunCreated \/ RunSend \/ \E t \in TaskType : RouterPosts(t)
  BY Zenon, <1>3, <1>5 DEF FindForward, RunCreated, RunSend, RouterPosts, managerVars, roomVars, mainVars,
                           roomState
<1>6. ASSUME NEW q \in Rooms, NEW i \in RoomIds, CreateRoom(q, i) PROVE OpenIsAwaited'
  <2>1. main' = main /\ main \in {"running", "crashed"}
    BY <1>6 DEF CreateRoom, At, mainVars, TypeOK, RouterOk
  <2>. QED
    BY <1>2, <2>1
<1>7. CASE BeginRequest \/ TakeClose \/ RunKick
  <2>1. UNCHANGED <<main, closing, rooms, life>> /\ cur = Idle
    BY Zenon, <1>7, TakenFacts DEF roomState
  <2>2. cur.step # "close"
    BY Zenon, <2>1 DEF Idle
  <2>. QED
    BY Zenon, <1>3, <2>1, <2>2
<1>8. CASE JoinBody \/ LeaveBody
  BY <1>3, <1>8, BodyFacts
<1>9. CASE JoinReply \/ LeaveReply
  BY <1>3, <1>9, ReplyFacts
<1>10. CASE NotifyEnter \/ NotifyExit
  BY <1>3, <1>10, NotifyFacts DEF roomState
<1>11. CASE EraseKicked
  BY <1>3, <1>11, EraseFacts
<1>12. CASE CloseRoom
  <2>1. /\ UNCHANGED <<main, closing, life>> /\ cur.step = "empty"
        /\ rooms' = rooms \/ Registered(cur.task.room)
    BY Zenon, <1>12, CloseRoomFacts
  <2>2. main \in {"closing", "stopped"} => DOMAIN rooms = {}
    BY Zenon DEF OpenIsAwaited
  <2>3. main \in {"closing", "stopped"} => rooms' = rooms
    BY Zenon, <2>1, <2>2 DEF Registered
  <2>. QED
    BY <1>1, <2>1, <2>2, <2>3
<1>13. CASE CloseImpl
  <2>1. /\ UNCHANGED <<main, closing, rooms>>
        /\ \A r \in Rooms : life'[r] = "open" => life[r] = "open" /\ r # cur.task.room
    BY <1>13, CloseImplFacts
  <2>2. main \in {"closing", "stopped"} => DOMAIN rooms' = {}
    BY Zenon, <2>1 DEF OpenIsAwaited
  <2>. QED
    BY Zenon, <1>1, <2>1, <2>2
<1>14. CASE ReleaseContents
  <2>1. /\ UNCHANGED <<main, closing, rooms>> /\ cur.step = "destroy"
        /\ \A r \in Rooms : life'[r] = "open" => life[r] = "open"
    BY <1>14, ReleaseFacts
  <2>2. main \in {"closing", "stopped"} => DOMAIN rooms' = {}
    BY Zenon, <2>1 DEF OpenIsAwaited
  <2>. QED
    BY <1>1, <2>1, <2>2
<1>15. CASE Shutdown
  <2>1. /\ main = "joined" /\ main' = "closing" /\ closing' = Range(rooms) /\ DOMAIN rooms' = {}
        /\ UNCHANGED <<life, cur>>
    BY Zenon, <1>15, MapFacts DEF Shutdown, roomVars
  <2>2. \A n \in 1..Len(strand) : strand[n].op # "close"
    BY <2>1 DEF KicksFirst
  <2>3. ASSUME NEW r \in Rooms, life'[r] = "open"
        PROVE  r \in closing' \/ (cur'.step = "close" /\ cur'.task.room = r)
    <3>1. Registered(r) \/ (cur.step = "close" /\ cur.task.room = r)
      BY Zenon, <2>1, <2>2, <2>3 DEF OpenIsKnown
    <3>2. Registered(r) => r \in Range(rooms)
      BY Zenon DEF Registered, Range
    <3>. QED
      BY Zenon, <2>1, <3>1, <3>2
  <2>. QED
    BY <2>1, <2>3 DEF OpenIsAwaited
<1>. QED
  BY Zenon, StepKinds, <1>4, <1>5, <1>6, <1>7, <1>8, <1>9, <1>10, <1>11, <1>12, <1>13, <1>14, <1>15
     DEF Kinds

(* While rng() draws no id in use, no room object is dropped while it is   *)
(* still open: the manager, the strand or the running close() refers to it *)
(* and shutdown() waits for it before the workers stop.                    *)
THEOREM DestroysAreAnnounced ==
  ASSUME DistinctIds
  PROVE  Spec => []DestroyAnnounced
<1>1. Init => KnownInv
  <2>. SUFFICES ASSUME Init PROVE KnownInv
    OBVIOUS
  <2>1. \A r \in Rooms : life[r] # "open"
    BY DEF Init
  <2>2. main = "running"
    BY DEF Init
  <2>. QED
    BY <2>1, <2>2, ServerInit DEF KnownInv, OpenIsKnown, OpenIsAwaited
<1>2. KnownInv /\ [Next]_vars => KnownInv'
  <2>. SUFFICES ASSUME KnownInv, [Next]_vars PROVE KnownInv'
    OBVIOUS
  <2>1. ServerInv /\ ServerInv' /\ OpenIsKnown /\ OpenIsAwaited
    BY Zenon, ServerStep DEF KnownInv
  <2>2. TypeOK /\ TypeOK' /\ Born /\ Stages /\ LookupsAreSound /\ KicksFirst
    BY Zenon, <2>1 DEF ServerInv
  <2>3. OpenIsKnown' /\ OpenIsAwaited'
    BY Zenon, <2>1, <2>2, OpenIsKnownStep, OpenIsAwaitedStep
  <2>. QED
    BY Zenon, <2>1, <2>3 DEF KnownInv
<1>3. KnownInv => DestroyAnnounced
  <2>. SUFFICES ASSUME KnownInv, NEW r \in Rooms, life[r] = "open"
                PROVE  main # "stopped" /\ Referenced(r)
    BY Zenon DEF DestroyAnnounced
  <2>1. Referenced(r)
    BY Zenon DEF KnownInv, OpenIsKnown, Referenced
  <2>. QED
    BY Zenon, <2>1 DEF KnownInv, OpenIsAwaited
<1>. QED
  BY <1>1, <1>2, <1>3, PTL DEF Spec

-----------------------------------------------------------------------------
(* Distinct ids and no kicks: the index of users follows the rooms *)

(* A user whose join is about to be indexed is in the room. *)
JoinHolds ==
  cur.task.op = "join" /\ cur.step = "reply" /\ cur.done => cur.task.uid \in users[cur.task.room]

(* users_.erase(u) has been done, left_room has not. *)
Leaving(r, u) ==
  /\ cur.task.op = "leave" /\ cur.step = "reply" /\ cur.done
  /\ cur.task.room = r /\ cur.task.uid = u

(* A user whom the index places in a room is there, or about to be removed *)
(* from the index by left_room.                                            *)
IndexHolds ==
  \A u \in DOMAIN userRooms :
    u \in users[rooms[userRooms[u]]] \/ Leaving(rooms[userRooms[u]], u)

Members == NoKicks /\ cur.task.op # "kick" /\ JoinHolds /\ IndexHolds

MemberInv == ServerInv /\ Members

(* A join adds its user and removes none. *)
LEMMA JoinFacts ==
  ASSUME TypeOK, Stages, JoinBody
  PROVE  /\ cur.task.op = "join"
         /\ \A r \in Rooms : users[r] \subseteq users'[r]
         /\ cur'.done => cur.task.uid \in users'[cur.task.room]
<1>1. users \in [Rooms -> SUBSET Users] /\ CurOk /\ cur.step = "body" /\ cur.task.op = "join"
  BY DEF TypeOK, RoomsOk, JoinBody, Running
<1>2. cur # Idle /\ cur.task.room \in Rooms /\ ~cur.done
  BY <1>1, CurFacts DEF Stages
<1>3. \/ cur' = [cur EXCEPT !.step = "reply"] /\ users' = users
      \/ users' = [users EXCEPT ![cur.task.room] = @ \cup {cur.task.uid}]
  BY Zenon DEF JoinBody
<1>4. CASE cur' = [cur EXCEPT !.step = "reply"] /\ users' = users
  BY <1>1, <1>2, <1>4, AdvanceFacts
<1>5. CASE users' = [users EXCEPT ![cur.task.room] = @ \cup {cur.task.uid}]
  BY <1>1, <1>2, <1>5
<1>. QED
  BY Zenon, <1>1, <1>3, <1>4, <1>5

(* A leave removes its own user at most. *)
LEMMA LeaveFacts ==
  ASSUME TypeOK, Stages, LeaveBody
  PROVE  /\ cur.task.op = "leave"
         /\ \A r \in Rooms : \A u \in users[r] :
              u \in users'[r] \/ (cur'.done /\ r = cur.task.room /\ u = cur.task.uid)
<1>1. users \in [Rooms -> SUBSET Users] /\ CurOk /\ cur.step = "body" /\ cur.task.op = "leave"
  BY DEF TypeOK, RoomsOk, LeaveBody, Running
<1>2. cur # Idle /\ cur.task.room \in Rooms
  BY <1>1, CurFacts
<1>3. \/ users' = users
      \/ /\ users' = [users EXCEPT ![cur.task.room] = @ \ {cur.task.uid}]
         /\ cur' = [cur EXCEPT !.step = "reply", !.done = TRUE, !.notify = TRUE]
  BY Zenon DEF LeaveBody
<1>4. CASE users' = users
  BY Zenon, <1>1, <1>4
<1>5. CASE /\ users' = [users EXCEPT ![cur.task.room] = @ \ {cur.task.uid}]
           /\ cur' = [cur EXCEPT !.step = "reply", !.done = TRUE, !.notify = TRUE]
  <2>1. cur'.done
    BY <1>1, <1>2, <1>5, AdvanceFacts
  <2>2. \A r \in Rooms : \A u \in users[r] : u \in users'[r] \/ (r = cur.task.room /\ u = cur.task.uid)
    BY <1>1, <1>2, <1>5
  <2>. QED
    BY Zenon, <1>1, <2>1, <2>2
<1>. QED
  BY Zenon, <1>3, <1>4, <1>5

(* Without kicks, a user who joined is in the room until indexed. *)
LEMMA JoinHoldsStep ==
  ASSUME TypeOK, Born, Stages, LookupsAreSound, JoinHolds, [Next]_vars
  PROVE  JoinHolds'
<1>0. Idle.step # "reply"
  BY DEF Idle
<1>1. ASSUME cur' = cur, cur # Idle => users'[cur.task.room] = users[cur.task.room] PROVE JoinHolds'
  BY Zenon, <1>0, <1>1 DEF JoinHolds
<1>2. ASSUME cur' = Idle \/ cur'.step # "reply" \/ ~cur'.done PROVE JoinHolds'
  BY Zenon, <1>0, <1>2 DEF JoinHolds
<1>3. CASE QuietStep \/ \E t \in TaskType : RouterPosts(t)
  BY Zenon, <1>1, <1>3 DEF QuietStep, RouterPosts, roomState
<1>4. CASE FindForward \/ RunCreated \/ RunSend \/ Shutdown
  BY Zenon, <1>1, <1>4 DEF FindForward, RunCreated, RunSend, Shutdown, roomVars
<1>5. ASSUME NEW q \in Rooms, NEW i \in RoomIds, CreateRoom(q, i) PROVE JoinHolds'
  <2>1. cur # Idle => cur.task.room \in Rooms
    BY Zenon, CurFacts DEF TypeOK
  <2>2. cur' = cur /\ (cur # Idle => users'[cur.task.room] = users[cur.task.room])
    BY Zenon, <1>5, <2>1, CreateFacts
  <2>. QED
    BY Zenon, <1>1, <2>2
<1>6. CASE BeginRequest \/ TakeClose \/ RunKick
  BY Zenon, <1>2, <1>6, TakenFacts
<1>7. CASE JoinBody
  <2>1. cur'.task = cur.task
    BY Zenon, <1>7, BodyFacts
  <2>. QED
    BY Zenon, <1>7, <2>1, JoinFacts DEF JoinHolds
<1>8. CASE LeaveBody
  <2>1. cur'.task = cur.task /\ cur.task.op = "leave"
    BY Zenon, <1>8, BodyFacts, LeaveFacts
  <2>. QED
    BY <2>1 DEF JoinHolds
<1>9. CASE JoinReply \/ LeaveReply
  BY <1>2, <1>9, ReplyFacts
<1>10. CASE NotifyEnter \/ NotifyExit
  BY <1>2, <1>10, NotifyFacts
<1>11. CASE CloseRoom
  BY <1>2, <1>11, CloseRoomFacts
<1>12. CASE CloseImpl
  BY <1>2, <1>12, CloseImplFacts
<1>13. CASE ReleaseContents \/ EraseKicked
  BY Zenon, <1>2, <1>13 DEF ReleaseContents, EraseKicked
<1>. QED
  BY Zenon, StepKinds, <1>3, <1>4, <1>5, <1>6, <1>7, <1>8, <1>9, <1>10, <1>11, <1>12, <1>13 DEF Kinds

(* Without kicks and with distinct ids, every step keeps the index and     *)
(* the rooms together.                                                     *)
LEMMA IndexHoldsStep ==
  ASSUME DistinctIds, TypeOK, Born, Stages, LookupsAreSound, Members, [Next]_vars
  PROVE  IndexHolds'
<1>0. /\ \A i \in DOMAIN rooms : rooms[i] \in Rooms /\ roomId[rooms[i]] = i
      /\ \A u \in DOMAIN userRooms : userRooms[u] \in DOMAIN rooms
      /\ users \in [Rooms -> SUBSET Users] /\ IndexHolds /\ Idle.step = "idle"
  BY DEF TypeOK, RoomsOk, LookupsAreSound, Range, Members, Idle
<1>1. ASSUME ~(cur.task.op = "leave" /\ cur.step = "reply")
      PROVE  \A u \in DOMAIN userRooms : u \in users[rooms[userRooms[u]]]
  BY Zenon, <1>0, <1>1 DEF IndexHolds, Leaving
<1>2. ASSUME UNCHANGED <<rooms, userRooms, users>>, cur' = cur \/ cur.step # "reply"
      PROVE  IndexHolds'
  BY Zenon, <1>0, <1>2 DEF IndexHolds, Leaving
<1>3. CASE QuietStep \/ \E t \in TaskType : RouterPosts(t)
  BY Zenon, <1>2, <1>3 DEF QuietStep, RouterPosts, roomState
<1>4. CASE FindForward \/ RunCreated \/ RunSend
  BY Zenon, <1>2, <1>4 DEF FindForward, RunCreated, RunSend, managerVars, roomVars
<1>5. ASSUME NEW q \in Rooms, NEW i \in RoomIds, CreateRoom(q, i) PROVE IndexHolds'
  <2>1. /\ cur' = cur /\ rooms' = With(rooms, i, q) /\ userRooms' = With(userRooms, router.uid, i)
        /\ \A r \in Rooms : r # q => users'[r] = users[r]
        /\ \A j \in DOMAIN rooms : rooms[j] # q
    BY <1>5, CreateFacts
  <2>2. i \notin DOMAIN rooms /\ users'[q] = {router.uid}
    BY <1>0, <1>5 DEF CreateRoom
  <2>. SUFFICES ASSUME NEW u \in DOMAIN userRooms'
                PROVE  u \in users'[rooms'[userRooms'[u]]] \/ Leaving(rooms[userRooms[u]], u)'
    BY Zenon DEF IndexHolds
  <2>3. CASE u = router.uid
    <3>1. userRooms'[u] = i /\ rooms'[i] = q
      BY <2>1, <2>3 DEF With
    <3>. QED
      BY <2>2, <2>3, <3>1
  <2>4. CASE u # router.uid
    <3>1. u \in DOMAIN userRooms /\ userRooms'[u] = userRooms[u]
      BY <2>1, <2>4 DEF With
    <3>2. rooms'[userRooms[u]] = rooms[userRooms[u]]
      BY <1>0, <2>1, <2>2, <3>1 DEF With
    <3>3. users'[rooms[userRooms[u]]] = users[rooms[userRooms[u]]]
      BY Zenon, <1>0, <2>1, <3>1
    <3>4. u \in users[rooms[userRooms[u]]] \/ Leaving(rooms[userRooms[u]], u)
      BY Zenon, <1>0, <3>1 DEF IndexHolds
    <3>5. rooms'[userRooms'[u]] = rooms[userRooms[u]]
      BY Zenon, <3>1, <3>2
    <3>6. Leaving(rooms[userRooms[u]], u) => Leaving(rooms[userRooms[u]], u)'
      BY Zenon, <2>1, <3>5 DEF Leaving
    <3>. QED
      BY Zenon, <3>3, <3>4, <3>5, <3>6
  <2>. QED
    BY Zenon, <2>3, <2>4
<1>6. CASE BeginRequest \/ TakeClose \/ RunKick
  <2>1. UNCHANGED <<rooms, userRooms, users>> /\ cur = Idle
    BY Zenon, <1>6, TakenFacts DEF roomState
  <2>. QED
    BY <1>0, <1>2, <2>1
<1>7. CASE JoinBody
  <2>1. UNCHANGED <<rooms, userRooms>> /\ cur.step = "body"
    BY Zenon, <1>7, BodyFacts
  <2>2. \A r \in Rooms : users[r] \subseteq users'[r]
    BY Zenon, <1>7, JoinFacts
  <2>3. \A u \in DOMAIN userRooms : u \in users[rooms[userRooms[u]]]
    BY <1>1, <2>1
  <2>. QED
    BY Zenon, <1>0, <2>1, <2>2, <2>3 DEF IndexHolds
<1>8. CASE LeaveBody
  <2>1. UNCHANGED <<rooms, userRooms>> /\ cur.step = "body" /\ cur'.step = "reply" /\ cur'.task = cur.task
    BY Zenon, <1>8, BodyFacts
  <2>2. /\ cur.task.op = "leave"
        /\ \A r \in Rooms : \A u \in users[r] :
             u \in users'[r] \/ (cur'.done /\ r = cur.task.room /\ u = cur.task.uid)
    BY Zenon, <1>8, LeaveFacts
  <2>3. \A u \in DOMAIN userRooms : u \in users[rooms[userRooms[u]]] /\ rooms[userRooms[u]] \in Rooms
    BY <1>0, <1>1, <2>1
  <2>. QED
    BY Zenon, <2>1, <2>2, <2>3 DEF IndexHolds, Leaving
<1>9. CASE JoinReply
  <2>1. UNCHANGED <<rooms, users>> /\ cur.step = "reply"
    BY Zenon, <1>9, ReplyFacts
  <2>2. /\ cur.task.op = "join"
        /\ \/ userRooms' = userRooms
           \/ /\ cur.done /\ Registered(cur.task.room)
              /\ userRooms' = With(userRooms, cur.task.uid, roomId[cur.task.room])
    BY <1>9 DEF JoinReply, Running
  <2>3. \A u \in DOMAIN userRooms : u \in users[rooms[userRooms[u]]]
    BY <1>1, <2>2
  <2>4. CASE userRooms' = userRooms
    BY Zenon, <2>1, <2>3, <2>4 DEF IndexHolds
  <2>5. CASE /\ cur.done /\ Registered(cur.task.room)
             /\ userRooms' = With(userRooms, cur.task.uid, roomId[cur.task.room])
    <3>1. cur.task.uid \in users[rooms[roomId[cur.task.room]]]
      BY Zenon, <2>1, <2>2, <2>5 DEF Members, JoinHolds, Registered
    <3>2. \A u \in DOMAIN userRooms' :
             \/ u = cur.task.uid /\ userRooms'[u] = roomId[cur.task.room]
             \/ u \in DOMAIN userRooms /\ userRooms'[u] = userRooms[u]
      BY <2>5 DEF With
    <3>. QED
      BY Zenon, <2>1, <2>3, <3>1, <3>2 DEF IndexHolds
  <2>. QED
    BY Zenon, <2>2, <2>4, <2>5
<1>10. CASE LeaveReply
  <2>1. UNCHANGED <<rooms, users>> /\ cur.step = "reply"
    BY Zenon, <1>10, ReplyFacts
  <2>. DEFINE left == /\ cur.done
                      /\ cur.task.uid \in DOMAIN userRooms
                      /\ userRooms[cur.task.uid] = roomId[cur.task.room]
                      /\ Registered(cur.task.room)
  <2>2. /\ left => userRooms' = Without(userRooms, {cur.task.uid})
        /\ ~left => userRooms' = userRooms
    BY Zenon, <1>10 DEF LeaveReply
  <2>3. ASSUME NEW u \in DOMAIN userRooms, Leaving(rooms[userRooms[u]], u) PROVE left /\ u = cur.task.uid
    BY Zenon, <1>0, <2>3 DEF Leaving, Registered
  <2>. HIDE DEF left
  <2>4. CASE left
    <3>1. \A u \in DOMAIN userRooms' : /\ u \in DOMAIN userRooms /\ u # cur.task.uid
                                       /\ userRooms'[u] = userRooms[u]
      BY <2>2, <2>4 DEF Without
    <3>. QED
      BY Zenon, <1>0, <2>1, <2>3, <3>1 DEF IndexHolds
  <2>5. CASE ~left
    BY Zenon, <1>0, <2>1, <2>2, <2>3, <2>5 DEF IndexHolds
  <2>. QED
    BY Zenon, <2>4, <2>5
<1>11. CASE NotifyEnter \/ NotifyExit
  <2>1. UNCHANGED <<rooms, userRooms, users>> /\ cur.step = "notify"
    BY Zenon, <1>11, NotifyFacts DEF roomState
  <2>. QED
    BY <1>2, <2>1
<1>12. CASE CloseRoom
  <2>1. users' = users /\ cur.step = "empty"
    BY Zenon, <1>12, CloseRoomFacts
  <2>2. CASE UNCHANGED <<rooms, userRooms>>
    BY <1>2, <2>1, <2>2
  <2>3. CASE ~UNCHANGED <<rooms, userRooms>>
    <3>1. /\ rooms' = Without(rooms, {roomId[cur.task.room]})
          /\ userRooms' = Without(userRooms, {u \in DOMAIN userRooms :
                                                userRooms[u] = roomId[cur.task.room]})
      BY Zenon, <1>12, <2>3, CloseRoomFacts
    <3>2. \A u \in DOMAIN userRooms' : /\ u \in DOMAIN userRooms
                                       /\ userRooms[u] # roomId[cur.task.room]
                                       /\ userRooms'[u] = userRooms[u]
      BY <3>1 DEF Without
    <3>3. \A i \in DOMAIN rooms : i # roomId[cur.task.room] => rooms'[i] = rooms[i]
      BY <3>1 DEF Without
    <3>4. \A u \in DOMAIN userRooms : u \in users[rooms[userRooms[u]]]
      BY <1>1, <2>1
    <3>5. ASSUME NEW u \in DOMAIN userRooms' PROVE u \in users'[rooms'[userRooms'[u]]]
      <4>1. rooms'[userRooms'[u]] = rooms[userRooms[u]]
        BY Zenon, <1>0, <3>2, <3>3
      <4>. QED
        BY Zenon, <2>1, <3>2, <3>4, <4>1
    <3>. QED
      BY Zenon, <3>5 DEF IndexHolds
  <2>. QED
    BY Zenon, <2>2, <2>3
<1>13. CASE CloseImpl
  BY <1>2, <1>13, CloseImplFacts
<1>14. CASE ReleaseContents
  BY <1>2, <1>14, ReleaseFacts
<1>15. ~EraseKicked
  BY Zenon DEF EraseKicked, Running, Members
<1>16. CASE Shutdown
  <2>1. DOMAIN userRooms' = {}
    BY Zenon, <1>16, MapFacts DEF Shutdown
  <2>. QED
    BY <2>1 DEF IndexHolds
<1>. QED
  BY Zenon, StepKinds, <1>3, <1>4, <1>5, <1>6, <1>7, <1>8, <1>9, <1>10, <1>11, <1>12, <1>13, <1>14,
     <1>15, <1>16 DEF Kinds

(* While rng() draws no id in use and no client asks for a kick, a user    *)
(* whom user_rooms_ puts in a room is in that room's users_, except        *)
(* between the two halves of the strand's leave operation.                 *)
THEOREM IndexedAreMembers ==
  ASSUME DistinctIds, Messages \subseteq {Chat}
  PROVE  Spec => []IndexedIsMember
<1>1. Init => MemberInv
  <2>. SUFFICES ASSUME Init PROVE MemberInv
    OBVIOUS
  <2>1. strand = <<>> /\ cur = Idle /\ DOMAIN userRooms = {}
    BY Zenon, MapFacts DEF Init
  <2>2. NoKicks
    BY <2>1 DEF NoKicks
  <2>3. cur.task.op = "none"
    BY <2>1 DEF Idle, NoTask
  <2>. QED
    BY <2>1, <2>2, <2>3, ServerInit DEF MemberInv, Members, JoinHolds, IndexHolds
<1>2. MemberInv /\ [Next]_vars => MemberInv'
  <2>. SUFFICES ASSUME MemberInv, [Next]_vars PROVE MemberInv'
    OBVIOUS
  <2>1. ServerInv /\ ServerInv' /\ Members
    BY Zenon, ServerStep DEF MemberInv
  <2>2. TypeOK /\ TypeOK' /\ Born /\ Stages /\ LookupsAreSound /\ NoKicks /\ JoinHolds
    BY Zenon, <2>1 DEF ServerInv, Members
  <2>3. NoKicks'
    BY Zenon, <2>2, KickTasks
  <2>4. cur'.task.op # "kick"
    <3>1. Idle.task.op # "kick" /\ cur.task.op # "kick"
      BY <2>1 DEF Idle, NoTask, Members
    <3>2. 1 \in 1..Len(strand) => strand[1].op # "kick"
      BY Zenon, <2>2 DEF NoKicks
    <3>. QED
      BY Zenon, <2>2, <3>1, <3>2, CurTask
  <2>5. JoinHolds' /\ IndexHolds'
    BY Zenon, <2>1, <2>2, JoinHoldsStep, IndexHoldsStep
  <2>. QED
    BY Zenon, <2>1, <2>3, <2>4, <2>5 DEF MemberInv, Members
<1>3. MemberInv => IndexedIsMember
  BY Zenon DEF MemberInv, Members, IndexHolds, Leaving, IndexedIsMember
<1>. QED
  BY <1>1, <1>2, <1>3, PTL DEF Spec

=============================================================================
