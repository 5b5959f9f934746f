------------------------ MODULE TcpConnectionProofs ------------------------
(***************************************************************************)
(* What TcpConnection checks on small instances, proved for any threads,   *)
(* message sizes and limit.                                                *)
(***************************************************************************)
EXTENDS TcpConnection, FiniteSetTheorems, SequenceTheorems, TLAPS

Msgs == [from : Threads, nth : Nat, size : Nat]
Kinds == {"start", "stop", "force", "wrote", "writeError", "data", "eof", "abort"}
HandlerType == [op : Kinds] \cup [op : {"send"}, msg : Msgs]
Places == {"idle", "load", "reserve", "recheck", "withdraw", "post", "refused", "stop"}

(* The bytes of a set of messages: Owed is those of Unsent. *)
OctetsOf(U) == UNION {Octets(m) : m \in U}

(* A message is known by the thread that sent it and its number. *)
Identified(U) == \A m, w \in U : m.from = w.from /\ m.nth = w.nth => m = w

(* The cardinality of a disjoint union. *)
LEMMA DisjointUnion ==
  ASSUME NEW S, IsFiniteSet(S), NEW T, IsFiniteSet(T), S \cap T = {}
  PROVE  IsFiniteSet(S \cup T) /\ Cardinality(S \cup T) = Cardinality(S) + Cardinality(T)
<1>1. Cardinality(S \cap T) = 0
  BY Zenon, FS_EmptySet
<1>2. /\ IsFiniteSet(S \cup T)
      /\ Cardinality(S \cup T) = Cardinality(S) + Cardinality(T) - Cardinality(S \cap T)
  BY Zenon, FS_Union
<1>3. Cardinality(S) \in Nat /\ Cardinality(T) \in Nat
  BY Zenon, FS_CardinalityType
<1>. QED
  BY <1>1, <1>2, <1>3

(* The first n numbers are n. *)
LEMMA FirstNumbers ==
  ASSUME NEW n \in Nat
  PROVE  IsFiniteSet(1..n) /\ Cardinality(1..n) = n
<1>1. /\ IsFiniteSet(1..n)
      /\ Cardinality(1..n) = IF 1 > n THEN 0 ELSE n - 1 + 1
  BY FS_Interval
<1>2. (IF 1 > n THEN 0 ELSE n - 1 + 1) = n
  OBVIOUS
<1>. QED
  BY <1>1, <1>2

(* A message has as many bytes as its size says. *)
LEMMA OctetsCount ==
  ASSUME NEW m \in Msgs
  PROVE  IsFiniteSet(Octets(m)) /\ Cardinality(Octets(m)) = m.size
<1>. DEFINE id == <<m.from, m.nth>>
            byte == [k \in 1..m.size |-> <<id, k>>]
<1>1. m.size \in Nat
  BY Zenon DEF Msgs
<1>2. IsFiniteSet(1..m.size) /\ Cardinality(1..m.size) = m.size
  BY Zenon, <1>1, FirstNumbers
<1>3. byte \in Bijection(1..m.size, Octets(m))
  <2>1. byte \in [1..m.size -> Octets(m)]
    BY Zenon DEF Octets
  <2>2. \A a, b \in 1..m.size : byte[a] = byte[b] => a = b
    BY Zenon
  <2>3. \A o \in Octets(m) : \E k \in 1..m.size : byte[k] = o
    BY DEF Octets
  <2>. HIDE DEF byte
  <2>4. IsInjective(byte)
    BY Zenon, <2>1, <2>2 DEF IsInjective
  <2>. QED
    BY Zenon, <2>1, <2>3, <2>4 DEF Bijection, Injection, Surjection
<1>. QED
  BY <1>2, <1>3, FS_Bijection DEF ExistsBijection

(* Reserving for a new message adds its size to the bytes owed. *)
LEMMA AddMessage ==
  ASSUME NEW U \in SUBSET Msgs, IsFiniteSet(OctetsOf(U)), NEW m \in Msgs,
         \A w \in U : ~(w.from = m.from /\ w.nth = m.nth)
  PROVE  /\ IsFiniteSet(OctetsOf(U \cup {m}))
         /\ Cardinality(OctetsOf(U \cup {m})) = Cardinality(OctetsOf(U)) + m.size
<1>1. OctetsOf(U \cup {m}) = OctetsOf(U) \cup Octets(m)
  BY Zenon DEF OctetsOf
<1>2. OctetsOf(U) \cap Octets(m) = {}
  BY DEF OctetsOf, Octets
<1>3. IsFiniteSet(Octets(m)) /\ Cardinality(Octets(m)) = m.size
  BY Zenon, OctetsCount
<1>4. /\ IsFiniteSet(OctetsOf(U) \cup Octets(m))
      /\ Cardinality(OctetsOf(U) \cup Octets(m)) = Cardinality(OctetsOf(U)) + Cardinality(Octets(m))
  BY Zenon, <1>2, <1>3, DisjointUnion
<1>. QED
  BY Zenon, <1>1, <1>3, <1>4

(* Letting messages go takes away their bytes and no others. *)
LEMMA DropMessages ==
  ASSUME NEW U \in SUBSET Msgs, IsFiniteSet(OctetsOf(U)), Identified(U), NEW D \in SUBSET U
  PROVE  /\ IsFiniteSet(OctetsOf(U \ D))
         /\ Cardinality(OctetsOf(U \ D)) = Cardinality(OctetsOf(U)) - Cardinality(OctetsOf(D))
<1>1. OctetsOf(U \ D) = OctetsOf(U) \ OctetsOf(D)
  <2>1. ASSUME NEW o \in OctetsOf(U \ D) PROVE o \in OctetsOf(U) /\ o \notin OctetsOf(D)
    BY DEF OctetsOf, Octets, Identified
  <2>2. ASSUME NEW o \in OctetsOf(U), o \notin OctetsOf(D) PROVE o \in OctetsOf(U \ D)
    BY Zenon, <2>2 DEF OctetsOf
  <2>. QED
    BY Zenon, <2>1, <2>2
<1>2. OctetsOf(U) \cap OctetsOf(D) = OctetsOf(D)
  BY Zenon DEF OctetsOf
<1>3. /\ IsFiniteSet(OctetsOf(U) \ OctetsOf(D))
      /\ Cardinality(OctetsOf(U) \ OctetsOf(D)) =
           Cardinality(OctetsOf(U)) - Cardinality(OctetsOf(U) \cap OctetsOf(D))
  BY Zenon, FS_Difference
<1>. QED
  BY Zenon, <1>1, <1>2, <1>3

(* Taking a message out of a set takes out its bytes and no others. *)
LEMMA DropMessage ==
  ASSUME NEW U \in SUBSET Msgs, IsFiniteSet(OctetsOf(U)), Identified(U), NEW m \in U
  PROVE  /\ IsFiniteSet(OctetsOf(U \ {m}))
         /\ Cardinality(OctetsOf(U \ {m})) = Cardinality(OctetsOf(U)) - m.size
<1>1. OctetsOf({m}) = Octets(m)
  BY Zenon DEF OctetsOf
<1>. QED
  BY <1>1, DropMessages, OctetsCount

(* The size of a queue is the number of its messages' bytes. *)
LEMMA QueueBytes ==
  ASSUME NEW q \in Seq(Msgs),
         \A i, j \in 1..Len(q) : q[i].from = q[j].from /\ q[i].nth = q[j].nth => i = j,
         IsFiniteSet(OctetsOf(Range(q)))
  PROVE  Bytes(q) = Cardinality(OctetsOf(Range(q)))
<1>. DEFINE places == UNION {{n} \X (1..q[n].size) : n \in 1..Len(q)}
            octet == [p \in places |-> <<<<q[p[1]].from, q[p[1]].nth>>, p[2]>>]
            O == OctetsOf(Range(q))
<1>1. \A p \in places : p[1] \in 1..Len(q) /\ p[2] \in 1..q[p[1]].size /\ p = <<p[1], p[2]>>
  OBVIOUS
<1>2. \A n \in 1..Len(q), k \in Int : k \in 1..q[n].size => <<n, k>> \in places
  OBVIOUS
<1>3. \A o : o \in O <=> \E n \in 1..Len(q) : o \in Octets(q[n])
  BY DEF OctetsOf, Range
<1>4. octet \in [places -> O]
  BY Zenon, <1>1, <1>3 DEF Octets
<1>5. \A a, b \in places : octet[a] = octet[b] => a = b
  <2>. SUFFICES ASSUME NEW a \in places, NEW b \in places, octet[a] = octet[b] PROVE a = b
    BY Zenon
  <2>1. q[a[1]].from = q[b[1]].from /\ q[a[1]].nth = q[b[1]].nth /\ a[2] = b[2]
    BY Zenon
  <2>2. a[1] \in 1..Len(q) /\ b[1] \in 1..Len(q) /\ a = <<a[1], a[2]>> /\ b = <<b[1], b[2]>>
    BY Zenon, <1>1
  <2>3. a[1] = b[1]
    BY Zenon, <2>1, <2>2
  <2>. QED
    BY Zenon, <2>1, <2>2, <2>3
<1>6. \A o \in O : \E p \in places : octet[p] = o
  <2>. SUFFICES ASSUME NEW o \in O PROVE \E p \in places : octet[p] = o
    BY Zenon
  <2>1. PICK n \in 1..Len(q) : o \in Octets(q[n])
    BY Zenon, <1>3
  <2>2. PICK k \in 1..q[n].size : o = <<<<q[n].from, q[n].nth>>, k>>
    BY <2>1 DEF Octets
  <2>3. <<n, k>> \in places /\ octet[<<n, k>>] = o
    BY <1>2, <2>2
  <2>. QED
    BY Zenon, <2>3
<1>7. octet \in Injection(places, O) /\ octet \in Surjection(places, O)
  <2>. HIDE DEF octet, places, O
  <2>. QED
    BY Zenon, <1>4, <1>5, <1>6 DEF Injection, Surjection, IsInjective
<1>8. IsFiniteSet(places) /\ Cardinality(places) = Cardinality(O)
  <2>. HIDE DEF octet, places, O
  <2>1. IsFiniteSet(O)
    BY Zenon DEF O
  <2>. QED
    BY Zenon, <1>7, <2>1, FS_Injection
<1>. QED
  BY Zenon, <1>8 DEF Bytes
-----------------------------------------------------------------------------
(* The inductive invariant *)

TypeOK ==
  /\ writeOps \in Nat /\ readOps \in Nat /\ closings \in Nat
  /\ overflowed \in BOOLEAN /\ graceful \in BOOLEAN /\ shutdown \in BOOLEAN
  /\ closed \in BOOLEAN /\ reading \in BOOLEAN
  /\ queue \in Seq(Msgs) /\ posted \in Seq(Msgs) /\ written \in Seq(Msgs)
  /\ strand \in Seq(HandlerType)
  /\ sender \in [Threads -> [pc : Places, size : Nat, seen : Int]]
  /\ sends \in [Threads -> Nat]

Sending == Handlers({"send"})

(* A posted message is known by its thread and number, and the message a   *)
(* thread is about to send has a number of its own.                        *)
Fresh ==
  /\ \A i \in 1..Len(posted) :
       LET t == posted[i].from
       IN  posted[i].nth <= sends[t] /\ (sender[t].pc # "idle" => posted[i].nth < sends[t])
  /\ \A i, j \in 1..Len(posted) :
       posted[i].from = posted[j].from /\ posted[i].nth = posted[j].nth => i = j

Passed == Len(written) + Len(queue)

(* written \o queue is a prefix of posted; the strand holds messages from  *)
(* behind it, in order; and all of them while send_impl() still queues.    *)
Ordered ==
  /\ Passed <= Len(posted)
  /\ \A i \in 1..Len(written) : written[i] = posted[i]
  /\ \A i \in 1..Len(queue) : queue[i] = posted[Len(written) + i]
  /\ \A n \in Sending : \E i \in 1..Len(posted) : Passed < i /\ posted[i] = strand[n].msg
  /\ \A m, n \in Sending, i, j \in 1..Len(posted) :
       m < n /\ posted[i] = strand[m].msg /\ posted[j] = strand[n].msg => i < j
  /\ ~Refusing => \A i \in 1..Len(posted) :
                    Passed < i => \E n \in Sending : posted[i] = strand[n].msg

(* The send side is shut down by a graceful close that found an empty      *)
(* queue or emptied it, and nothing is queued after that or after a close. *)
ShutdownLast ==
  /\ shutdown => graceful /\ queue = <<>>
  /\ closed => queue = <<>>

Done == Handlers({"wrote", "writeError"})

(* OneWriteAtATime, without the counting. *)
OneOutstanding ==
  /\ writeOps <= 1
  /\ writeOps = 1 => Done = {}
  /\ \A m, n \in Done : m = n
  /\ ~closed => (queue # <<>> <=> (writeOps = 1 \/ Done # {}))

Accounted == IsFiniteSet(Owed) /\ pending = Cardinality(Owed) /\ pending <= Limit

ConnInv ==
  TypeOK /\ Fresh /\ Ordered /\ ShutdownLast /\ OneOutstanding /\ Accounted /\ ClosedOnce
-----------------------------------------------------------------------------
(* Facts about the strand *)

(* Only the handler of a send carries a message. *)
LEMMA HandlerFacts ==
  ASSUME NEW h \in HandlerType
  PROVE  /\ h.op = "send" => h.msg \in Msgs
         /\ h.op # "send" => h.op \in Kinds
         /\ h.op \in Kinds => h.op # "send"
BY Zenon DEF HandlerType, Kinds

(* What a handler finds at the head of the strand, and what it leaves.     *)
LEMMA TakeFacts ==
  ASSUME TypeOK, NEW kinds, Take(kinds), strand' = Tail(strand)
  PROVE  /\ 1 \in 1..Len(strand) /\ Head(strand) = strand[1]
         /\ strand[1] \in HandlerType /\ strand[1].op \in kinds
         /\ strand' \in Seq(HandlerType)
         /\ Len(strand') \in Nat /\ Len(strand) = Len(strand') + 1
         /\ \A n \in 1..Len(strand') : n + 1 \in 1..Len(strand) /\ strand'[n] = strand[n + 1]
<1>1. strand \in Seq(HandlerType) /\ strand # <<>>
  BY Zenon DEF Take, TypeOK
<1>2. Head(strand).op \in kinds
  BY Zenon DEF Take
<1>. QED
  BY <1>1, <1>2, HeadTailProperties

(* The strand after a handler was posted to it. *)
LEMMA AppendFacts ==
  ASSUME TypeOK, NEW h \in HandlerType, strand' = Append(strand, h)
  PROVE  /\ strand' \in Seq(HandlerType)
         /\ Len(strand) \in Nat /\ Len(strand') = Len(strand) + 1
         /\ \A n \in 1..Len(strand) : n \in 1..Len(strand') /\ strand'[n] = strand[n]
         /\ Len(strand') \in 1..Len(strand') /\ strand'[Len(strand')] = h
         /\ \A n \in 1..Len(strand') : n \in 1..Len(strand) \/ n = Len(strand')
BY DEF TypeOK

(* What a thread sends is a message. *)
LEMMA MessageType ==
  ASSUME TypeOK, NEW t \in Threads
  PROVE  Message(t) \in Msgs
BY Zenon DEF TypeOK, Message, Msgs

(* A handler without a message. *)
LEMMA OtherHandler ==
  ASSUME NEW k \in Kinds
  PROVE  [op |-> k] \in HandlerType /\ [op |-> k].op = k
BY Zenon DEF HandlerType

-----------------------------------------------------------------------------
(* Types *)

(* handle_write() of an open connection finds the message it wrote.        *)
LEMMA QueuedWhenWrote ==
  ASSUME TypeOK, OneOutstanding, ~closed, NEW kinds, kinds \subseteq {"wrote", "writeError"},
         Take(kinds), strand' = Tail(strand)
  PROVE  queue # <<>>
<1>1. 1 \in Done
  BY Zenon, TakeFacts DEF Done, Handlers
<1>. QED
  BY Zenon, <1>1 DEF OneOutstanding

(* finish_close() and shutdown_send_impl() keep the types. *)
LEMMA CloseTypes ==
  ASSUME TypeOK, FinishClose \/ KeepOpen
  PROVE  queue' \in Seq(Msgs) /\ closed' \in BOOLEAN /\ closings' \in Nat
<1>1. CASE FinishClose
  <2>1. queue' = <<>> /\ closed' = TRUE
    BY Zenon, <1>1 DEF FinishClose
  <2>2. closings' = closings \/ closings' = closings + 1
    BY Zenon, <1>1 DEF FinishClose
  <2>. QED
    BY <2>1, <2>2 DEF TypeOK
<1>2. CASE KeepOpen
  BY Zenon, <1>2 DEF KeepOpen, TypeOK
<1>. QED
  BY Zenon, <1>1, <1>2

(* shutdown_send() keeps the types of the flags. *)
LEMMA ShutdownTypes ==
  ASSUME TypeOK, ShutdownSend \/ UNCHANGED <<shutdown, closed, closings>>
  PROVE  shutdown' \in BOOLEAN /\ closed' \in BOOLEAN /\ closings' \in Nat
<1>1. CASE ShutdownSend
  <2>1. shutdown' \in BOOLEAN /\ closed' \in BOOLEAN
    BY <1>1, Zenon DEF ShutdownSend, TypeOK
  <2>2. closings' = closings \/ closings' = closings + 1
    BY Zenon, <1>1 DEF ShutdownSend
  <2>. QED
    BY <2>1, <2>2 DEF TypeOK
<1>2. CASE UNCHANGED <<shutdown, closed, closings>>
  BY Zenon, <1>2 DEF TypeOK
<1>. QED
  BY Zenon, <1>1, <1>2

(* A call of send() keeps the types. *)
LEMMA SendTypes ==
  ASSUME TypeOK, NEW t \in Threads, NEW size \in Sizes, Send(t, size)
  PROVE  TypeOK'
<1>1. size \in Nat
  BY Zenon, TcpAssumption
<1>. QED
  BY <1>1 DEF Send, TypeOK, flags, ops, Places

(* The steps inside send() keep the types. *)
LEMMA SenderTypes ==
  ASSUME TypeOK, pending \in Int, NEW t \in Threads, Sender(t)
  PROVE  TypeOK'
<1>. USE DEF flags, ops, history, Places, Goto
<1>1. CASE LoadPending(t)
  BY Zenon, <1>1 DEF LoadPending, TypeOK
<1>2. CASE Reserve(t)
  BY Zenon, <1>2 DEF Reserve, TypeOK
<1>3. CASE ReserveRetry(t)
  BY Zenon, <1>3 DEF ReserveRetry, TypeOK
<1>4. CASE ReserveRefused(t)
  BY Zenon, <1>4 DEF ReserveRefused, TypeOK
<1>5. CASE Recheck(t)
  BY Zenon, <1>5 DEF Recheck, TypeOK
<1>6. CASE Withdraw(t)
  BY Zenon, <1>6 DEF Withdraw, TypeOK
<1>7. CASE PostSend(t)
  <2>1. Message(t) \in Msgs
    BY Zenon, MessageType
  <2>2. [op |-> "send", msg |-> Message(t)] \in HandlerType
    BY Zenon, <2>1 DEF HandlerType
  <2>3. strand' \in Seq(HandlerType) /\ posted' \in Seq(Msgs)
    BY <1>7, <2>1, <2>2 DEF PostSend, TypeOK, Message
  <2>. QED
    BY <1>7, <2>3 DEF PostSend, TypeOK, Quiet
<1>8. CASE Overflow(t)
  <2>1. Quiet \in [pc : Places, size : Nat, seen : Int]
    BY DEF Quiet
  <2>2. [Quiet EXCEPT !.pc = "stop"] \in [pc : Places, size : Nat, seen : Int]
    BY Zenon, <2>1
  <2>3. sender' \in [Threads -> [pc : Places, size : Nat, seen : Int]]
    BY Zenon, <1>8, <2>1, <2>2 DEF Overflow, TypeOK
  <2>4. overflowed' \in BOOLEAN
    BY Zenon, <1>8 DEF Overflow
  <2>. QED
    BY Zenon, <1>8, <2>3, <2>4 DEF Overflow, TypeOK
<1>9. CASE StopOverflowed(t)
  <2>1. strand' \in Seq(HandlerType)
    <3>1. [op |-> "force"] \in HandlerType
      BY Zenon, OtherHandler DEF Kinds
    <3>2. CASE strand' = Append(strand, [op |-> "force"])
      BY Zenon, <3>1, <3>2, AppendFacts
    <3>3. CASE UNCHANGED strand
      BY Zenon, <3>3 DEF TypeOK
    <3>. QED
      BY Zenon, <1>9, <3>2, <3>3 DEF StopOverflowed
  <2>2. queue' \in Seq(Msgs) /\ closed' \in BOOLEAN /\ closings' \in Nat
    BY Zenon, <1>9, CloseTypes DEF StopOverflowed
  <2>. QED
    BY <1>9, <2>1, <2>2 DEF StopOverflowed, TypeOK, Quiet
<1>. QED
  BY Zenon, <1>1, <1>2, <1>3, <1>4, <1>5, <1>6, <1>7, <1>8, <1>9 DEF Sender
(* The handlers on the strand keep the types. *)
LEMMA StrandTypes ==
  ASSUME TypeOK, OneOutstanding, Strand
  PROVE  TypeOK'
<1>. USE DEF flags, ops, history
<1>1. CASE RunClose
  BY Zenon, <1>1, TakeFacts, CloseTypes DEF RunClose, TypeOK
<1>2. CASE RunStop
  <2>1. strand' \in Seq(HandlerType)
    BY Zenon, <1>2, TakeFacts DEF RunStop
  <2>2. shutdown' \in BOOLEAN /\ closed' \in BOOLEAN /\ closings' \in Nat
    BY Zenon, <1>2, ShutdownTypes DEF RunStop, KeepOpen
  <2>3. graceful' \in BOOLEAN /\ queue' \in Seq(Msgs)
    BY Zenon, <1>2 DEF RunStop, KeepOpen, TypeOK
  <2>. QED
    BY Zenon, <1>2, <2>1, <2>2, <2>3 DEF RunStop, TypeOK
<1>3. CASE RunSend
  <2>1. strand' \in Seq(HandlerType) /\ Head(strand).msg \in Msgs
    BY <1>3, TakeFacts, HandlerFacts DEF RunSend
  <2>. QED
    BY <1>3, <2>1 DEF RunSend, TypeOK
<1>4. CASE RunWrote
  <2>1. strand' \in Seq(HandlerType)
    BY Zenon, <1>4, TakeFacts DEF RunWrote
  <2>2. ASSUME ~closed PROVE Head(queue) \in Msgs /\ Tail(queue) \in Seq(Msgs)
    <3>1. Take({"wrote"}) /\ strand' = Tail(strand)
      BY Zenon, <1>4 DEF RunWrote
    <3>2. queue # <<>>
      BY Zenon, <2>2, <3>1, QueuedWhenWrote
    <3>3. queue \in Seq(Msgs)
      BY Zenon DEF TypeOK
    <3>. QED
      BY Zenon, <3>2, <3>3, HeadTailProperties
  <2>3. shutdown' \in BOOLEAN /\ closed' \in BOOLEAN /\ closings' \in Nat
    BY Zenon, <1>4, ShutdownTypes DEF RunWrote, KeepOpen
  <2>4. queue' \in Seq(Msgs) /\ written' \in Seq(Msgs) /\ writeOps' \in Nat
    <3>1. CASE closed
      BY Zenon, <1>4, <3>1 DEF RunWrote, KeepOpen, TypeOK
    <3>2. CASE ~closed
      <4>1. /\ written' = Append(written, Head(queue)) /\ queue' = Tail(queue)
            /\ writeOps' = writeOps \/ writeOps' = writeOps + 1
        BY Zenon, <1>4, <3>2 DEF RunWrote
      <4>. QED
        BY <2>2, <3>2, <4>1 DEF TypeOK
    <3>. QED
      BY Zenon, <3>1, <3>2
  <2>. QED
    BY Zenon, <1>4, <2>1, <2>3, <2>4 DEF RunWrote, TypeOK
<1>5. CASE RunWriteError
  BY Zenon, <1>5, TakeFacts, CloseTypes DEF RunWriteError, TypeOK
<1>6. CASE RunStart
  BY <1>6, TakeFacts DEF RunStart, TypeOK
<1>7. CASE RunData
  BY Zenon, <1>7, TakeFacts DEF RunData, TypeOK
<1>8. CASE ReadNext
  <2>1. [op |-> "start"] \in HandlerType
    BY Zenon, OtherHandler DEF Kinds
  <2>2. strand' \in Seq(HandlerType)
    BY Zenon, <1>8, <2>1, AppendFacts DEF ReadNext
  <2>. QED
    BY Zenon, <1>8, <2>2 DEF ReadNext, TypeOK
<1>9. CASE ReadInvalid
  BY Zenon, <1>9, CloseTypes DEF ReadInvalid, TypeOK
<1>. QED
  BY Zenon, <1>1, <1>2, <1>3, <1>4, <1>5, <1>6, <1>7, <1>8, <1>9 DEF Strand
(* Every step keeps the types. *)
LEMMA StepTypes ==
  ASSUME TypeOK, pending \in Int, OneOutstanding, [Next]_vars
  PROVE  TypeOK'
<1>. USE DEF flags, ops, history
<1>1. ASSUME NEW kind \in {"stop", "force"}, Stop(kind) PROVE TypeOK'
  <2>1. [op |-> kind] \in HandlerType
    BY Zenon, OtherHandler DEF Kinds
  <2>2. strand' \in Seq(HandlerType)
    BY Zenon, <1>1, <2>1, AppendFacts DEF Stop
  <2>. QED
    BY Zenon, <1>1, <2>2 DEF Stop, TypeOK
<1>2. ASSUME NEW result \in {"wrote", "writeError"}, WriteDone(result) PROVE TypeOK'
  <2>1. [op |-> result] \in HandlerType
    BY Zenon, OtherHandler DEF Kinds
  <2>2. strand' \in Seq(HandlerType)
    BY Zenon, <1>2, <2>1, AppendFacts DEF WriteDone
  <2>. QED
    BY <1>2, <2>2 DEF WriteDone, TypeOK
<1>3. ASSUME NEW result \in {"data", "eof", "abort"}, ReadDone(result) PROVE TypeOK'
  <2>1. [op |-> result] \in HandlerType
    BY Zenon, OtherHandler DEF Kinds
  <2>2. strand' \in Seq(HandlerType)
    BY Zenon, <1>3, <2>1, AppendFacts DEF ReadDone
  <2>. QED
    BY <1>3, <2>2 DEF ReadDone, TypeOK
<1>4. CASE UNCHANGED vars
  BY Zenon, <1>4 DEF TypeOK, vars
<1>. QED
  BY Zenon, <1>1, <1>2, <1>3, <1>4, SendTypes, SenderTypes, StrandTypes DEF Next, Kernel, Rest

-----------------------------------------------------------------------------
(* Kinds of step, by what they do to the strand and the queue *)

(* A handler other than send_impl() joins the strand, leaves it or neither. *)
Joins == \E k \in Kinds : strand' = Append(strand, [op |-> k])
Leaves == Take(Kinds) /\ strand' = Tail(strand)
OthersMove == UNCHANGED strand \/ Joins \/ Leaves

(* The send handlers keep their messages and their order.                  *)
SameSends ==
  \E shift \in {0, 1} :
    /\ \A n \in Sending' : n + shift \in Sending /\ strand'[n].msg = strand[n + shift].msg
    /\ \A n \in Sending : n - shift \in Sending'

(* Handlers other than those of sends leave these in their order. *)
LEMMA OthersKeepSends ==
  ASSUME TypeOK, OthersMove
  PROVE  SameSends
<1>1. CASE UNCHANGED strand
  BY <1>1 DEF SameSends, Sending, Handlers
<1>2. ASSUME NEW k \in Kinds, strand' = Append(strand, [op |-> k]) PROVE SameSends
  <2>1. [op |-> k] \in HandlerType /\ [op |-> k].op = k /\ k # "send"
    BY Zenon, OtherHandler DEF Kinds
  <2>2. Sending' = Sending /\ \A n \in Sending : strand'[n] = strand[n]
    BY Zenon, <1>2, <2>1, AppendFacts DEF Sending, Handlers
  <2>. QED
    BY <2>2 DEF SameSends, Sending, Handlers
<1>3. CASE Leaves
  <2>1. strand[1].op # "send"
    BY <1>3, TakeFacts DEF Leaves, Kinds
  <2>2. \A n \in Sending' : n + 1 \in Sending /\ strand'[n] = strand[n + 1]
    BY Zenon, <1>3, TakeFacts DEF Leaves, Sending, Handlers
  <2>3. \A n \in Sending : n - 1 \in Sending'
    <3>. SUFFICES ASSUME NEW n \in Sending PROVE n - 1 \in Sending'
      BY Zenon
    <3>1. n \in 1..Len(strand) /\ n # 1
      BY Zenon, <2>1 DEF Sending, Handlers
    <3>. QED
      BY <1>3, <3>1, TakeFacts DEF Leaves, Sending, Handlers
  <2>. QED
    BY Zenon, <2>2, <2>3 DEF SameSends
<1>. QED
  BY Zenon, <1>1, <1>2, <1>3 DEF OthersMove, Joins
(* Every step but those that post, queue or finish writing a message. *)
Ordinary ==
  /\ OthersMove
  /\ UNCHANGED <<posted, written>>
  /\ queue' = queue \/ (queue' = <<>> /\ closed')
  /\ Refusing => Refusing'

(* What a step does to the messages: nothing, or it posts a send, runs     *)
(* one, or completes a write.                                              *)
LEMMA StepKinds ==
  ASSUME TypeOK, [Next]_vars
  PROVE  Ordinary \/ (\E t \in Threads : PostSend(t)) \/ RunSend \/ (RunWrote /\ ~closed)
<1>. USE DEF flags, ops, history
<1>1. ASSUME NEW t \in Threads, NEW size \in Sizes, Send(t, size) PROVE Ordinary
  BY Zenon, <1>1 DEF Send, Ordinary, OthersMove, Refusing
<1>2. ASSUME NEW t \in Threads, Sender(t), ~PostSend(t) PROVE Ordinary
  <2>1. CASE LoadPending(t) \/ Reserve(t) \/ ReserveRetry(t) \/ ReserveRefused(t)
             \/ Recheck(t) \/ Withdraw(t) \/ Overflow(t)
    BY <2>1 DEF LoadPending, Reserve, ReserveRetry, ReserveRefused, Recheck, Withdraw, Overflow,
                Ordinary, OthersMove, Refusing
  <2>2. CASE StopOverflowed(t)
    <3>1. OthersMove
      BY Zenon, <2>2 DEF StopOverflowed, OthersMove, Joins, Kinds
    <3>2. FinishClose \/ KeepOpen
      BY Zenon, <2>2 DEF StopOverflowed
    <3>. QED
      BY <2>2, <3>1, <3>2 DEF StopOverflowed, FinishClose, KeepOpen, Ordinary, Refusing
  <2>. QED
    BY Zenon, <1>2, <2>1, <2>2 DEF Sender
<1>3. ASSUME NEW kind \in {"stop", "force"}, Stop(kind) PROVE Ordinary
  BY Zenon, <1>3 DEF Stop, Ordinary, OthersMove, Joins, Kinds, Refusing
<1>4. ASSUME Strand, ~RunSend, ~(RunWrote /\ ~closed) PROVE Ordinary
  <2>1. CASE RunClose
    BY Zenon, <2>1 DEF RunClose, FinishClose, Ordinary, OthersMove, Leaves, Take, Kinds, Refusing
  <2>2. CASE RunStop
    BY <2>2 DEF RunStop, ShutdownSend, KeepOpen, Ordinary, OthersMove, Leaves, Take, Kinds, Refusing
  <2>3. CASE RunWrote /\ closed
    BY Zenon, <2>3 DEF RunWrote, KeepOpen, Ordinary, OthersMove, Leaves, Take, Kinds, Refusing
  <2>4. CASE RunWriteError
    BY Zenon, <2>4 DEF RunWriteError, KeepOpen, FinishClose, Ordinary, OthersMove, Leaves, Take, Kinds,
                Refusing
  <2>5. CASE RunStart \/ RunData
    BY <2>5 DEF RunStart, RunData, Ordinary, OthersMove, Leaves, Take, Kinds, Refusing
  <2>6. CASE ReadNext
    BY Zenon, <2>6 DEF ReadNext, Ordinary, OthersMove, Joins, Kinds, Refusing
  <2>7. CASE ReadInvalid
    BY Zenon, <2>7 DEF ReadInvalid, FinishClose, Ordinary, OthersMove, Refusing
  <2>. QED
    BY Zenon, <1>4, <2>1, <2>2, <2>3, <2>4, <2>5, <2>6, <2>7 DEF Strand
<1>5. ASSUME NEW result \in {"wrote", "writeError"}, WriteDone(result) PROVE Ordinary
  BY Zenon, <1>5 DEF WriteDone, Ordinary, OthersMove, Joins, Kinds, Refusing
<1>6. ASSUME NEW result \in {"data", "eof", "abort"}, ReadDone(result) PROVE Ordinary
  BY Zenon, <1>6 DEF ReadDone, Ordinary, OthersMove, Joins, Kinds, Refusing
<1>7. CASE UNCHANGED vars
  BY Zenon, <1>7 DEF vars, Ordinary, OthersMove, Refusing
<1>. QED
  BY Zenon, <1>1, <1>2, <1>3, <1>4, <1>5, <1>6, <1>7 DEF Next, Kernel, Rest

-----------------------------------------------------------------------------
(* Messages are known by thread and number *)

(* What was posted are messages. *)
LEMMA PostedTypes ==
  ASSUME TypeOK
  PROVE  Len(posted) \in Nat /\ \A i \in 1..Len(posted) : posted[i] \in Msgs
BY DEF TypeOK

(* A message being sent stays one that was not posted before. *)
LEMMA FreshStep ==
  ASSUME TypeOK, Fresh, [Next]_vars
  PROVE  Fresh'
<1>. USE DEF flags, ops, history
<1>. DEFINE Calm == /\ UNCHANGED <<posted, sends>>
                    /\ \A t \in Threads : sender'[t].pc # "idle" => sender[t].pc # "idle"
<1>0. \A i \in 1..Len(posted) : posted[i].from \in Threads /\ posted[i].nth \in Nat
  BY Zenon, PostedTypes DEF Msgs
<1>1. ASSUME Calm PROVE Fresh'
  BY Zenon, <1>0, <1>1 DEF Fresh
<1>2. ASSUME NEW t \in Threads, NEW size \in Sizes, Send(t, size) PROVE Fresh'
  <2>1. /\ posted' = posted /\ sender[t].pc = "idle" /\ sends[t] \in Nat
        /\ sends'[t] = sends[t] + 1
        /\ \A u \in Threads \ {t} : sends'[u] = sends[u] /\ sender'[u] = sender[u]
    BY Zenon, <1>2 DEF Send, TypeOK
  <2>2. \A i \in 1..Len(posted) :
           /\ posted[i].nth <= sends'[posted[i].from]
           /\ sender'[posted[i].from].pc # "idle" => posted[i].nth < sends'[posted[i].from]
    <3>. SUFFICES ASSUME NEW i \in 1..Len(posted)
                  PROVE  /\ posted[i].nth <= sends'[posted[i].from]
                         /\ sender'[posted[i].from].pc # "idle"
                              => posted[i].nth < sends'[posted[i].from]
      BY Zenon
    <3>1. posted[i].from \in Threads /\ posted[i].nth \in Nat
      BY Zenon, <1>0
    <3>2. /\ posted[i].nth <= sends[posted[i].from]
          /\ sender[posted[i].from].pc # "idle" => posted[i].nth < sends[posted[i].from]
      BY Zenon DEF Fresh
    <3>3. CASE posted[i].from = t
      BY <2>1, <3>1, <3>2, <3>3
    <3>4. CASE posted[i].from # t
      BY Zenon, <2>1, <3>1, <3>2, <3>4
    <3>. QED
      BY Zenon, <3>3, <3>4
  <2>. QED
    BY Zenon, <2>1, <2>2 DEF Fresh
<1>3. ASSUME NEW t \in Threads, PostSend(t) PROVE Fresh'
  <2>1. Message(t) \in Msgs /\ posted' = Append(posted, Message(t)) /\ sends' = sends
    BY Zenon, <1>3, MessageType DEF PostSend, Message
  <2>2. /\ posted \in Seq(Msgs) /\ Len(posted') = Len(posted) + 1 /\ Len(posted) \in Nat
        /\ \A i \in 1..Len(posted) : posted'[i] = posted[i]
        /\ posted'[Len(posted')] = Message(t)
        /\ \A i \in 1..Len(posted') : i \in 1..Len(posted) \/ i = Len(posted')
    <3>1. posted \in Seq(Msgs) /\ Len(posted) \in Nat
      BY Zenon, LenProperties DEF TypeOK
    <3>2. /\ Len(posted') = Len(posted) + 1 /\ posted'[Len(posted) + 1] = Message(t)
          /\ \A i \in 1..Len(posted) : posted'[i] = posted[i]
      BY Zenon, <2>1, <3>1, AppendProperties
    <3>3. \A n \in Nat : \A i \in 1..(n + 1) : i \in 1..n \/ i = n + 1
      OBVIOUS
    <3>. QED
      BY Zenon, <3>1, <3>2, <3>3
  <2>3. Message(t).from = t /\ Message(t).nth = sends[t] /\ sends[t] \in Nat
    BY Zenon DEF Message, TypeOK
  <2>4. sender[t].pc # "idle" /\ sender'[t].pc = "idle"
        /\ \A u \in Threads \ {t} : sender'[u] = sender[u]
    BY Zenon, <1>3 DEF PostSend, TypeOK, Quiet
  <2>5. \A i \in 1..Len(posted) : posted[i].from = t => posted[i].nth < sends[t]
    BY Zenon, <2>4 DEF Fresh
  <2>6. \A i \in 1..Len(posted') :
           /\ posted'[i].nth <= sends[posted'[i].from]
           /\ sender'[posted'[i].from].pc # "idle" => posted'[i].nth < sends[posted'[i].from]
    BY <1>0, <2>2, <2>3, <2>4 DEF Fresh
  <2>7. \A i, j \in 1..Len(posted') :
           posted'[i].from = posted'[j].from /\ posted'[i].nth = posted'[j].nth => i = j
    BY <1>0, <2>2, <2>3, <2>5 DEF Fresh
  <2>. QED
    BY Zenon, <2>1, <2>6, <2>7 DEF Fresh
<1>4. ASSUME NEW t \in Threads, Sender(t), ~PostSend(t) PROVE Calm
  BY Zenon, <1>4 DEF Sender, LoadPending, Reserve, ReserveRetry, ReserveRefused, Recheck, Withdraw,
              Overflow, StopOverflowed, Goto, Quiet, TypeOK
<1>5. ASSUME NEW kind \in {"stop", "force"}, Stop(kind) PROVE Calm
  BY Zenon, <1>5 DEF Stop
<1>6. ASSUME Strand PROVE Calm
  BY Zenon, <1>6 DEF Strand, RunClose, RunStop, RunSend, RunWrote, RunWriteError, RunStart, RunData,
              ReadNext, ReadInvalid
<1>7. ASSUME Kernel PROVE Calm
  BY Zenon, <1>7 DEF Kernel, WriteDone, ReadDone
<1>8. ASSUME UNCHANGED vars PROVE Calm
  BY Zenon, <1>8 DEF vars
<1>. HIDE DEF Calm
<1>. QED
  BY Zenon, <1>1, <1>2, <1>3, <1>4, <1>5, <1>6, <1>7, <1>8 DEF Next, Rest
-----------------------------------------------------------------------------
(* Messages are written in the order they were posted *)

(* Steps that move no message keep the order. *)
LEMMA OrderedOrdinary ==
  ASSUME TypeOK, Ordered, Ordinary
  PROVE  Ordered'
<1>1. PICK shift \in {0, 1} :
        /\ \A n \in Sending' : n + shift \in Sending /\ strand'[n].msg = strand[n + shift].msg
        /\ \A n \in Sending : n - shift \in Sending'
  BY Zenon, OthersKeepSends DEF Ordinary, SameSends
<1>2. posted' = posted /\ written' = written /\ Sending \subseteq Int /\ Sending' \subseteq Int
  BY DEF Ordinary, Sending, Handlers
<1>3. Len(posted) \in Nat /\ Len(written) \in Nat /\ Len(queue) \in Nat
  BY DEF TypeOK
<1>4. Len(queue') \in Nat /\ Len(queue') <= Len(queue) /\ \A i \in 1..Len(queue') : queue'[i] = queue[i]
  <2>1. CASE queue' = queue
    BY <1>3, <2>1
  <2>2. CASE queue' = <<>>
    BY <1>3, <2>2
  <2>. QED
    BY Zenon, <2>1, <2>2 DEF Ordinary
<1>5. Passed' \in Nat /\ Passed \in Nat /\ Passed' <= Passed
  BY <1>2, <1>3, <1>4 DEF Passed
<1>6. /\ Passed' <= Len(posted')
      /\ \A i \in 1..Len(written') : written'[i] = posted'[i]
      /\ \A i \in 1..Len(queue') : queue'[i] = posted'[Len(written') + i]
  BY <1>2, <1>3, <1>4, <1>5 DEF Ordered
<1>7. \A n \in Sending' : \E i \in 1..Len(posted') : Passed' < i /\ posted'[i] = strand'[n].msg
  <2>. SUFFICES ASSUME NEW n \in Sending'
                PROVE  \E i \in 1..Len(posted) : Passed' < i /\ posted[i] = strand'[n].msg
    BY Zenon, <1>2
  <2>1. PICK i \in 1..Len(posted) : Passed < i /\ posted[i] = strand[n + shift].msg
    BY Zenon, <1>1 DEF Ordered
  <2>. QED
    BY <1>1, <1>5, <2>1
<1>8. \A m, n \in Sending', i, j \in 1..Len(posted') :
        m < n /\ posted'[i] = strand'[m].msg /\ posted'[j] = strand'[n].msg => i < j
  <2>. SUFFICES ASSUME NEW m \in Sending', NEW n \in Sending', m < n,
                       NEW i \in 1..Len(posted), NEW j \in 1..Len(posted),
                       posted[i] = strand'[m].msg, posted[j] = strand'[n].msg
                PROVE  i < j
    BY Zenon, <1>2
  <2>1. /\ m + shift \in Sending /\ posted[i] = strand[m + shift].msg
        /\ n + shift \in Sending /\ posted[j] = strand[n + shift].msg
    BY Zenon, <1>1
  <2>2. m \in Int /\ n \in Int
    BY Zenon, <1>2
  <2>3. m + shift < n + shift
    BY <2>2
  <2>. QED
    BY <2>1, <2>3 DEF Ordered
<1>9. ~Refusing' => \A i \in 1..Len(posted') :
                      Passed' < i => \E n \in Sending' : posted'[i] = strand'[n].msg
  <2>. SUFFICES ASSUME ~Refusing', NEW i \in 1..Len(posted), Passed' < i
                PROVE  \E n \in Sending' : posted[i] = strand'[n].msg
    BY Zenon, <1>2
  <2>1. ~Refusing /\ queue' = queue /\ Passed' = Passed
    BY Zenon, <1>2 DEF Ordinary, Refusing, Passed
  <2>2. PICK n \in Sending : posted[i] = strand[n].msg
    BY Zenon, <2>1 DEF Ordered
  <2>3. n - shift \in Sending' /\ (n - shift) + shift = n
    BY <1>1, <1>2
  <2>. QED
    BY Zenon, <1>1, <2>2, <2>3
<1>. QED
  BY Zenon, <1>6, <1>7, <1>8, <1>9 DEF Ordered
(* Posting a send keeps the order: the message is the last. *)
LEMMA OrderedPost ==
  ASSUME TypeOK, Fresh, Ordered, NEW t \in Threads, PostSend(t)
  PROVE  Ordered'
<1>. DEFINE h == [op |-> "send", msg |-> Message(t)]
            last == Len(posted) + 1
<1>1. /\ strand' = Append(strand, h) /\ posted' = Append(posted, Message(t))
      /\ UNCHANGED <<queue, written, flags>>
  BY Zenon DEF PostSend, Message
<1>2. Message(t) \in Msgs /\ h \in HandlerType /\ h.op = "send" /\ h.msg = Message(t)
  BY Zenon, MessageType DEF HandlerType
<1>3. /\ Len(posted) \in Nat /\ Len(posted') = last
      /\ \A i \in 1..Len(posted) : posted'[i] = posted[i] /\ i \in 1..Len(posted')
      /\ posted'[last] = Message(t) /\ last \in 1..Len(posted')
      /\ \A i \in 1..Len(posted') : i \in 1..Len(posted) \/ i = last
  BY <1>1, <1>2 DEF TypeOK
<1>4. \A i \in 1..Len(posted) : posted[i] # Message(t)
  <2>. SUFFICES ASSUME NEW i \in 1..Len(posted), posted[i] = Message(t) PROVE FALSE
    BY Zenon
  <2>1. posted[i].from = t /\ posted[i].nth = sends[t] /\ sends[t] \in Nat
    BY DEF Message, TypeOK
  <2>2. sender[t].pc # "idle"
    BY Zenon DEF PostSend
  <2>. QED
    BY <2>1, <2>2 DEF Fresh
<1>. HIDE DEF h
<1>5. /\ \A n \in Sending : strand'[n] = strand[n] /\ n \in Sending'
      /\ Len(strand') \in Sending' /\ strand'[Len(strand')].msg = Message(t)
      /\ \A n \in Sending' : n \in Sending \/ n = Len(strand')
      /\ \A n \in Sending : n \in Int /\ n < Len(strand')
      /\ Len(strand') \in Int
  BY <1>1, <1>2, AppendFacts DEF Sending, Handlers
<1>6. Passed' = Passed /\ Passed \in Nat /\ Passed <= Len(posted) /\ Len(written) \in Nat
  BY <1>1 DEF Passed, TypeOK, Ordered
<1>7. Refusing' = Refusing
  BY Zenon, <1>1 DEF Refusing, flags
<1>8. /\ Passed' <= Len(posted')
      /\ \A i \in 1..Len(written') : written'[i] = posted'[i]
      /\ \A i \in 1..Len(queue') : queue'[i] = posted'[Len(written') + i]
  <2>1. written' = written /\ queue' = queue /\ Len(queue) \in Nat
    BY <1>1 DEF TypeOK
  <2>2. \A i \in 1..Len(written) : i \in 1..Len(posted)
    BY <1>3, <1>6, <2>1 DEF Passed
  <2>3. \A i \in 1..Len(queue) : Len(written) + i \in 1..Len(posted)
    BY <1>3, <1>6, <2>1 DEF Passed
  <2>. QED
    BY <1>3, <1>6, <2>1, <2>2, <2>3 DEF Ordered
<1>9. \A n \in Sending' : \E i \in 1..Len(posted') : Passed' < i /\ posted'[i] = strand'[n].msg
  <2>. SUFFICES ASSUME NEW n \in Sending'
                PROVE  \E i \in 1..Len(posted') : Passed < i /\ posted'[i] = strand'[n].msg
    BY Zenon, <1>6
  <2>1. CASE n = Len(strand')
    <3>1. Passed < last
      BY <1>3, <1>6
    <3>. QED
      BY Zenon, <1>3, <1>5, <2>1, <3>1
  <2>2. CASE n \in Sending
    <3>1. PICK i \in 1..Len(posted) : Passed < i /\ posted[i] = strand[n].msg
      BY Zenon, <2>2 DEF Ordered
    <3>. QED
      BY Zenon, <1>3, <1>5, <2>2, <3>1
  <2>. QED
    BY Zenon, <1>5, <2>1, <2>2
<1>10. \A m, n \in Sending', i, j \in 1..Len(posted') :
         m < n /\ posted'[i] = strand'[m].msg /\ posted'[j] = strand'[n].msg => i < j
  <2>. SUFFICES ASSUME NEW m \in Sending', NEW n \in Sending', m < n,
                       NEW i \in 1..Len(posted'), NEW j \in 1..Len(posted'),
                       posted'[i] = strand'[m].msg, posted'[j] = strand'[n].msg
                PROVE  i < j
    BY Zenon
  <2>1. m \in Sending /\ strand'[m] = strand[m]
    BY <1>5
  <2>2. PICK k \in 1..Len(posted) : posted[k] = strand[m].msg
    BY Zenon, <2>1 DEF Ordered
  <2>3. i \in 1..Len(posted) /\ posted[i] = strand[m].msg
    BY Zenon, <1>3, <1>4, <2>1, <2>2
  <2>4. CASE n = Len(strand')
    <3>1. j = last
      BY Zenon, <1>3, <1>4, <1>5, <2>4
    <3>. QED
      BY <1>3, <2>3, <3>1
  <2>5. CASE n \in Sending
    <3>1. strand'[n] = strand[n]
      BY Zenon, <1>5, <2>5
    <3>2. PICK k2 \in 1..Len(posted) : posted[k2] = strand[n].msg
      BY Zenon, <2>5 DEF Ordered
    <3>3. j \in 1..Len(posted) /\ posted[j] = strand[n].msg
      BY Zenon, <1>3, <1>4, <3>1, <3>2
    <3>. QED
      BY Zenon, <2>1, <2>3, <2>5, <3>3 DEF Ordered
  <2>. QED
    BY Zenon, <1>5, <2>4, <2>5
<1>11. ~Refusing' => \A i \in 1..Len(posted') :
                       Passed' < i => \E n \in Sending' : posted'[i] = strand'[n].msg
  <2>. SUFFICES ASSUME ~Refusing, NEW i \in 1..Len(posted'), Passed < i
                PROVE  \E n \in Sending' : posted'[i] = strand'[n].msg
    BY Zenon, <1>6, <1>7
  <2>1. CASE i = last
    BY Zenon, <1>3, <1>5, <2>1
  <2>2. CASE i \in 1..Len(posted)
    <3>1. PICK n \in Sending : posted[i] = strand[n].msg
      BY Zenon, <2>2 DEF Ordered
    <3>. QED
      BY Zenon, <1>3, <1>5, <2>2, <3>1
  <2>. QED
    BY Zenon, <1>3, <2>1, <2>2
<1>. QED
  BY Zenon, <1>8, <1>9, <1>10, <1>11 DEF Ordered
(* The message send_impl() finds is the first that was not passed on: the  *)
(* others are behind it on the strand.                                     *)
LEMMA NextInLine ==
  ASSUME TypeOK, Ordered, ~Refusing, Take({"send"}), strand' = Tail(strand)
  PROVE  Passed + 1 \in 1..Len(posted) /\ posted[Passed + 1] = strand[1].msg
<1>1. 1 \in Sending
  BY Zenon, TakeFacts DEF Sending, Handlers
<1>2. PICK i \in 1..Len(posted) : Passed < i /\ posted[i] = strand[1].msg
  BY Zenon, <1>1 DEF Ordered
<1>3. Len(posted) \in Nat /\ Passed \in Nat
  BY DEF TypeOK, Passed
<1>4. Passed + 1 \in 1..Len(posted)
  BY <1>2, <1>3
<1>5. PICK n \in Sending : posted[Passed + 1] = strand[n].msg
  BY <1>3, <1>4 DEF Ordered
<1>6. n \in Int /\ 1 <= n
  BY DEF Sending, Handlers
<1>7. n = 1
  <2>. SUFFICES ASSUME 1 < n PROVE FALSE
    BY <1>6
  <2>1. i < Passed + 1
    BY <1>1, <1>2, <1>4, <1>5 DEF Ordered
  <2>. QED
    BY <1>2, <1>3, <2>1
<1>. QED
  BY Zenon, <1>4, <1>5, <1>7

(* With a send handler gone the others keep their order. *)
LEMMA SendsBehind ==
  ASSUME TypeOK, Take({"send"}), strand' = Tail(strand)
  PROVE  /\ \A n \in Sending' : /\ n \in Int /\ 1 <= n
                                 /\ n + 1 \in Sending /\ strand'[n].msg = strand[n + 1].msg
         /\ \A n \in Sending : n # 1 => n - 1 \in Sending' /\ (n - 1) + 1 = n
         /\ 1 \in Sending
<1>1. \A n \in Sending' : n \in Int /\ 1 <= n /\ n + 1 \in Sending /\ strand'[n] = strand[n + 1]
  BY TakeFacts DEF Sending, Handlers
<1>2. \A n \in Sending : n # 1 => n - 1 \in Sending' /\ (n - 1) + 1 = n
  <2>. SUFFICES ASSUME NEW n \in Sending, n # 1 PROVE n - 1 \in Sending' /\ (n - 1) + 1 = n
    BY Zenon
  <2>1. n \in 1..Len(strand) /\ n - 1 \in 1..Len(strand')
    BY TakeFacts DEF Sending, Handlers
  <2>. QED
    BY <2>1, TakeFacts DEF Sending, Handlers
<1>3. 1 \in Sending
  BY Zenon, TakeFacts DEF Sending, Handlers
<1>. QED
  BY Zenon, <1>1, <1>2, <1>3

(* Running the first send on the strand keeps the order: the message       *)
(* joins the queue, or nothing is queued any more.                         *)
LEMMA OrderedSend ==
  ASSUME TypeOK, Fresh, Ordered, RunSend
  PROVE  Ordered'
<1>1. /\ Take({"send"}) /\ strand' = Tail(strand) /\ posted' = posted /\ written' = written
      /\ Refusing' = Refusing
  BY Zenon DEF RunSend, Refusing, flags, history
<1>2. /\ \A n \in Sending' : /\ n \in Int /\ 1 <= n
                              /\ n + 1 \in Sending /\ strand'[n].msg = strand[n + 1].msg
      /\ \A n \in Sending : n # 1 => n - 1 \in Sending' /\ (n - 1) + 1 = n
      /\ 1 \in Sending
  BY Zenon, <1>1, SendsBehind
<1>3. Len(posted) \in Nat /\ Len(written) \in Nat /\ Len(queue) \in Nat /\ Passed \in Nat
  BY DEF TypeOK, Passed
<1>4. \A m, n \in Sending', i, j \in 1..Len(posted) :
        m < n /\ posted[i] = strand'[m].msg /\ posted[j] = strand'[n].msg => i < j
  <2>. SUFFICES ASSUME NEW m \in Sending', NEW n \in Sending', m < n,
                       NEW i \in 1..Len(posted), NEW j \in 1..Len(posted),
                       posted[i] = strand'[m].msg, posted[j] = strand'[n].msg
                PROVE  i < j
    BY Zenon
  <2>1. /\ m + 1 \in Sending /\ posted[i] = strand[m + 1].msg
        /\ n + 1 \in Sending /\ posted[j] = strand[n + 1].msg
    BY Zenon, <1>2
  <2>2. m + 1 < n + 1
    BY <1>2
  <2>. QED
    BY <2>1, <2>2 DEF Ordered
<1>5. CASE Refusing
  <2>1. queue' = queue /\ Passed' = Passed
    BY Zenon, <1>1, <1>5 DEF RunSend, Passed
  <2>2. \A n \in Sending' : \E i \in 1..Len(posted) : Passed < i /\ posted[i] = strand'[n].msg
    BY <1>2 DEF Ordered
  <2>. QED
    BY Zenon, <1>1, <1>4, <1>5, <2>1, <2>2 DEF Ordered
<1>6. CASE ~Refusing
  <2>1. queue' = Append(queue, strand[1].msg) /\ strand[1].msg \in Msgs
    <3>1. Head(strand) = strand[1] /\ strand[1] \in HandlerType /\ strand[1].op = "send"
      BY <1>1, TakeFacts
    <3>2. queue' = Append(queue, Head(strand).msg)
      BY Zenon, <1>6 DEF RunSend
    <3>. QED
      BY Zenon, <3>1, <3>2, HandlerFacts
  <2>2. /\ Len(queue') = Len(queue) + 1
        /\ \A i \in 1..Len(queue) : queue'[i] = queue[i]
        /\ queue'[Len(queue) + 1] = strand[1].msg
        /\ \A i \in 1..Len(queue') : i \in 1..Len(queue) \/ i = Len(queue) + 1
    BY <2>1 DEF TypeOK
  <2>3. Passed' = Passed + 1 /\ Passed = Len(written) + Len(queue)
    BY <1>1, <1>3, <2>2 DEF Passed
  <2>4. Passed + 1 \in 1..Len(posted) /\ posted[Passed + 1] = strand[1].msg
    BY Zenon, <1>1, <1>6, NextInLine
  <2>5. \A i \in 1..Len(queue') : queue'[i] = posted[Len(written) + i]
    <3>. SUFFICES ASSUME NEW i \in 1..Len(queue') PROVE queue'[i] = posted[Len(written) + i]
      BY Zenon
    <3>1. CASE i \in 1..Len(queue)
      BY Zenon, <2>2, <3>1 DEF Ordered
    <3>2. CASE i = Len(queue) + 1
      <4>1. Len(written) + i = Passed + 1
        BY <1>3, <2>3, <3>2
      <4>. QED
        BY Zenon, <2>2, <2>4, <3>2, <4>1
    <3>. QED
      BY Zenon, <2>2, <3>1, <3>2
  <2>6. \A n \in Sending' : \E i \in 1..Len(posted) : Passed + 1 < i /\ posted[i] = strand'[n].msg
    <3>. SUFFICES ASSUME NEW n \in Sending'
                  PROVE  \E i \in 1..Len(posted) : Passed + 1 < i /\ posted[i] = strand'[n].msg
      BY Zenon
    <3>1. n + 1 \in Sending /\ strand'[n].msg = strand[n + 1].msg /\ 1 < n + 1
      BY <1>2
    <3>2. PICK i \in 1..Len(posted) : Passed < i /\ posted[i] = strand[n + 1].msg
      BY Zenon, <3>1 DEF Ordered
    <3>3. Passed + 1 < i
      BY <1>2, <2>4, <3>1, <3>2 DEF Ordered
    <3>. QED
      BY Zenon, <3>1, <3>2, <3>3
  <2>7. \A i \in 1..Len(posted) :
          Passed + 1 < i => \E n \in Sending' : posted[i] = strand'[n].msg
    <3>. SUFFICES ASSUME NEW i \in 1..Len(posted), Passed + 1 < i
                  PROVE  \E n \in Sending' : posted[i] = strand'[n].msg
      BY Zenon
    <3>1. Passed < i
      BY <1>3
    <3>2. PICK n \in Sending : posted[i] = strand[n].msg
      BY Zenon, <1>6, <3>1 DEF Ordered
    <3>3. n # 1
      <4>. SUFFICES ASSUME n = 1 PROVE FALSE
        BY Zenon
      <4>1. posted[i] = posted[Passed + 1]
        BY Zenon, <2>4, <3>2
      <4>2. i = Passed + 1
        BY Zenon, <2>4, <4>1 DEF Fresh
      <4>. QED
        BY <1>3, <4>2
    <3>. QED
      BY <1>2, <3>2, <3>3
  <2>8. Passed' <= Len(posted)
    BY <1>3, <2>3, <2>4
  <2>. QED
    BY Zenon, <1>1, <1>4, <2>3, <2>5, <2>6, <2>7, <2>8 DEF Ordered
<1>. QED
  BY Zenon, <1>5, <1>6

(* A completed write keeps the order: the front of the queue has been      *)
(* written.                                                                *)
LEMMA OrderedWrote ==
  ASSUME TypeOK, OneOutstanding, Ordered, RunWrote, ~closed
  PROVE  Ordered'
<1>1. /\ Take({"wrote"}) /\ strand' = Tail(strand) /\ posted' = posted
      /\ written' = Append(written, Head(queue)) /\ queue' = Tail(queue)
      /\ Refusing => Refusing'
  BY Zenon DEF RunWrote, Refusing, ShutdownSend
<1>2. queue \in Seq(Msgs) /\ queue # <<>> /\ written \in Seq(Msgs)
  BY Zenon, <1>1, QueuedWhenWrote DEF TypeOK
<1>3. /\ Len(queue) \in Nat /\ Len(written) \in Nat /\ Len(posted) \in Nat
      /\ Len(queue') = Len(queue) - 1 /\ Len(queue) >= 1 /\ Head(queue) = queue[1]
      /\ \A i \in 1..Len(queue') : queue'[i] = queue[i + 1] /\ i + 1 \in 1..Len(queue)
      /\ Len(written') = Len(written) + 1
      /\ \A i \in 1..Len(written) : written'[i] = written[i]
      /\ written'[Len(written) + 1] = queue[1]
      /\ \A i \in 1..Len(written') : i \in 1..Len(written) \/ i = Len(written) + 1
  BY <1>1, <1>2, HeadTailProperties DEF TypeOK
<1>4. Passed' = Passed /\ Passed \in Nat
  BY <1>3 DEF Passed
<1>5. \A i \in 1..Len(written') : written'[i] = posted[i]
  BY <1>3 DEF Ordered
<1>6. \A i \in 1..Len(queue') : queue'[i] = posted[Len(written') + i]
  <2>. SUFFICES ASSUME NEW i \in 1..Len(queue') PROVE queue'[i] = posted[Len(written') + i]
    BY Zenon
  <2>1. queue[i + 1] = posted[Len(written) + (i + 1)]
    BY Zenon, <1>3 DEF Ordered
  <2>2. Len(written) + (i + 1) = Len(written') + i
    BY <1>3
  <2>. QED
    BY Zenon, <1>3, <2>1, <2>2
<1>7. Leaves
  BY Zenon, <1>1 DEF Leaves, Take, Kinds
<1>8. PICK shift \in {0, 1} :
        /\ \A n \in Sending' : n + shift \in Sending /\ strand'[n].msg = strand[n + shift].msg
        /\ \A n \in Sending : n - shift \in Sending'
  BY Zenon, <1>7, OthersKeepSends DEF OthersMove, SameSends
<1>9. Sending \subseteq Int /\ Sending' \subseteq Int
  BY DEF Sending, Handlers
<1>10. \A n \in Sending' : \E i \in 1..Len(posted) : Passed < i /\ posted[i] = strand'[n].msg
  <2>1. \A n \in Sending : \E i \in 1..Len(posted) : Passed < i /\ posted[i] = strand[n].msg
    BY Zenon DEF Ordered
  <2>. QED
    BY Zenon, <1>8, <2>1
<1>11. \A m, n \in Sending', i, j \in 1..Len(posted) :
         m < n /\ posted[i] = strand'[m].msg /\ posted[j] = strand'[n].msg => i < j
  <2>. SUFFICES ASSUME NEW m \in Sending', NEW n \in Sending', m < n,
                       NEW i \in 1..Len(posted), NEW j \in 1..Len(posted),
                       posted[i] = strand'[m].msg, posted[j] = strand'[n].msg
                PROVE  i < j
    BY Zenon
  <2>1. /\ m + shift \in Sending /\ posted[i] = strand[m + shift].msg
        /\ n + shift \in Sending /\ posted[j] = strand[n + shift].msg
    BY Zenon, <1>8
  <2>2. m \in Int /\ n \in Int
    BY Zenon, <1>9
  <2>3. m + shift < n + shift
    BY <2>2
  <2>. QED
    BY <2>1, <2>3 DEF Ordered
<1>12. ~Refusing' => \A i \in 1..Len(posted) :
                       Passed < i => \E n \in Sending' : posted[i] = strand'[n].msg
  <2>. SUFFICES ASSUME ~Refusing', NEW i \in 1..Len(posted), Passed < i
                PROVE  \E n \in Sending' : posted[i] = strand'[n].msg
    BY Zenon
  <2>1. PICK n \in Sending : posted[i] = strand[n].msg
    BY Zenon, <1>1 DEF Ordered
  <2>2. n - shift \in Sending' /\ (n - shift) + shift = n
    BY <1>8, <1>9
  <2>. QED
    BY Zenon, <1>8, <2>1, <2>2
<1>13. Passed' <= Len(posted')
  BY Zenon, <1>1, <1>4 DEF Ordered
<1>. QED
  BY Zenon, <1>1, <1>4, <1>5, <1>6, <1>10, <1>11, <1>12, <1>13 DEF Ordered

(* Every step keeps the order of the messages. *)
LEMMA OrderedStep ==
  ASSUME TypeOK, Fresh, OneOutstanding, Ordered, [Next]_vars
  PROVE  Ordered'
BY Zenon, StepKinds, OrderedOrdinary, OrderedPost, OrderedSend, OrderedWrote
-----------------------------------------------------------------------------
(* One write at a time *)

DoneOps == {"wrote", "writeError"}

(* A handler of another operation joins the strand, leaves it or neither.  *)
DoneStay ==
  \/ UNCHANGED strand
  \/ \E h \in HandlerType : h.op \notin DoneOps /\ strand' = Append(strand, h)
  \/ Take((Kinds \cup {"send"}) \ DoneOps) /\ strand' = Tail(strand)

(* The completions of writes on the strand, when it only gains or loses    *)
(* other handlers.                                                         *)
LEMMA DoneKept ==
  ASSUME TypeOK, DoneStay
  PROVE  /\ Done' = {} <=> Done = {}
         /\ (\A m, n \in Done : m = n) => (\A m, n \in Done' : m = n)
<1>1. CASE UNCHANGED strand
  BY Zenon, <1>1 DEF Done, Handlers
<1>2. ASSUME NEW h \in HandlerType, h.op \notin DoneOps, strand' = Append(strand, h)
      PROVE  Done' = Done
  BY Zenon, <1>2, AppendFacts DEF Done, Handlers, DoneOps
<1>3. ASSUME Take((Kinds \cup {"send"}) \ DoneOps), strand' = Tail(strand)
      PROVE  /\ \A n \in Done' : n \in Int /\ n + 1 \in Done
             /\ \A n \in Done : n - 1 \in Done'
  <2>1. \A n \in Done' : n \in Int /\ n + 1 \in Done
    BY <1>3, TakeFacts DEF Done, Handlers
  <2>2. strand[1].op \notin DoneOps
    BY <1>3, TakeFacts
  <2>3. ASSUME NEW n \in Done PROVE n - 1 \in Done'
    <3>1. n \in 1..Len(strand) /\ n # 1
      BY Zenon, <2>2 DEF Done, Handlers, DoneOps
    <3>2. n - 1 \in 1..Len(strand') /\ strand'[n - 1] = strand[n]
      BY <1>3, <3>1, TakeFacts
    <3>. QED
      BY Zenon, <3>2 DEF Done, Handlers
  <2>. QED
    BY Zenon, <2>1, <2>3
<1>. QED
  BY <1>1, <1>2, <1>3 DEF DoneStay

(* The completion handler on the strand is the only one. *)
LEMMA DoneTaken ==
  ASSUME TypeOK, OneOutstanding, NEW kinds, kinds \subseteq DoneOps,
         Take(kinds), strand' = Tail(strand)
  PROVE  Done' = {} /\ writeOps = 0
<1>1. 1 \in Done
  BY Zenon, TakeFacts DEF Done, Handlers, DoneOps
<1>2. writeOps = 0
  BY <1>1 DEF OneOutstanding, TypeOK
<1>3. ASSUME NEW n \in Done' PROVE FALSE
  <2>1. n \in Int /\ 1 <= n /\ n + 1 \in Done
    BY TakeFacts DEF Done, Handlers
  <2>. QED
    BY <1>1, <2>1 DEF OneOutstanding
<1>. QED
  BY Zenon, <1>2, <1>3

(* Every step keeps at most one write outstanding. *)
LEMMA OneOutstandingStep ==
  ASSUME TypeOK, OneOutstanding, [Next]_vars
  PROVE  OneOutstanding'
<1>. USE DEF flags, ops, history
<1>. DEFINE Apart == /\ DoneStay /\ writeOps' = writeOps
                     /\ closed' \/ (queue' = queue /\ closed' = closed)
<1>1. ASSUME Apart PROVE OneOutstanding'
  BY <1>1, DoneKept DEF OneOutstanding
<1>2. ASSUME NEW t \in Threads, NEW size \in Sizes, Send(t, size) PROVE Apart
  BY Zenon, <1>2 DEF Send, DoneStay
<1>3. ASSUME NEW t \in Threads, Sender(t) PROVE Apart
  <2>1. CASE LoadPending(t) \/ Reserve(t) \/ ReserveRetry(t) \/ ReserveRefused(t)
             \/ Recheck(t) \/ Withdraw(t) \/ Overflow(t)
    BY Zenon, <2>1 DEF LoadPending, Reserve, ReserveRetry, ReserveRefused, Recheck, Withdraw, Overflow,
                DoneStay
  <2>2. CASE PostSend(t)
    <3>1. [op |-> "send", msg |-> Message(t)] \in HandlerType
      BY Zenon, MessageType DEF HandlerType
    <3>. QED
      BY Zenon, <2>2, <3>1 DEF PostSend, DoneStay, DoneOps, Message
  <2>3. CASE StopOverflowed(t)
    <3>1. [op |-> "force"] \in HandlerType
      BY Zenon, OtherHandler DEF Kinds
    <3>2. DoneStay
      BY Zenon, <2>3, <3>1 DEF StopOverflowed, DoneStay, DoneOps
    <3>. QED
      BY Zenon, <2>3, <3>2 DEF StopOverflowed, KeepOpen, FinishClose
  <2>. QED
    BY Zenon, <1>3, <2>1, <2>2, <2>3 DEF Sender
<1>4. ASSUME NEW kind \in {"stop", "force"}, Stop(kind) PROVE Apart
  <2>1. [op |-> kind] \in HandlerType
    BY Zenon, OtherHandler DEF Kinds
  <2>. QED
    BY Zenon, <1>4, <2>1 DEF Stop, DoneStay, DoneOps
<1>5. ASSUME RunClose \/ RunStop \/ RunStart \/ RunData PROVE Apart
  <2>1. DoneStay
    BY Zenon, <1>5 DEF RunClose, RunStop, RunStart, RunData, DoneStay, DoneOps, Take, Kinds
  <2>. QED
    BY Zenon, <1>5, <2>1 DEF RunClose, RunStop, RunStart, RunData, FinishClose, KeepOpen, ShutdownSend
<1>6. CASE RunSend
  <2>1. DoneStay
    BY Zenon, <1>6 DEF RunSend, DoneStay, DoneOps, Take, Kinds
  <2>2. CASE Refusing
    BY Zenon, <1>1, <1>6, <2>1, <2>2 DEF RunSend
  <2>3. CASE ~Refusing
    <3>1. queue' # <<>> /\ closed' = closed /\ ~closed
      BY <1>6, <2>3, TakeFacts, HandlerFacts DEF RunSend, Refusing, TypeOK
    <3>2. writeOps' = IF queue = <<>> THEN writeOps + 1 ELSE writeOps
      BY Zenon, <1>6, <2>3 DEF RunSend
    <3>3. Done' = {} <=> Done = {}
      BY Zenon, <2>1, DoneKept
    <3>. QED
      BY <2>1, <3>1, <3>2, <3>3, DoneKept DEF OneOutstanding, TypeOK
  <2>. QED
    BY Zenon, <2>2, <2>3
<1>7. CASE RunWrote
  <2>1. Take({"wrote"}) /\ strand' = Tail(strand)
    BY Zenon, <1>7 DEF RunWrote
  <2>2. Done' = {} /\ writeOps = 0
    BY Zenon, <2>1, DoneTaken DEF DoneOps
  <2>3. CASE closed
    BY Zenon, <1>7, <2>2, <2>3 DEF RunWrote, KeepOpen, OneOutstanding
  <2>4. CASE ~closed
    <3>1. queue \in Seq(Msgs) /\ queue # <<>>
      BY Zenon, <2>1, <2>4, QueuedWhenWrote DEF TypeOK
    <3>2. queue' = Tail(queue) /\ writeOps' = IF Len(queue) = 1 THEN 0 ELSE 1
      BY <1>7, <2>2, <2>4 DEF RunWrote
    <3>3. queue' = <<>> <=> Len(queue) = 1
      <4>1. queue' \in Seq(Msgs) /\ Len(queue') = Len(queue) - 1 /\ Len(queue) \in Nat
        BY <3>1, <3>2, HeadTailProperties
      <4>2. queue' = <<>> <=> Len(queue') = 0
        BY Zenon, <4>1, EmptySeq
      <4>. QED
        BY <4>1, <4>2
    <3>. QED
      BY <2>2, <3>2, <3>3 DEF OneOutstanding
  <2>. QED
    BY Zenon, <2>3, <2>4
<1>8. CASE RunWriteError
  <2>1. Take({"writeError"}) /\ strand' = Tail(strand)
    BY Zenon, <1>8 DEF RunWriteError
  <2>2. Done' = {} /\ writeOps = 0
    BY Zenon, <2>1, DoneTaken DEF DoneOps
  <2>3. writeOps' = writeOps /\ closed'
    BY Zenon, <1>8 DEF RunWriteError, KeepOpen, FinishClose
  <2>. QED
    BY Zenon, <2>2, <2>3 DEF OneOutstanding
<1>9. ASSUME ReadNext PROVE Apart
  <2>1. [op |-> "start"] \in HandlerType
    BY Zenon, OtherHandler DEF Kinds
  <2>. QED
    BY Zenon, <1>9, <2>1 DEF ReadNext, DoneStay, DoneOps
<1>10. ASSUME ReadInvalid PROVE Apart
  BY Zenon, <1>10 DEF ReadInvalid, DoneStay, FinishClose
<1>11. ASSUME NEW result \in {"wrote", "writeError"}, WriteDone(result) PROVE OneOutstanding'
  <2>1. [op |-> result] \in HandlerType /\ strand' = Append(strand, [op |-> result])
    BY Zenon, <1>11, OtherHandler DEF Kinds, WriteDone
  <2>2. writeOps = 1 /\ writeOps' = 0 /\ Done = {} /\ queue' = queue /\ closed' = closed
    BY <1>11 DEF WriteDone, OneOutstanding, TypeOK
  <2>3. Done' = {Len(strand')}
    BY <2>1, <2>2, AppendFacts DEF Done, Handlers
  <2>. QED
    BY <2>2, <2>3 DEF OneOutstanding
<1>12. ASSUME NEW result \in {"data", "eof", "abort"}, ReadDone(result) PROVE Apart
  <2>1. [op |-> result] \in HandlerType
    BY Zenon, OtherHandler DEF Kinds
  <2>. QED
    BY Zenon, <1>12, <2>1 DEF ReadDone, DoneStay, DoneOps
<1>13. ASSUME UNCHANGED vars PROVE Apart
  BY Zenon, <1>13 DEF vars, DoneStay
<1>. HIDE DEF Apart
<1>. QED
  BY Zenon, <1>1, <1>2, <1>3, <1>4, <1>5, <1>6, <1>7, <1>8, <1>9, <1>10, <1>11, <1>12, <1>13
     DEF Next, Strand, Kernel, Rest
-----------------------------------------------------------------------------
(* Bytes *)

Reserved == {Message(t) : t \in Reserving}
SendMsgs == {strand[n].msg : n \in Sending}

(* What is not sent yet is reserved, posted or queued. *)
LEMMA UnsentParts ==
  /\ Unsent = Reserved \cup SendMsgs \cup Range(queue)
  /\ Unsent' = Reserved' \cup SendMsgs' \cup Range(queue')
BY Zenon DEF Unsent, Reserved, SendMsgs, Sending, Range

(* All of it are messages. *)
LEMMA UnsentTypes ==
  ASSUME TypeOK
  PROVE  Reserved \subseteq Msgs /\ SendMsgs \subseteq Msgs /\ Range(queue) \subseteq Msgs
<1>1. Reserved \subseteq Msgs
  BY Zenon, MessageType DEF Reserved, Reserving
<1>2. SendMsgs \subseteq Msgs
  <2>. SUFFICES ASSUME NEW n \in Sending PROVE strand[n].msg \in Msgs
    BY Zenon DEF SendMsgs
  <2>1. strand[n] \in HandlerType /\ strand[n].op = "send"
    BY DEF Sending, Handlers, TypeOK
  <2>. QED
    BY Zenon, <2>1, HandlerFacts
<1>3. Range(queue) \subseteq Msgs
  BY DEF Range, TypeOK
<1>. QED
  BY Zenon, <1>1, <1>2, <1>3

(* A message is reserved for, queued or on the strand, and in one place.   *)
LEMMA Whereabouts ==
  ASSUME TypeOK, Fresh, Ordered
  PROVE  /\ \A m \in SendMsgs : \E i \in 1..Len(posted) : Passed < i /\ posted[i] = m
         /\ \A m \in Range(queue) : \E i \in 1..Len(posted) : i <= Passed /\ posted[i] = m
         /\ \A m \in Reserved, i \in 1..Len(posted) :
              ~(posted[i].from = m.from /\ posted[i].nth = m.nth)
         /\ \A m, w \in Reserved : m.from = w.from => m = w
<1>1. \A m \in SendMsgs : \E i \in 1..Len(posted) : Passed < i /\ posted[i] = m
  BY DEF SendMsgs, Ordered
<1>2. ASSUME NEW k \in 1..Len(queue)
      PROVE  /\ Len(written) + k \in 1..Len(posted) /\ Len(written) + k <= Passed
             /\ posted[Len(written) + k] = queue[k]
  BY DEF Ordered, Passed, TypeOK
<1>3. \A m \in Range(queue) : \E i \in 1..Len(posted) : i <= Passed /\ posted[i] = m
  <2>1. \A m \in Range(queue) : \E k \in 1..Len(queue) : m = queue[k]
    BY DEF Range, TypeOK
  <2>. QED
    BY Zenon, <1>2, <2>1
<1>4. ASSUME NEW t \in Reserving, NEW i \in 1..Len(posted),
             posted[i].from = t, posted[i].nth = sends[t]
      PROVE  FALSE
  <2>1. sender[t].pc # "idle" /\ sends[t] \in Nat
    BY Zenon DEF Reserving, TypeOK
  <2>. QED
    BY <1>4, <2>1 DEF Fresh
<1>5. \A m \in Reserved : \E t \in Reserving : m = Message(t) /\ m.from = t /\ m.nth = sends[t]
  BY DEF Reserved, Message
<1>. QED
  BY <1>1, <1>3, <1>4, <1>5

(* No two messages that are not sent yet have the same sender and number. *)
LEMMA UnsentIdentified ==
  ASSUME TypeOK, Fresh, Ordered
  PROVE  Identified(Unsent)
<1>1. ASSUME NEW m \in SendMsgs \cup Range(queue), NEW w \in SendMsgs \cup Range(queue),
             m.from = w.from, m.nth = w.nth
      PROVE  m = w
  <2>1. PICK i \in 1..Len(posted) : posted[i] = m
    BY Zenon, Whereabouts
  <2>2. PICK j \in 1..Len(posted) : posted[j] = w
    BY Zenon, Whereabouts
  <2>. QED
    BY Zenon, <1>1, <2>1, <2>2 DEF Fresh
<1>2. ASSUME NEW m \in SendMsgs \cup Range(queue), NEW w \in Reserved,
             m.from = w.from, m.nth = w.nth
      PROVE  FALSE
  <2>1. PICK i \in 1..Len(posted) : posted[i] = m
    BY Zenon, Whereabouts
  <2>. QED
    BY Zenon, <1>2, <2>1, Whereabouts
<1>. QED
  BY <1>1, <1>2, UnsentParts, Whereabouts DEF Identified

(* No two places of the queue hold the same message. *)
LEMMA QueueIdentified ==
  ASSUME TypeOK, Fresh, Ordered
  PROVE  \A i, j \in 1..Len(queue) :
           queue[i].from = queue[j].from /\ queue[i].nth = queue[j].nth => i = j
<1>1. ASSUME NEW k \in 1..Len(queue)
      PROVE  Len(written) + k \in 1..Len(posted) /\ posted[Len(written) + k] = queue[k]
  BY DEF Ordered, Passed, TypeOK
<1>. SUFFICES ASSUME NEW i \in 1..Len(queue), NEW j \in 1..Len(queue),
                     queue[i].from = queue[j].from, queue[i].nth = queue[j].nth
              PROVE  i = j
  BY Zenon
<1>2. /\ Len(written) + i \in 1..Len(posted) /\ posted[Len(written) + i] = queue[i]
      /\ Len(written) + j \in 1..Len(posted) /\ posted[Len(written) + j] = queue[j]
  BY Zenon, <1>1
<1>3. Len(written) + i = Len(written) + j
  BY Zenon, <1>2 DEF Fresh
<1>. QED
  BY <1>3 DEF TypeOK

(* Handlers other than those of sends leave the posted messages alone. *)
LEMMA SendMsgsKept ==
  ASSUME TypeOK, OthersMove
  PROVE  SendMsgs' = SendMsgs
<1>1. PICK shift \in {0, 1} :
        /\ \A n \in Sending' : n + shift \in Sending /\ strand'[n].msg = strand[n + shift].msg
        /\ \A n \in Sending : n - shift \in Sending'
  BY Zenon, OthersKeepSends DEF SameSends
<1>2. SendMsgs' \subseteq SendMsgs
  BY <1>1 DEF SendMsgs
<1>3. ASSUME NEW n \in Sending PROVE strand[n].msg \in SendMsgs'
  <2>1. n \in Int
    BY DEF Sending, Handlers
  <2>2. n - shift \in Sending' /\ (n - shift) + shift = n
    BY <1>1, <2>1
  <2>3. strand'[n - shift].msg = strand[n].msg
    BY Zenon, <1>1, <2>2
  <2>. QED
    BY Zenon, <2>2, <2>3 DEF SendMsgs
<1>. QED
  BY Zenon, <1>2, <1>3 DEF SendMsgs
(* What is reserved depends only on the threads inside send(). *)
LEMMA ReservedKept ==
  ASSUME \A t \in Threads : /\ t \in Reserving' <=> t \in Reserving
                            /\ t \in Reserving => Message(t)' = Message(t)
  PROVE  Reserved' = Reserved
BY Zenon DEF Reserved, Reserving

(* Four ways to move bytes: none, a new reservation, a message let go, and *)
(* the whole queue dropped.                                                *)
LEMMA AccountedKept ==
  ASSUME Accounted, Unsent' = Unsent, pending' = pending
  PROVE  Accounted'
BY Zenon DEF Accounted, Owed, Octets

(* A reservation adds its bytes to the counter and to what is owed. *)
LEMMA AccountedAdd ==
  ASSUME TypeOK, Accounted, NEW m \in Msgs, Unsent' = Unsent \cup {m},
         \A w \in Unsent : ~(w.from = m.from /\ w.nth = m.nth),
         pending' = pending + m.size, pending' <= Limit
  PROVE  Accounted'
<1>1. Owed = OctetsOf(Unsent) /\ Owed' = OctetsOf(Unsent')
  BY Zenon DEF Owed, OctetsOf, Octets
<1>2. Unsent \in SUBSET Msgs
  BY Zenon, UnsentParts, UnsentTypes
<1>. QED
  BY Zenon, <1>1, <1>2, AddMessage DEF Accounted

(* A message that is written, refused or discarded takes its bytes from    *)
(* both.                                                                   *)
LEMMA AccountedDrop ==
  ASSUME TypeOK, Fresh, Ordered, Accounted, NEW m \in Unsent, Unsent' = Unsent \ {m},
         pending' = pending - m.size
  PROVE  Accounted'
<1>1. Owed = OctetsOf(Unsent) /\ Owed' = OctetsOf(Unsent')
  BY Zenon DEF Owed, OctetsOf, Octets
<1>2. Unsent \in SUBSET Msgs /\ Identified(Unsent)
  BY Zenon, UnsentParts, UnsentTypes, UnsentIdentified
<1>3. IsFiniteSet(Owed') /\ Cardinality(Owed') = Cardinality(Owed) - m.size
  BY Zenon, <1>1, <1>2, DropMessage DEF Accounted
<1>4. m.size \in Nat /\ Cardinality(Owed) \in Nat /\ Limit \in Nat
  BY Zenon, <1>2, FS_CardinalityType, TcpAssumption DEF Accounted, Msgs
<1>5. pending' <= Limit
  BY <1>4 DEF Accounted
<1>. QED
  BY Zenon, <1>3, <1>5 DEF Accounted

(* finish_close() takes the queue from both. *)
LEMMA AccountedClose ==
  ASSUME TypeOK, Fresh, Ordered, Accounted, FinishClose, OthersMove, Reserved' = Reserved
  PROVE  Accounted'
<1>1. Owed = OctetsOf(Unsent) /\ Owed' = OctetsOf(Unsent')
  BY Zenon DEF Owed, OctetsOf, Octets
<1>2. Unsent \in SUBSET Msgs /\ Identified(Unsent) /\ Range(queue) \in SUBSET Unsent
  BY Zenon, UnsentParts, UnsentTypes, UnsentIdentified
<1>3. Range(queue') = {} /\ SendMsgs' = SendMsgs
  BY SendMsgsKept DEF FinishClose, Range
<1>4. ASSUME NEW m \in Range(queue) PROVE m \notin Reserved /\ m \notin SendMsgs
  <2>1. PICK i \in 1..Len(posted) : i <= Passed /\ posted[i] = m
    BY Zenon, Whereabouts
  <2>2. m \notin Reserved
    BY Zenon, <2>1, Whereabouts
  <2>3. ASSUME m \in SendMsgs PROVE FALSE
    <3>1. PICK j \in 1..Len(posted) : Passed < j /\ posted[j] = m
      BY Zenon, <2>3, Whereabouts
    <3>2. i = j
      BY Zenon, <2>1, <3>1 DEF Fresh
    <3>. QED
      BY <2>1, <3>1, <3>2 DEF Passed, TypeOK
  <2>. QED
    BY Zenon, <2>2, <2>3
<1>5. Unsent' = Unsent \ Range(queue)
  BY Zenon, <1>3, <1>4, UnsentParts
<1>6. /\ IsFiniteSet(Owed')
      /\ Cardinality(Owed') = Cardinality(Owed) - Cardinality(OctetsOf(Range(queue)))
  BY Zenon, <1>1, <1>2, <1>5, DropMessages DEF Accounted
<1>7. IsFiniteSet(OctetsOf(Range(queue)))
  <2>1. OctetsOf(Range(queue)) \in SUBSET OctetsOf(Unsent)
    BY Zenon, <1>2 DEF OctetsOf
  <2>. QED
    BY Zenon, <1>1, <2>1, FS_Subset DEF Accounted
<1>8. Bytes(queue) = Cardinality(OctetsOf(Range(queue)))
  BY Zenon, <1>7, QueueBytes, QueueIdentified DEF TypeOK
<1>9. pending' = pending - Bytes(queue)
  BY Zenon DEF FinishClose
<1>10. /\ Cardinality(Owed) \in Nat /\ Cardinality(OctetsOf(Range(queue))) \in Nat
       /\ Limit \in Nat
  BY Zenon, <1>7, FS_CardinalityType, TcpAssumption DEF Accounted
<1>11. pending' <= Limit
  BY <1>8, <1>9, <1>10 DEF Accounted
<1>. QED
  BY Zenon, <1>6, <1>8, <1>9, <1>11 DEF Accounted
(* The steps inside send() keep the account. *)
LEMMA AccountedSender ==
  ASSUME TypeOK, Fresh, Ordered, Accounted, NEW t \in Threads, Sender(t)
  PROVE  Accounted'
<1>. USE DEF flags, ops, history
<1>1. ASSUME UNCHANGED <<strand, queue, pending, sends>>,
             \A u \in Threads \ {t} : sender'[u] = sender[u],
             t \in Reserving' <=> t \in Reserving, sender'[t].size = sender[t].size
      PROVE  Accounted'
  <2>1. Reserved' = Reserved
    BY Zenon, <1>1, ReservedKept DEF Message, Reserving
  <2>2. SendMsgs' = SendMsgs /\ Range(queue') = Range(queue)
    BY Zenon, <1>1 DEF SendMsgs, Sending, Handlers, Range
  <2>. QED
    BY Zenon, <1>1, <2>1, <2>2, UnsentParts, AccountedKept
<1>2. CASE LoadPending(t)
  BY Zenon, <1>1, <1>2 DEF LoadPending, Reserving, TypeOK
<1>3. CASE ReserveRetry(t)
  BY Zenon, <1>1, <1>3 DEF ReserveRetry, Reserving, TypeOK
<1>4. CASE ReserveRefused(t)
  BY Zenon, <1>1, <1>4 DEF ReserveRefused, Goto, Reserving, TypeOK
<1>5. CASE Recheck(t)
  BY Zenon, <1>1, <1>5 DEF Recheck, Goto, Reserving, TypeOK
<1>6. CASE Reserve(t)
  <2>1. /\ UNCHANGED <<strand, queue, sends>> /\ \A u \in Threads \ {t} : sender'[u] = sender[u]
        /\ t \notin Reserving /\ t \in Reserving' /\ sender'[t].size = sender[t].size
        /\ pending' = pending + sender[t].size
    BY Zenon, <1>6 DEF Reserve, Goto, Reserving, TypeOK
  <2>2. Reserved' = Reserved \cup {Message(t)}
    <3>1. Message(t)' = Message(t) /\ \A u \in Threads \ {t} : Message(u)' = Message(u)
      BY Zenon, <2>1 DEF Message
    <3>2. Reserving' = Reserving \cup {t}
      BY Zenon, <2>1 DEF Reserving
    <3>. QED
      BY Zenon, <3>1, <3>2 DEF Reserved, Reserving
  <2>3. SendMsgs' = SendMsgs /\ Range(queue') = Range(queue)
    BY Zenon, <2>1 DEF SendMsgs, Sending, Handlers, Range
  <2>4. Unsent' = Unsent \cup {Message(t)}
    BY Zenon, <2>2, <2>3, UnsentParts
  <2>5. Message(t) \in Msgs /\ Message(t).size = sender[t].size
        /\ Message(t).from = t /\ Message(t).nth = sends[t]
    BY Zenon, MessageType DEF Message
  <2>6. ASSUME NEW w \in Unsent, w.from = t, w.nth = sends[t] PROVE FALSE
    <3>1. CASE w \in Reserved
      BY <2>1, <2>6, <3>1 DEF Reserved, Message
    <3>2. CASE w \in SendMsgs \cup Range(queue)
      <4>1. PICK i \in 1..Len(posted) : posted[i] = w
        BY Zenon, <3>2, Whereabouts
      <4>2. sender[t].pc # "idle" /\ sends[t] \in Nat
        BY Zenon, <1>6 DEF Reserve, TypeOK
      <4>. QED
        BY <2>6, <4>1, <4>2 DEF Fresh
    <3>. QED
      BY Zenon, <3>1, <3>2, UnsentParts
  <2>7. pending' <= Limit
    <3>1. pending <= Limit - sender[t].size /\ pending \in Nat /\ sender[t].size \in Nat
      BY Zenon, <1>6, FS_CardinalityType DEF Reserve, Fits, Accounted, TypeOK
    <3>. QED
      BY <2>1, <3>1, TcpAssumption
  <2>. QED
    BY Zenon, <2>1, <2>4, <2>5, <2>6, <2>7, AccountedAdd
<1>7. CASE Withdraw(t)
  <2>1. /\ UNCHANGED <<strand, queue, sends>> /\ \A u \in Threads \ {t} : sender'[u] = sender[u]
        /\ t \in Reserving /\ t \notin Reserving' /\ pending' = pending - sender[t].size
    BY Zenon, <1>7 DEF Withdraw, Goto, Reserving, TypeOK
  <2>2. Reserved' = Reserved \ {Message(t)} /\ Message(t) \in Reserved
    <3>1. \A u \in Threads \ {t} : Message(u)' = Message(u) /\ Message(u) # Message(t)
      BY Zenon, <2>1 DEF Message
    <3>2. Reserving' = Reserving \ {t}
      BY Zenon, <2>1 DEF Reserving
    <3>. QED
      BY <2>1, <3>1, <3>2 DEF Reserved, Reserving
  <2>3. SendMsgs' = SendMsgs /\ Range(queue') = Range(queue)
    BY Zenon, <2>1 DEF SendMsgs, Sending, Handlers, Range
  <2>4. Message(t) \notin SendMsgs /\ Message(t) \notin Range(queue)
    BY Zenon, <2>2, Whereabouts
  <2>5. Unsent' = Unsent \ {Message(t)} /\ Message(t) \in Unsent
    BY Zenon, <2>2, <2>3, <2>4, UnsentParts
  <2>6. Message(t).size = sender[t].size
    BY Zenon DEF Message
  <2>. QED
    BY Zenon, <2>1, <2>5, <2>6, AccountedDrop
<1>8. CASE PostSend(t)
  <2>1. /\ strand' = Append(strand, [op |-> "send", msg |-> Message(t)])
        /\ UNCHANGED <<queue, pending, sends>> /\ \A u \in Threads \ {t} : sender'[u] = sender[u]
        /\ t \in Reserving /\ t \notin Reserving'
    BY Zenon, <1>8 DEF PostSend, Message, Reserving, TypeOK, Quiet
  <2>2. Reserved' = Reserved \ {Message(t)} /\ Message(t) \in Reserved
    <3>1. \A u \in Threads \ {t} : Message(u)' = Message(u) /\ Message(u) # Message(t)
      BY Zenon, <2>1 DEF Message
    <3>2. Reserving' = Reserving \ {t}
      BY Zenon, <2>1 DEF Reserving
    <3>. QED
      BY <2>1, <3>1, <3>2 DEF Reserved, Reserving
  <2>3. SendMsgs' = SendMsgs \cup {Message(t)}
    <3>1. [op |-> "send", msg |-> Message(t)] \in HandlerType
      BY Zenon, MessageType DEF HandlerType
    <3>2. /\ \A n \in Sending : strand'[n] = strand[n] /\ n \in Sending'
          /\ Len(strand') \in Sending' /\ strand'[Len(strand')].msg = Message(t)
          /\ \A n \in Sending' : n \in Sending \/ n = Len(strand')
      BY <2>1, <3>1, AppendFacts DEF Sending, Handlers
    <3>. QED
      BY Zenon, <3>2 DEF SendMsgs
  <2>4. Unsent' = Unsent
    BY Zenon, <2>1, <2>2, <2>3, UnsentParts
  <2>. QED
    BY Zenon, <2>1, <2>4, AccountedKept
<1>9. ASSUME UNCHANGED sends, \A u \in Threads \ {t} : sender'[u] = sender[u],
             t \notin Reserving, t \notin Reserving'
      PROVE  Reserved' = Reserved
  BY Zenon, <1>9, ReservedKept DEF Message, Reserving
<1>10. CASE Overflow(t)
  <2>1. Reserved' = Reserved /\ UNCHANGED <<strand, queue, pending>>
    BY Zenon, <1>9, <1>10 DEF Overflow, Reserving, TypeOK, Quiet
  <2>2. SendMsgs' = SendMsgs /\ Range(queue') = Range(queue)
    BY Zenon, <2>1 DEF SendMsgs, Sending, Handlers, Range
  <2>. QED
    BY Zenon, <2>1, <2>2, UnsentParts, AccountedKept
<1>11. CASE StopOverflowed(t)
  <2>1. Reserved' = Reserved
    BY Zenon, <1>9, <1>11 DEF StopOverflowed, Reserving, TypeOK, Quiet
  <2>2. OthersMove
    BY Zenon, <1>11 DEF StopOverflowed, OthersMove, Joins, Kinds
  <2>3. CASE FinishClose
    BY Zenon, <2>1, <2>2, <2>3, AccountedClose
  <2>4. CASE KeepOpen
    <3>1. SendMsgs' = SendMsgs /\ Range(queue') = Range(queue) /\ pending' = pending
      BY Zenon, <2>2, <2>4, SendMsgsKept DEF KeepOpen, Range
    <3>. QED
      BY Zenon, <2>1, <3>1, UnsentParts, AccountedKept
  <2>. QED
    BY Zenon, <1>11, <2>3, <2>4 DEF StopOverflowed
<1>. QED
  BY Zenon, <1>2, <1>3, <1>4, <1>5, <1>6, <1>7, <1>8, <1>10, <1>11 DEF Sender
(* The handler of a send keeps the account. *)
LEMMA AccountedRunSend ==
  ASSUME TypeOK, Fresh, Ordered, Accounted, RunSend
  PROVE  Accounted'
<1>. DEFINE m == strand[1].msg
<1>1. Take({"send"}) /\ strand' = Tail(strand) /\ UNCHANGED <<sender, sends>>
  BY Zenon DEF RunSend, history
<1>2. Head(strand).msg = m /\ m \in Msgs
  BY <1>1, TakeFacts, HandlerFacts
<1>3. Reserved' = Reserved
  BY Zenon, <1>1 DEF Reserved, Reserving, Message
<1>4. SendMsgs = SendMsgs' \cup {m}
  <2>1. /\ \A n \in Sending' : n + 1 \in Sending /\ strand'[n].msg = strand[n + 1].msg
        /\ \A n \in Sending : n # 1 => n - 1 \in Sending' /\ (n - 1) + 1 = n
        /\ 1 \in Sending
    BY Zenon, <1>1, SendsBehind
  <2>2. ASSUME NEW n \in Sending, n # 1 PROVE strand[n].msg \in SendMsgs'
    <3>1. n - 1 \in Sending' /\ strand'[n - 1].msg = strand[n].msg
      BY Zenon, <2>1, <2>2
    <3>. QED
      BY Zenon, <3>1 DEF SendMsgs
  <2>3. SendMsgs' \subseteq SendMsgs /\ m \in SendMsgs
    BY <2>1 DEF SendMsgs
  <2>4. SendMsgs \subseteq SendMsgs' \cup {m}
    BY Zenon, <2>2 DEF SendMsgs
  <2>. QED
    BY Zenon, <2>3, <2>4
<1>5. CASE Refusing
  <2>1. queue' = queue /\ pending' = pending - m.size
    BY Zenon, <1>2, <1>5 DEF RunSend
  <2>2. m \notin SendMsgs'
    <3>. SUFFICES ASSUME NEW n \in Sending', strand'[n].msg = m PROVE FALSE
      BY Zenon DEF SendMsgs
    <3>1. n \in Int /\ 1 <= n /\ n + 1 \in Sending /\ strand[n + 1].msg = m /\ 1 \in Sending
      BY Zenon, <1>1, SendsBehind
    <3>2. PICK i \in 1..Len(posted) : posted[i] = m
      BY Zenon, <3>1 DEF Ordered
    <3>3. 1 < n + 1
      BY <3>1
    <3>4. i < i
      BY Zenon, <3>1, <3>2, <3>3 DEF Ordered
    <3>. QED
      BY <3>4
  <2>3. m \notin Reserved /\ m \notin Range(queue)
    <3>1. PICK i \in 1..Len(posted) : Passed < i /\ posted[i] = m
      BY Zenon, <1>4, Whereabouts
    <3>2. m \notin Reserved
      BY Zenon, <3>1, Whereabouts
    <3>3. ASSUME m \in Range(queue) PROVE FALSE
      <4>1. PICK j \in 1..Len(posted) : j <= Passed /\ posted[j] = m
        BY Zenon, <3>3, Whereabouts
      <4>2. i = j
        BY Zenon, <3>1, <4>1 DEF Fresh
      <4>. QED
        BY <3>1, <4>1, <4>2 DEF Passed, TypeOK
    <3>. QED
      BY Zenon, <3>2, <3>3
  <2>4. m \in Unsent /\ Unsent' = Unsent \ {m}
    BY Zenon, <1>3, <1>4, <2>1, <2>2, <2>3, UnsentParts
  <2>. QED
    BY Zenon, <2>1, <2>4, AccountedDrop
<1>6. CASE ~Refusing
  <2>1. queue' = Append(queue, m) /\ pending' = pending
    BY Zenon, <1>2, <1>6 DEF RunSend
  <2>2. Range(queue') = Range(queue) \cup {m}
    <3>1. queue \in Seq(Msgs)
      BY Zenon DEF TypeOK
    <3>. QED
      BY <1>2, <2>1, <3>1, AppendProperties DEF Range
  <2>3. Unsent' = Unsent
    BY Zenon, <1>3, <1>4, <2>2, UnsentParts
  <2>. QED
    BY Zenon, <2>1, <2>3, AccountedKept
<1>. QED
  BY Zenon, <1>5, <1>6

(* The completion of a write keeps the account. *)
LEMMA AccountedRunWrote ==
  ASSUME TypeOK, Fresh, Ordered, OneOutstanding, Accounted, RunWrote
  PROVE  Accounted'
<1>. DEFINE m == queue[1]
<1>1. /\ Take({"wrote"}) /\ strand' = Tail(strand) /\ UNCHANGED <<sender, sends>>
  BY Zenon DEF RunWrote
<1>2. Reserved' = Reserved
  BY Zenon, <1>1 DEF Reserved, Reserving, Message
<1>3. SendMsgs' = SendMsgs
  <2>1. OthersMove
    BY Zenon, <1>1 DEF OthersMove, Leaves, Take, Kinds
  <2>. QED
    BY Zenon, <2>1, SendMsgsKept
<1>4. CASE closed
  <2>1. Range(queue') = Range(queue) /\ pending' = pending
    BY Zenon, <1>4 DEF RunWrote, KeepOpen, Range
  <2>. QED
    BY Zenon, <1>2, <1>3, <2>1, UnsentParts, AccountedKept
<1>5. CASE ~closed
  <2>1. queue \in Seq(Msgs) /\ queue # <<>>
    BY Zenon, <1>1, <1>5, QueuedWhenWrote DEF TypeOK
  <2>2. /\ queue' = Tail(queue) /\ pending' = pending - Head(queue).size
    BY Zenon, <1>5 DEF RunWrote
  <2>3. /\ Len(queue) \in Nat /\ 1 \in 1..Len(queue) /\ Head(queue) = m
        /\ DOMAIN queue = 1..Len(queue) /\ DOMAIN queue' = 1..Len(queue')
        /\ Len(queue') = Len(queue) - 1
        /\ \A i \in 1..Len(queue') : queue'[i] = queue[i + 1]
    BY <2>1, <2>2, HeadTailProperties
  <2>4. Range(queue) = Range(queue') \cup {m}
    <3>1. ASSUME NEW i \in 1..Len(queue), i # 1 PROVE queue[i] \in Range(queue')
      <4>1. i - 1 \in 1..Len(queue') /\ queue'[i - 1] = queue[i]
        BY <2>3, <3>1
      <4>. QED
        BY Zenon, <2>3, <4>1 DEF Range
    <3>2. ASSUME NEW i \in 1..Len(queue') PROVE queue'[i] \in Range(queue)
      <4>1. i + 1 \in 1..Len(queue) /\ queue'[i] = queue[i + 1]
        BY <2>3
      <4>. QED
        BY Zenon, <2>3, <4>1 DEF Range
    <3>. QED
      BY Zenon, <2>3, <3>1, <3>2 DEF Range
  <2>5. m \notin Range(queue')
    <3>. SUFFICES ASSUME NEW i \in 1..Len(queue'), queue'[i] = m PROVE FALSE
      BY Zenon, <2>3 DEF Range
    <3>1. i + 1 \in 1..Len(queue) /\ queue[i + 1] = queue[1]
      BY <2>3
    <3>2. i + 1 = 1
      BY Zenon, <2>3, <3>1, QueueIdentified
    <3>. QED
      BY <3>2
  <2>6. m \notin Reserved /\ m \notin SendMsgs
    <3>1. PICK i \in 1..Len(posted) : i <= Passed /\ posted[i] = m
      BY Zenon, <2>4, Whereabouts
    <3>2. m \notin Reserved
      BY Zenon, <3>1, Whereabouts
    <3>3. ASSUME m \in SendMsgs PROVE FALSE
      <4>1. PICK j \in 1..Len(posted) : Passed < j /\ posted[j] = m
        BY Zenon, <3>3, Whereabouts
      <4>2. i = j
        BY Zenon, <3>1, <4>1 DEF Fresh
      <4>. QED
        BY <3>1, <4>1, <4>2 DEF Passed, TypeOK
    <3>. QED
      BY Zenon, <3>2, <3>3
  <2>7. m \in Unsent /\ Unsent' = Unsent \ {m}
    BY Zenon, <1>2, <1>3, <2>4, <2>5, <2>6, UnsentParts
  <2>. QED
    BY Zenon, <2>2, <2>3, <2>7, AccountedDrop
<1>. QED
  BY Zenon, <1>4, <1>5
(* Every step keeps the account. *)
LEMMA AccountedStep ==
  ASSUME TypeOK, Fresh, Ordered, OneOutstanding, Accounted, [Next]_vars
  PROVE  Accounted'
<1>. USE DEF flags, ops, history
<1>1. ASSUME OthersMove, UNCHANGED <<sender, sends>>, FinishClose PROVE Accounted'
  <2>1. Reserved' = Reserved
    BY Zenon, <1>1 DEF Reserved, Reserving, Message
  <2>. QED
    BY Zenon, <1>1, <2>1, AccountedClose
<1>2. ASSUME OthersMove, UNCHANGED <<sender, sends, queue, pending>> PROVE Accounted'
  <2>1. Reserved' = Reserved /\ Range(queue') = Range(queue)
    BY Zenon, <1>2 DEF Reserved, Reserving, Message, Range
  <2>2. SendMsgs' = SendMsgs
    BY Zenon, <1>2, SendMsgsKept
  <2>. QED
    BY Zenon, <1>2, <2>1, <2>2, UnsentParts, AccountedKept
<1>3. ASSUME NEW t \in Threads, NEW size \in Sizes, Send(t, size) PROVE Accounted'
  <2>1. /\ UNCHANGED <<strand, queue, pending>> /\ t \notin Reserving /\ t \notin Reserving'
        /\ \A u \in Threads \ {t} : sender'[u] = sender[u] /\ sends'[u] = sends[u]
    BY Zenon, <1>3 DEF Send, Reserving, TypeOK
  <2>2. Reserved' = Reserved
    BY Zenon, <2>1, ReservedKept DEF Reserving, Message
  <2>3. SendMsgs' = SendMsgs /\ Range(queue') = Range(queue)
    BY Zenon, <2>1 DEF SendMsgs, Sending, Handlers, Range
  <2>. QED
    BY Zenon, <2>1, <2>2, <2>3, UnsentParts, AccountedKept
<1>4. ASSUME NEW kind \in {"stop", "force"}, Stop(kind) PROVE Accounted'
  BY Zenon, <1>2, <1>4 DEF Stop, OthersMove, Joins, Kinds
<1>5. CASE RunClose
  BY Zenon, <1>1, <1>5 DEF RunClose, OthersMove, Leaves, Take, Kinds
<1>6. CASE RunStop
  BY Zenon, <1>2, <1>6 DEF RunStop, KeepOpen, OthersMove, Leaves, Take, Kinds
<1>7. CASE RunWriteError
  <2>1. OthersMove /\ UNCHANGED <<sender, sends>>
    BY Zenon, <1>7 DEF RunWriteError, OthersMove, Leaves, Take, Kinds
  <2>2. FinishClose \/ UNCHANGED <<queue, pending>>
    BY Zenon, <1>7 DEF RunWriteError, KeepOpen
  <2>. QED
    BY Zenon, <1>1, <1>2, <2>1, <2>2
<1>8. CASE RunStart \/ RunData
  BY Zenon, <1>2, <1>8 DEF RunStart, RunData, OthersMove, Leaves, Take, Kinds
<1>9. CASE ReadNext
  BY Zenon, <1>2, <1>9 DEF ReadNext, OthersMove, Joins, Kinds
<1>10. CASE ReadInvalid
  BY Zenon, <1>1, <1>10 DEF ReadInvalid, OthersMove
<1>11. ASSUME NEW result \in {"wrote", "writeError"}, WriteDone(result) PROVE Accounted'
  BY Zenon, <1>2, <1>11 DEF WriteDone, OthersMove, Joins, Kinds
<1>12. ASSUME NEW result \in {"data", "eof", "abort"}, ReadDone(result) PROVE Accounted'
  BY Zenon, <1>2, <1>12 DEF ReadDone, OthersMove, Joins, Kinds
<1>13. CASE UNCHANGED vars
  BY Zenon, <1>2, <1>13 DEF vars, OthersMove
<1>. QED
  BY Zenon, <1>3, <1>4, <1>5, <1>6, <1>7, <1>8, <1>9, <1>10, <1>11, <1>12, <1>13, AccountedSender,
     AccountedRunSend, AccountedRunWrote DEF Next, Strand, Kernel, Rest

-----------------------------------------------------------------------------
(* Closing *)

(* Every step keeps on_closed_ to one call. *)
LEMMA ClosedOnceStep ==
  ASSUME TypeOK, ClosedOnce, [Next]_vars
  PROVE  ClosedOnce'
<1>. USE DEF flags, ops, history
<1>1. ASSUME FinishClose PROVE ClosedOnce'
  BY <1>1 DEF FinishClose, ClosedOnce
<1>2. ASSUME UNCHANGED <<closed, closings>> PROVE ClosedOnce'
  BY Zenon, <1>2 DEF ClosedOnce
<1>3. ASSUME ~closed, ShutdownSend PROVE ClosedOnce'
  BY <1>3 DEF ShutdownSend, ClosedOnce
<1>4. ASSUME NEW t \in Threads, NEW size \in Sizes, Send(t, size) PROVE UNCHANGED <<closed, closings>>
  BY Zenon, <1>4 DEF Send
<1>5. ASSUME NEW t \in Threads, Sender(t) PROVE FinishClose \/ UNCHANGED <<closed, closings>>
  BY Zenon, <1>5 DEF Sender, LoadPending, Reserve, ReserveRetry, ReserveRefused, Recheck, Withdraw,
              PostSend, Overflow, StopOverflowed, KeepOpen
<1>6. ASSUME NEW kind \in {"stop", "force"}, Stop(kind) PROVE UNCHANGED <<closed, closings>>
  BY Zenon, <1>6 DEF Stop
<1>7. ASSUME Strand
      PROVE  FinishClose \/ (~closed /\ ShutdownSend) \/ UNCHANGED <<closed, closings>>
  <2>1. CASE RunClose \/ RunWriteError \/ ReadInvalid
    BY Zenon, <2>1 DEF RunClose, RunWriteError, ReadInvalid, KeepOpen
  <2>2. CASE RunStop
    BY Zenon, <2>2 DEF RunStop, KeepOpen
  <2>3. CASE RunWrote
    BY Zenon, <2>3 DEF RunWrote, KeepOpen
  <2>4. CASE RunSend \/ RunStart \/ RunData \/ ReadNext
    BY Zenon, <2>4 DEF RunSend, RunStart, RunData, ReadNext
  <2>. QED
    BY Zenon, <1>7, <2>1, <2>2, <2>3, <2>4 DEF Strand
<1>8. ASSUME Kernel PROVE UNCHANGED <<closed, closings>>
  BY Zenon, <1>8 DEF Kernel, WriteDone, ReadDone
<1>9. ASSUME UNCHANGED vars PROVE UNCHANGED <<closed, closings>>
  BY Zenon, <1>9 DEF vars
<1>. QED
  BY Zenon, <1>1, <1>2, <1>3, <1>4, <1>5, <1>6, <1>7, <1>8, <1>9 DEF Next, Rest

(* Every step keeps the send side open until the queue is written. *)
LEMMA ShutdownStep ==
  ASSUME TypeOK, OneOutstanding, ShutdownLast, [Next]_vars
  PROVE  ShutdownLast'
<1>. USE DEF flags, ops, history
<1>1. ASSUME UNCHANGED <<shutdown, graceful>>, queue' = <<>> \/ UNCHANGED <<queue, closed>>
      PROVE  ShutdownLast'
  BY <1>1 DEF ShutdownLast
<1>2. ASSUME NEW t \in Threads, NEW size \in Sizes, Send(t, size) PROVE ShutdownLast'
  BY Zenon, <1>1, <1>2 DEF Send
<1>3. ASSUME NEW t \in Threads, Sender(t) PROVE ShutdownLast'
  BY Zenon, <1>1, <1>3 DEF Sender, LoadPending, Reserve, ReserveRetry, ReserveRefused, Recheck, Withdraw,
                    PostSend, Overflow, StopOverflowed, KeepOpen, FinishClose
<1>4. ASSUME NEW kind \in {"stop", "force"}, Stop(kind) PROVE ShutdownLast'
  BY Zenon, <1>1, <1>4 DEF Stop
<1>5. CASE RunStop
  <2>1. CASE closed \/ graceful
    BY Zenon, <1>1, <1>5, <2>1 DEF RunStop, KeepOpen
  <2>2. CASE ~closed /\ ~graceful
    <3>1. ~shutdown
      BY Zenon, <2>2 DEF ShutdownLast
    <3>2. graceful' /\ queue' = queue /\ (queue = <<>> \/ UNCHANGED <<shutdown, closed>>)
      BY Zenon, <1>5, <2>2 DEF RunStop
    <3>. QED
      BY <2>2, <3>1, <3>2 DEF ShutdownLast
  <2>. QED
    BY Zenon, <2>1, <2>2
<1>6. CASE RunSend
  BY Zenon, <1>6 DEF RunSend, Refusing, ShutdownLast
<1>7. CASE RunWrote
  <2>1. CASE closed
    BY Zenon, <1>1, <1>7, <2>1 DEF RunWrote, KeepOpen
  <2>2. CASE ~closed
    <3>1. Take({"wrote"}) /\ strand' = Tail(strand) /\ queue' = Tail(queue) /\ graceful' = graceful
      BY Zenon, <1>7, <2>2 DEF RunWrote
    <3>2. queue \in Seq(Msgs) /\ queue # <<>>
      BY Zenon, <2>2, <3>1, QueuedWhenWrote DEF TypeOK
    <3>3. ~shutdown
      BY Zenon, <3>2 DEF ShutdownLast
    <3>4. CASE Len(queue) = 1 /\ graceful
      BY <3>1, <3>2, <3>4 DEF ShutdownLast
    <3>5. CASE ~(Len(queue) = 1 /\ graceful)
      BY Zenon, <1>7, <2>2, <3>3, <3>5 DEF RunWrote, ShutdownLast
    <3>. QED
      BY Zenon, <3>4, <3>5
  <2>. QED
    BY Zenon, <2>1, <2>2
<1>8. CASE RunClose \/ RunWriteError \/ ReadInvalid
  BY Zenon, <1>1, <1>8 DEF RunClose, RunWriteError, ReadInvalid, KeepOpen, FinishClose
<1>9. CASE RunStart \/ RunData \/ ReadNext
  BY Zenon, <1>1, <1>9 DEF RunStart, RunData, ReadNext
<1>10. CASE Kernel
  BY Zenon, <1>1, <1>10 DEF Kernel, WriteDone, ReadDone
<1>11. CASE UNCHANGED vars
  BY Zenon, <1>1, <1>11 DEF vars
<1>. QED
  BY Zenon, <1>2, <1>3, <1>4, <1>5, <1>6, <1>7, <1>8, <1>9, <1>10, <1>11 DEF Next, Strand, Rest
-----------------------------------------------------------------------------
(* The theorems *)

(* A new connection satisfies the invariant. *)
LEMMA ConnInit == Init => ConnInv
<1>. SUFFICES ASSUME Init PROVE ConnInv
  BY Zenon
<1>1. [op |-> "start"] \in HandlerType
  BY Zenon, OtherHandler DEF Kinds
<1>2. TypeOK
  <2>1. strand \in Seq(HandlerType)
    BY <1>1 DEF Init
  <2>2. sender \in [Threads -> [pc : Places, size : Nat, seen : Int]]
    BY DEF Init, Quiet, Places
  <2>3. /\ overflowed \in BOOLEAN /\ graceful \in BOOLEAN /\ shutdown \in BOOLEAN
        /\ closed \in BOOLEAN /\ reading \in BOOLEAN
    BY Zenon DEF Init
  <2>4. sends \in [Threads -> Nat] /\ writeOps \in Nat /\ readOps \in Nat /\ closings \in Nat
    BY Zenon DEF Init
  <2>5. queue \in Seq(Msgs) /\ posted \in Seq(Msgs) /\ written \in Seq(Msgs)
    BY DEF Init
  <2>. QED
    BY Zenon, <2>1, <2>2, <2>3, <2>4, <2>5 DEF TypeOK
<1>3. Sending = {} /\ Done = {} /\ Reserving = {}
  BY DEF Init, Sending, Done, Handlers, Reserving, Quiet
<1>4. /\ Len(posted) = 0 /\ Len(queue) = 0 /\ Len(written) = 0 /\ Passed = 0
      /\ \A i \in 1..0 : FALSE
  BY DEF Init, Passed
<1>5. Fresh
  BY Zenon, <1>4 DEF Fresh
<1>6. Ordered
  BY <1>3, <1>4 DEF Ordered
<1>7. ShutdownLast /\ OneOutstanding /\ ClosedOnce
  BY <1>3 DEF Init, ShutdownLast, OneOutstanding, ClosedOnce
<1>8. Accounted
  <2>1. Unsent = {}
    BY <1>3 DEF Init, Unsent, Sending, Range
  <2>2. Owed = {}
    BY Zenon, <2>1 DEF Owed
  <2>. QED
    BY <2>2, FS_EmptySet, TcpAssumption DEF Init, Accounted
<1>. QED
  BY Zenon, <1>2, <1>5, <1>6, <1>7, <1>8 DEF ConnInv

(* Every step keeps the invariant. *)
LEMMA ConnStep == ConnInv /\ [Next]_vars => ConnInv'
<1>. SUFFICES ASSUME ConnInv, [Next]_vars PROVE ConnInv'
  BY Zenon
<1>1. TypeOK /\ Fresh /\ Ordered /\ ShutdownLast /\ OneOutstanding /\ Accounted /\ ClosedOnce
  BY Zenon DEF ConnInv
<1>2. pending \in Int
  BY <1>1, FS_CardinalityType DEF Accounted
<1>. QED
  BY Zenon, <1>1, <1>2, StepTypes, FreshStep, OrderedStep, ShutdownStep, OneOutstandingStep,
     AccountedStep, ClosedOnceStep DEF ConnInv

(* The inductive invariant holds in every reachable state. *)
THEOREM ConnAlways == Spec => []ConnInv
BY ConnInit, ConnStep, PTL DEF Spec

(* pending_send_bytes_ is what is reserved, posted or queued, and within   *)
(* the limit, for any number of threads, message sizes and limit.          *)
THEOREM BytesAreAccounted == Spec => []BytesAccounted
<1>1. ConnInv => BytesAccounted
  BY Zenon DEF ConnInv, Accounted, BytesAccounted
<1>. QED
  BY <1>1, ConnAlways, PTL

(* finish_close() calls on_closed_ once. *)
THEOREM ClosesOnce == Spec => []ClosedOnce
<1>1. ConnInv => ClosedOnce
  BY Zenon DEF ConnInv
<1>. QED
  BY <1>1, ConnAlways, PTL

(* At most one async_write is outstanding, and one is while an open        *)
(* connection has something queued.                                        *)
THEOREM WritesOneAtATime == Spec => []OneWriteAtATime
<1>1. ASSUME ConnInv PROVE OneWriteAtATime
  <2>1. OneOutstanding /\ writeOps \in Nat /\ Done = Handlers({"wrote", "writeError"})
    BY Zenon, <1>1 DEF ConnInv, TypeOK, Done
  <2>2. CASE Done = {}
    <3>1. Cardinality(Done) = 0
      BY Zenon, <2>2, FS_EmptySet
    <3>. QED
      BY <2>1, <2>2, <3>1 DEF OneOutstanding, OneWriteAtATime
  <2>3. ASSUME NEW n \in Done PROVE OneWriteAtATime
    <3>1. Done = {n}
      BY Zenon, <2>1, <2>3 DEF OneOutstanding
    <3>2. Cardinality(Done) = 1
      BY Zenon, <3>1, FS_Singleton
    <3>3. writeOps = 0
      BY <2>1, <2>3 DEF OneOutstanding
    <3>. QED
      BY <2>1, <2>3, <3>2, <3>3 DEF OneOutstanding, OneWriteAtATime
  <2>. QED
    BY Zenon, <2>2, <2>3
<1>. QED
  BY <1>1, ConnAlways, PTL

(* What was written and what is queued is a prefix of what was posted, and *)
(* the send side is shut down on an empty queue.                           *)
THEOREM WritesInOrder == Spec => []WrittenInOrder
<1>1. ASSUME ConnInv PROVE WrittenInOrder
  <2>1. TypeOK /\ Ordered /\ ShutdownLast
    BY Zenon, <1>1 DEF ConnInv
  <2>. DEFINE w == written \o queue
  <2>2. written \in Seq(Msgs) /\ queue \in Seq(Msgs) /\ posted \in Seq(Msgs)
    BY Zenon, <2>1 DEF TypeOK
  <2>3. /\ w \in Seq(Msgs) /\ Len(w) = Len(written) + Len(queue)
        /\ \A i \in 1..Len(written) + Len(queue) :
             w[i] = IF i <= Len(written) THEN written[i] ELSE queue[i - Len(written)]
    BY Zenon, <2>2, ConcatProperties
  <2>4. Len(w) <= Len(posted) /\ Len(w) \in Nat /\ Len(posted) \in Nat /\ Len(written) \in Nat
    BY <2>1, <2>2, <2>3 DEF Ordered, Passed
  <2>5. ASSUME NEW i \in 1..Len(w) PROVE w[i] = posted[i]
    <3>1. CASE i <= Len(written)
      BY <2>1, <2>3, <2>4, <3>1 DEF Ordered
    <3>2. CASE ~(i <= Len(written))
      <4>1. i - Len(written) \in 1..Len(queue) /\ Len(written) + (i - Len(written)) = i
        BY <2>2, <2>3, <2>4, <3>2
      <4>2. queue[i - Len(written)] = posted[i]
        BY Zenon, <2>1, <4>1 DEF Ordered
      <4>. QED
        BY Zenon, <2>3, <3>2, <4>2
    <3>. QED
      BY Zenon, <3>1, <3>2
  <2>. HIDE DEF w
  <2>6. SubSeq(w, 1, Len(w)) = SubSeq(posted, 1, Len(w))
    BY <2>4, <2>5
  <2>7. IsPrefix(w, posted)
    BY Zenon, <2>4, <2>6 DEF IsPrefix
  <2>. QED
    BY Zenon, <2>1, <2>7 DEF ShutdownLast, WrittenInOrder, w
<1>. QED
  BY <1>1, ConnAlways, PTL

(* A closed connection stays closed: nothing is queued or written after    *)
(* finish_close(), whatever send() and late completions still post.        *)
THEOREM ClosedForGood ==
  Spec => [][closed => closed' /\ UNCHANGED <<queue, written, closings>>]_vars
<1>. USE DEF flags, ops, history
<1>. DEFINE Settled == closed' /\ UNCHANGED <<queue, written, closings>>
<1>1. ASSUME ConnInv, [Next]_vars, closed PROVE Settled
  <2>1. queue = <<>>
    BY Zenon, <1>1 DEF ConnInv, ShutdownLast
  <2>2. ASSUME FinishClose, UNCHANGED written PROVE Settled
    BY Zenon, <1>1, <2>1, <2>2 DEF FinishClose
  <2>3. ASSUME NEW t \in Threads, NEW size \in Sizes, Send(t, size) PROVE Settled
    BY Zenon, <1>1, <2>3 DEF Send
  <2>4. ASSUME NEW t \in Threads, Sender(t) PROVE Settled
    BY Zenon, <1>1, <2>2, <2>4 DEF Sender, LoadPending, Reserve, ReserveRetry, ReserveRefused, Recheck,
                            Withdraw, PostSend, Overflow, StopOverflowed, KeepOpen
  <2>5. ASSUME NEW kind \in {"stop", "force"}, Stop(kind) PROVE Settled
    BY Zenon, <1>1, <2>5 DEF Stop
  <2>6. CASE RunClose \/ ReadInvalid
    BY Zenon, <2>2, <2>6 DEF RunClose, ReadInvalid
  <2>7. CASE RunStop \/ RunWrote \/ RunWriteError
    BY Zenon, <1>1, <2>7 DEF RunStop, RunWrote, RunWriteError, KeepOpen
  <2>8. CASE RunSend
    BY Zenon, <1>1, <2>8 DEF RunSend, Refusing
  <2>9. CASE RunStart \/ RunData \/ ReadNext
    BY Zenon, <1>1, <2>9 DEF RunStart, RunData, ReadNext
  <2>10. CASE Kernel
    BY Zenon, <1>1, <2>10 DEF Kernel, WriteDone, ReadDone
  <2>11. CASE UNCHANGED vars
    BY Zenon, <1>1, <2>11 DEF vars
  <2>. HIDE DEF Settled
  <2>. QED
    BY Zenon, <1>1, <2>3, <2>4, <2>5, <2>6, <2>7, <2>8, <2>9, <2>10, <2>11 DEF Next, Strand, Rest
<1>. QED
  BY <1>1, ConnAlways, PTL DEF Spec

=============================================================================
