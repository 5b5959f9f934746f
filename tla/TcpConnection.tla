---------------------------- MODULE TcpConnection ----------------------------
(***************************************************************************)
(* One accepted connection of the User server, server/tcp_connection.hpp:  *)
(* a read loop and a write queue on the connection's strand, byte          *)
(* accounting for what waits to be sent, graceful and forced close.        *)
(*                                                                         *)
(* Sessions call send() from worker threads, and from the strand itself    *)
(* when handle_read dispatches a Ping (thread Io).  send() is lock free:   *)
(* each of its atomic operations is a step.  Everything else runs in       *)
(* handlers on the strand, one at a time and in the order they were        *)
(* posted.  The socket stays open until finish_close() closes it.          *)
(***************************************************************************)
EXTENDS Integers, FiniteSets, Sequences, Functions

CONSTANTS
  Workers,    \* threads that call send() from outside the strand
  Io,         \* the strand's own thread
  Sizes,      \* message sizes
  Limit,      \* max_pending_send_bytes_
  MaxSends,   \* bound on the sends of a thread
  MaxReads    \* bound on the reads that return data

ASSUME TcpAssumption ==
  /\ Io \notin Workers
  /\ Sizes \subseteq Nat \ {0}
  /\ {Limit, MaxSends, MaxReads} \subseteq Nat

Threads == Workers \cup {Io}

VARIABLES
  pending,     \* pending_send_bytes_
  overflowed,  \* send_overflowed_
  graceful,    \* graceful_close_requested_
  shutdown,    \* sent_shutdown_
  closed,      \* closed_
  queue,       \* write_queue_
  strand,      \* handlers posted to the strand, oldest first
  reading,     \* the strand is inside handle_read's interpreter_ call
  sender,      \* a thread's progress in send()
  writeOps,    \* async_writes the kernel has not completed
  readOps,     \* reads the kernel has not completed
  sends,       \* history: sends begun by a thread
  reads,       \* history: reads that returned data
  stops,       \* history: kinds of stop() the session has called
  posted,      \* history: messages in the order send() posted them
  written,     \* history: messages in the order they were written
  closings     \* history: calls of on_closed_

flags == <<overflowed, graceful, shutdown, closed>>
ops == <<writeOps, readOps>>
history == <<sends, reads, stops, posted, written, closings>>
vars == <<pending, flags, queue, strand, reading, sender, ops, history>>

Quiet == [pc |-> "idle", size |-> 0, seen |-> 0]

(* The size of the messages together: a byte is a place in a message.      *)
Bytes(messages) ==
  Cardinality(UNION {{n} \X (1..messages[n].size) : n \in 1..Len(messages)})

(* handle_accept attaches the session, then posts start_impl. *)
Init ==
  /\ pending = 0
  /\ overflowed = FALSE
  /\ graceful = FALSE
  /\ shutdown = FALSE
  /\ closed = FALSE
  /\ queue = <<>>
  /\ strand = <<[op |-> "start"]>>
  /\ reading = FALSE
  /\ sender = [t \in Threads |-> Quiet]
  /\ writeOps = 0
  /\ readOps = 0
  /\ sends = [t \in Threads |-> 0]
  /\ reads = 0
  /\ stops = {}
  /\ posted = <<>>
  /\ written = <<>>
  /\ closings = 0

-----------------------------------------------------------------------------
(* send(), on any thread *)

Goto(t, pc) == sender' = [sender EXCEPT ![t].pc = pc]

(* reserve_send_bytes: the first load of send_overflowed_ *)
Send(t, size) ==
  /\ sender[t].pc = "idle"
  /\ t = Io => reading
  /\ sends[t] < MaxSends
  /\ sends' = [sends EXCEPT ![t] = @ + 1]
  /\ sender' = [sender EXCEPT ![t] = [pc |-> IF overflowed THEN "refused" ELSE "load",
                                      size |-> size, seen |-> 0]]
  /\ UNCHANGED <<pending, flags, queue, strand, reading, ops, reads, stops, posted, written,
                 closings>>

LoadPending(t) ==
  /\ sender[t].pc = "load"
  /\ sender' = [sender EXCEPT ![t].pc = "reserve", ![t].seen = pending]
  /\ UNCHANGED <<pending, flags, queue, strand, reading, ops, history>>

Fits(t) == sender[t].size <= Limit /\ sender[t].seen <= Limit - sender[t].size

(* Variant of Reserve: adds to a value it has not compared. *)
ReserveAdds(t) ==
  /\ sender[t].pc = "reserve"
  /\ Fits(t)
  /\ pending' = pending + sender[t].size
  /\ Goto(t, "recheck")
  /\ UNCHANGED <<flags, queue, strand, reading, ops, history>>

(* The compare_exchange_weak succeeds. *)
Reserve(t) ==
  /\ sender[t].pc = "reserve"
  /\ Fits(t)
  /\ sender[t].seen = pending
  /\ pending' = pending + sender[t].size
  /\ Goto(t, "recheck")
  /\ UNCHANGED <<flags, queue, strand, reading, ops, history>>

(* The compare_exchange_weak fails and reloads. *)
ReserveRetry(t) ==
  /\ sender[t].pc = "reserve"
  /\ Fits(t)
  /\ sender[t].seen # pending
  /\ sender' = [sender EXCEPT ![t].seen = pending]
  /\ UNCHANGED <<pending, flags, queue, strand, reading, ops, history>>

ReserveRefused(t) ==
  /\ sender[t].pc = "reserve"
  /\ ~Fits(t)
  /\ Goto(t, "refused")
  /\ UNCHANGED <<pending, flags, queue, strand, reading, ops, history>>

(* The second load of send_overflowed_ *)
Recheck(t) ==
  /\ sender[t].pc = "recheck"
  /\ Goto(t, IF overflowed THEN "withdraw" ELSE "post")
  /\ UNCHANGED <<pending, flags, queue, strand, reading, ops, history>>

Withdraw(t) ==
  /\ sender[t].pc = "withdraw"
  /\ pending' = pending - sender[t].size
  /\ Goto(t, "refused")
  /\ UNCHANGED <<flags, queue, strand, reading, ops, history>>

PostSend(t) ==
  /\ sender[t].pc = "post"
  /\ LET msg == [from |-> t, nth |-> sends[t], size |-> sender[t].size]
     IN  /\ strand' = Append(strand, [op |-> "send", msg |-> msg])
         /\ posted' = Append(posted, msg)
  /\ sender' = [sender EXCEPT ![t] = Quiet]
  /\ UNCHANGED <<pending, flags, queue, reading, ops, sends, reads, stops, written, closings>>

(* send_overflowed_.exchange(true): the first to overflow stops. *)
Overflow(t) ==
  /\ sender[t].pc = "refused"
  /\ overflowed' = TRUE
  /\ sender' = [sender EXCEPT ![t] = IF overflowed THEN Quiet ELSE [Quiet EXCEPT !.pc = "stop"]]
  /\ UNCHANGED <<pending, graceful, shutdown, closed, queue, strand, reading, ops, history>>

-----------------------------------------------------------------------------
(* Closing, on the strand *)

(* Variant of FinishClose: keeps the bytes of the dropped messages. *)
FinishCloseKeepsBytes ==
  /\ closed' = TRUE
  /\ queue' = <<>>
  /\ closings' = IF closed THEN closings ELSE closings + 1
  /\ UNCHANGED pending

(* Variant of FinishClose: does not notice that it has run before. *)
FinishCloseAgain ==
  /\ closed' = TRUE
  /\ pending' = pending - Bytes(queue)
  /\ queue' = <<>>
  /\ closings' = closings + 1

(* finish_close() *)
FinishClose ==
  /\ closed' = TRUE
  /\ pending' = pending - Bytes(queue)
  /\ queue' = <<>>
  /\ closings' = IF closed THEN closings ELSE closings + 1

KeepOpen == UNCHANGED <<pending, closed, queue, closings>>

(* shutdown_send_impl(), called with an empty queue: if the peer has reset *)
(* the connection it fails and ends in finish_close().                     *)
ShutdownSend ==
  /\ shutdown' = TRUE
  /\ \/ UNCHANGED <<closed, closings>>
     \/ closed' = TRUE /\ closings' = closings + 1

(* stop(true) after an overflow: dispatch() posts from another thread and  *)
(* runs at once on the strand.                                             *)
StopOverflowed(t) ==
  /\ sender[t].pc = "stop"
  /\ \/ t # Io /\ strand' = Append(strand, [op |-> "force"]) /\ KeepOpen
     \/ t = Io /\ FinishClose /\ UNCHANGED strand
  /\ sender' = [sender EXCEPT ![t] = Quiet]
  /\ UNCHANGED <<overflowed, graceful, shutdown, reading, ops, sends, reads, stops, posted,
                 written>>

(* The session calls stop(false) ("stop") or stop(true) ("force"). *)
Stop(kind) ==
  /\ kind \notin stops
  /\ stops' = stops \cup {kind}
  /\ strand' = Append(strand, [op |-> kind])
  /\ UNCHANGED <<pending, flags, queue, reading, sender, ops, sends, reads, posted, written,
                 closings>>

Take(kinds) == ~reading /\ strand # <<>> /\ Head(strand).op \in kinds

(* active_stop_impl(true), stop_impl(ec) from handle_read, and handle_read *)
(* with operation_aborted: all come down to finish_close().                *)
RunClose ==
  /\ Take({"force", "eof", "abort"})
  /\ FinishClose
  /\ strand' = Tail(strand)
  /\ UNCHANGED <<overflowed, graceful, shutdown, reading, sender, ops, sends, reads, stops,
                 posted, written>>

(* active_stop_impl(false) *)
RunStop ==
  /\ Take({"stop"})
  /\ \/ /\ closed \/ graceful
        /\ KeepOpen
        /\ UNCHANGED <<graceful, shutdown>>
     \/ /\ ~closed /\ ~graceful
        /\ graceful' = TRUE
        /\ IF queue = <<>> THEN ShutdownSend ELSE UNCHANGED <<shutdown, closed, closings>>
        /\ UNCHANGED <<pending, queue>>
  /\ strand' = Tail(strand)
  /\ UNCHANGED <<overflowed, reading, sender, ops, sends, reads, stops, posted, written>>

-----------------------------------------------------------------------------
(* Writing, on the strand *)

Refusing == closed \/ graceful \/ overflowed

(* Variant of RunSend: starts a write although one is in progress. *)
RunSendAtOnce ==
  /\ Take({"send"})
  /\ queue' = IF Refusing THEN queue ELSE Append(queue, Head(strand).msg)
  /\ pending' = IF Refusing THEN pending - Head(strand).msg.size ELSE pending
  /\ writeOps' = IF Refusing THEN writeOps ELSE writeOps + 1
  /\ strand' = Tail(strand)
  /\ UNCHANGED <<flags, reading, sender, readOps, history>>

(* send_impl() *)
RunSend ==
  /\ Take({"send"})
  /\ queue' = IF Refusing THEN queue ELSE Append(queue, Head(strand).msg)
  /\ pending' = IF Refusing THEN pending - Head(strand).msg.size ELSE pending
  /\ writeOps' = IF Refusing \/ queue # <<>> THEN writeOps ELSE writeOps + 1
  /\ strand' = Tail(strand)
  /\ UNCHANGED <<flags, reading, sender, readOps, history>>

(* Variant of RunWrote: forgets that a graceful close is waiting. *)
RunWroteOnly ==
  /\ Take({"wrote"})
  /\ IF closed
     THEN KeepOpen /\ UNCHANGED <<writeOps, written>>
     ELSE /\ written' = Append(written, Head(queue))
          /\ queue' = Tail(queue)
          /\ pending' = pending - Head(queue).size
          /\ writeOps' = IF Len(queue) = 1 THEN writeOps ELSE writeOps + 1
          /\ UNCHANGED <<closed, closings>>
  /\ strand' = Tail(strand)
  /\ UNCHANGED <<overflowed, graceful, shutdown, reading, sender, readOps, sends, reads,
                 stops, posted>>

(* handle_write() without an error *)
RunWrote ==
  /\ Take({"wrote"})
  /\ \/ /\ closed
        /\ KeepOpen
        /\ UNCHANGED <<shutdown, writeOps, written>>
     \/ /\ ~closed
        /\ written' = Append(written, Head(queue))
        /\ queue' = Tail(queue)
        /\ pending' = pending - Head(queue).size
        /\ writeOps' = IF Len(queue) = 1 THEN writeOps ELSE writeOps + 1
        /\ IF Len(queue) = 1 /\ graceful
           THEN ShutdownSend
           ELSE UNCHANGED <<shutdown, closed, closings>>
  /\ strand' = Tail(strand)
  /\ UNCHANGED <<overflowed, graceful, reading, sender, readOps, sends, reads, stops, posted>>

(* Variant of RunWriteError: skips the message and goes on with the next. *)
RunWriteErrorSkips ==
  /\ Take({"writeError"})
  /\ ~closed
  /\ queue' = Tail(queue)
  /\ pending' = pending - Head(queue).size
  /\ writeOps' = IF Len(queue) = 1 THEN writeOps ELSE writeOps + 1
  /\ strand' = Tail(strand)
  /\ UNCHANGED <<flags, reading, sender, readOps, history>>

(* handle_write() with an error *)
RunWriteError ==
  /\ Take({"writeError"})
  /\ IF closed THEN KeepOpen ELSE FinishClose
  /\ strand' = Tail(strand)
  /\ UNCHANGED <<overflowed, graceful, shutdown, reading, sender, ops, sends, reads, stops,
                 posted, written>>

-----------------------------------------------------------------------------
(* Reading, on the strand *)

(* start_impl() *)
RunStart ==
  /\ Take({"start"})
  /\ readOps' = IF closed THEN readOps ELSE readOps + 1
  /\ strand' = Tail(strand)
  /\ UNCHANGED <<pending, flags, queue, reading, sender, writeOps, history>>

(* handle_read() with data: the interpreter dispatches what it completes,  *)
(* which may call send() on this very thread.                              *)
RunData ==
  /\ Take({"data"})
  /\ reading' = TRUE
  /\ strand' = Tail(strand)
  /\ UNCHANGED <<pending, flags, queue, sender, ops, history>>

(* handle_read() posts start_impl again. *)
ReadNext ==
  /\ reading
  /\ sender[Io].pc = "idle"
  /\ reading' = FALSE
  /\ strand' = Append(strand, [op |-> "start"])
  /\ UNCHANGED <<pending, flags, queue, sender, ops, history>>

(* handle_buffer() rejects the frame: stop(true), on the strand. *)
ReadInvalid ==
  /\ reading
  /\ sender[Io].pc = "idle"
  /\ reading' = FALSE
  /\ FinishClose
  /\ UNCHANGED <<overflowed, graceful, shutdown, strand, sender, ops, sends, reads, stops,
                 posted, written>>

-----------------------------------------------------------------------------
(* The kernel and the peer: a completed operation posts its handler.  An   *)
(* operation on the closed socket is aborted unless it had completed.      *)

WriteDone(result) ==
  /\ writeOps > 0
  /\ closed => result = "writeError"
  /\ writeOps' = writeOps - 1
  /\ strand' = Append(strand, [op |-> result])
  /\ UNCHANGED <<pending, flags, queue, reading, sender, readOps, history>>

ReadDone(result) ==
  /\ readOps > 0
  /\ closed <=> result = "abort"
  /\ result = "data" => reads < MaxReads
  /\ reads' = IF result = "data" THEN reads + 1 ELSE reads
  /\ readOps' = readOps - 1
  /\ strand' = Append(strand, [op |-> result])
  /\ UNCHANGED <<pending, flags, queue, reading, sender, writeOps, sends, stops, posted, written,
                 closings>>

-----------------------------------------------------------------------------

Sender(t) ==
  \/ LoadPending(t) \/ Reserve(t) \/ ReserveRetry(t) \/ ReserveRefused(t) \/ Recheck(t)
  \/ Withdraw(t) \/ PostSend(t) \/ Overflow(t) \/ StopOverflowed(t)

Strand ==
  \/ RunClose \/ RunStop \/ RunSend \/ RunWrote \/ RunWriteError \/ RunStart \/ RunData
  \/ ReadNext \/ ReadInvalid

Kernel ==
  \/ \E result \in {"wrote", "writeError"} : WriteDone(result)
  \/ \E result \in {"data", "eof", "abort"} : ReadDone(result)

(* The connection is closed and everything about it has come to rest. *)
Rest ==
  /\ closed /\ strand = <<>> /\ ~reading
  /\ \A t \in Threads : sender[t].pc = "idle"
  /\ UNCHANGED vars

Next ==
  \/ \E t \in Threads, size \in Sizes : Send(t, size)
  \/ \E t \in Threads : Sender(t)
  \/ \E kind \in {"stop", "force"} : Stop(kind)
  \/ Strand
  \/ Kernel
  \/ Rest

Spec == Init /\ [][Next]_vars

(* Threads and the strand run; a write completes because the peer reads or *)
(* fails; after the server has shut its side down the peer closes too.     *)
Fairness ==
  /\ \A t \in Threads : WF_vars(Sender(t))
  /\ WF_vars(Strand)
  /\ WF_vars(\E result \in {"wrote", "writeError"} : WriteDone(result))
  /\ WF_vars(shutdown /\ ReadDone("eof"))

FairSpec == Spec /\ Fairness

-----------------------------------------------------------------------------
(* Properties *)

(* The message a thread is sending and the messages of the send handlers.  *)
Message(t) == [from |-> t, nth |-> sends[t], size |-> sender[t].size]
Reserving == {t \in Threads : sender[t].pc \in {"recheck", "withdraw", "post"}}
Handlers(kinds) == {n \in 1..Len(strand) : strand[n].op \in kinds}

(* The messages that are reserved for, posted or queued, and their bytes.  *)
Unsent ==
  {Message(t) : t \in Reserving} \cup {strand[n].msg : n \in Handlers({"send"})} \cup Range(queue)
Octets(m) == {<<m.from, m.nth>>} \X (1..m.size)
Owed == UNION {Octets(m) : m \in Unsent}

(* pending_send_bytes_ is exactly what is reserved, posted or queued, so   *)
(* the unsigned counter never wraps and a closed connection owes nothing,  *)
(* however send(), write completions and finish_close() interleave; and    *)
(* concurrent reservations together stay within max_pending_send_bytes_.   *)
BytesAccounted == pending = Cardinality(Owed) /\ pending <= Limit

(* on_closed_ is called once, by the finish_close() that closes.           *)
ClosedOnce == closings = IF closed THEN 1 ELSE 0

(* async_write is never started while another one is outstanding, and one  *)
(* is outstanding whenever an open connection has something queued: its    *)
(* messages are not interleaved and the queue does not stall.              *)
OneWriteAtATime ==
  LET outstanding == writeOps + Cardinality(Handlers({"wrote", "writeError"}))
  IN  /\ outstanding <= 1
      /\ ~closed => (outstanding = 1 <=> queue # <<>>)

(* s is what t begins with. *)
IsPrefix(s, t) == Len(s) <= Len(t) /\ SubSeq(s, 1, Len(s)) = SubSeq(t, 1, Len(s))

(* "Preserve the order of sends already posted": what has been written and *)
(* what is queued is a prefix of what send() posted, without gaps, and the *)
(* send side is shut down only when the queue has been written.            *)
WrittenInOrder ==
  /\ IsPrefix(written \o queue, posted)
  /\ shutdown => queue = <<>>

(* An overflow ends the connection, and so does a graceful close if the    *)
(* peer keeps reading and closes once it has seen the end of the stream.   *)
StopCloses == overflowed \/ graceful ~> closed

=============================================================================
