--------------------------- MODULE RequestPromise ---------------------------
(***************************************************************************)
(* What the two servers together promise of a request that a session       *)
(* sends: the Room server carries it out at most once, the session hears   *)
(* of it at most once, and of success only when it was carried out.  It    *)
(* may be carried out although the session was told of a timeout or gave   *)
(* the request up.                                                         *)
(***************************************************************************)
EXTENDS Sequences, Functions

CONSTANT Requests

VARIABLES
  issued,   \* requests that were sent
  applied,  \* requests that the Room server has carried out, in order
  told      \* what a session knows: "nothing", "response", "timeout", or
            \* "abandoned" when nobody waits for the answer any more

Init ==
  /\ issued = {}
  /\ applied = <<>>
  /\ told = [q \in Requests |-> "nothing"]

Issue(q) ==
  /\ q \notin issued
  /\ issued' = issued \cup {q}
  /\ UNCHANGED <<applied, told>>

Apply(q) ==
  /\ q \in issued \ Range(applied)
  /\ applied' = Append(applied, q)
  /\ UNCHANGED <<issued, told>>

Tell(q, what) ==
  /\ q \in issued /\ told[q] = "nothing"
  /\ what = "response" => q \in Range(applied)
  /\ told' = [told EXCEPT ![q] = what]
  /\ UNCHANGED <<issued, applied>>

(* Cancellation, stop and crash. *)
Abandon(qs) ==
  /\ \A q \in qs : told[q] = "nothing"
  /\ told' = [q \in Requests |-> IF q \in qs THEN "abandoned" ELSE told[q]]
  /\ UNCHANGED <<issued, applied>>

Next ==
  \/ \E q \in Requests :
       Issue(q) \/ Apply(q) \/ \E what \in {"response", "timeout"} : Tell(q, what)
  \/ \E qs \in SUBSET Requests : Abandon(qs)

Spec == Init /\ [][Next]_<<issued, applied, told>>
=============================================================================
