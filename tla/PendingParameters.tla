------------------------- MODULE PendingParameters -------------------------
(* The parameters of PendingRequests, and what it assumes of them. *)
EXTENDS Integers

CONSTANTS
  Ids,      \* request ids that fetch_add hands out
  Timeout,  \* what send_request adds to the current time
  MaxTime,  \* bound on the clock
  NoId

ASSUME PendingAssumption ==
  /\ Timeout \in Nat
  /\ MaxTime \in Nat
  /\ NoId \notin Ids
=============================================================================
