--------------------------- MODULE MCRequestPath ---------------------------
(* TLC instance of RequestPath: a key is a start and a request id. *)
EXTENDS RequestPath

PathKeys == Boots \X Ids
=============================================================================
