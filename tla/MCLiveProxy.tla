---------------------------- MODULE MCLiveProxy -----------------------------
(* Every fault, with and without the endpoint secret.  Requests meet only in
   the buffer of REORDER: three there, so that one is left over or a flush
   races an expiring hold; a signed and an unsigned one elsewhere. *)
EXTENDS LiveProxy

CONSTANTS r1, r2, r3

SomeArrivals == [f \in LiveFaults |-> IF f = "REORDER" THEN Requests ELSE {r1, r3}]
=============================================================================
