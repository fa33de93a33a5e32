--------------------------- MODULE MCSeatService ----------------------------
(* Model-checking instances of SeatService: the requests are               *)
(* interchangeable in the run that checks an invariant alone.              *)
EXTENDS SeatService, TLC

SymmetricRequests == Permutations(Requests)
=============================================================================
