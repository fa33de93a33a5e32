------------------------ MODULE MCHardwareAssignment ------------------------
(* Model-checking instances of HardwareAssignment: requests and users are  *)
(* interchangeable in the runs that check invariants alone.                *)
EXTENDS HardwareAssignment, TLC

Symmetric == Permutations(Requests) \union Permutations(Users)
=============================================================================
