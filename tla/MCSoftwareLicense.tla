------------------------- MODULE MCSoftwareLicense --------------------------
(* Symmetry for the model-checking instances of SoftwareLicense.  The      *)
(* acting user differs from the others only where users can be archived,   *)
(* which nobody is here.                                                   *)
EXTENDS SoftwareLicense, TLC

Symmetric == Permutations(AdminRequests) \union Permutations(Users)
=============================================================================
