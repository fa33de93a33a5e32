----------------------------- MODULE MCAdminPage ----------------------------
(* Symmetry for the model-checking instance of AdminPage.                   *)
EXTENDS AdminPage, TLC

Symmetric == Permutations(People) \cup Permutations(Tasks) \cup Permutations(Offices)
=============================================================================
