---------------------------- MODULE MCAuditFeed -----------------------------
(* Symmetry for the model-checking instances of AuditFeed.                 *)
EXTENDS AuditFeed, TLC

SymmetricWriters == Permutations(Writers)
=============================================================================
