---------------------------- MODULE MCSearchPage ----------------------------
(* Model-checking instances of SearchPage.                                 *)
EXTENDS SearchPage, TLC
=============================================================================
