---------------------------- MODULE MCSeatModals ----------------------------
(* Model-checking instances of SeatModals: users and handlers are          *)
(* interchangeable.                                                        *)
EXTENDS SeatModals, TLC

Symmetric == Permutations(Users) \union Permutations(Tasks)
=============================================================================
