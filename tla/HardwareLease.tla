---------------------------- MODULE HardwareLease ---------------------------
(***************************************************************************)
(* What the assignment endpoints promise about one piece of hardware: at   *)
(* any time it is with nobody or with one user, and it changes hands only  *)
(* by coming back first.                                                   *)
(***************************************************************************)
CONSTANTS Users,
          Nobody   \* not a user: the asset is on the shelf

VARIABLE holder

LeaseTypeOK == holder \in Users \cup {Nobody}

LeaseInit == holder = Nobody

HandOut(u) == holder = Nobody /\ holder' = u

TakeBack == holder # Nobody /\ holder' = Nobody

LeaseNext == (\E u \in Users : HandOut(u)) \/ TakeBack

LeaseSpec == LeaseInit /\ [][LeaseNext]_holder
=============================================================================
