----------------------------- MODULE SeatLedger -----------------------------
(***************************************************************************)
(* What the seat endpoints promise about one software license, with every  *)
(* request reduced to one atomic step: who holds a seat, and how many      *)
(* seats the license row charges (LicenseSeatsUsed).  The counter is       *)
(* allowed to run ahead of the holders (Leak), never behind them.          *)
(***************************************************************************)
EXTENDS Naturals, FiniteSets

CONSTANTS Users,    \* people who can hold a seat
          Total     \* LicenseTotalSeats

VARIABLES holders,  \* users with an open seat
          charged   \* LicenseSeatsUsed

ledgerVars == <<holders, charged>>

LedgerTypeOK == holders \subseteq Users /\ charged \in 0..Total

LedgerInit == holders = {} /\ charged = 0

\* A seat is granted only while the license charges fewer seats than it has.
Grant(u) ==
    /\ u \notin holders
    /\ charged < Total
    /\ holders' = holders \cup {u}
    /\ charged' = charged + 1

Revoke(u) ==
    /\ u \in holders
    /\ holders' = holders \ {u}
    /\ charged' = charged - 1

\* The holder leaves and the license keeps charging the seat.
Leak(u) ==
    /\ u \in holders
    /\ holders' = holders \ {u}
    /\ UNCHANGED charged

\* A seat charged for nobody is given back.
Reclaim ==
    /\ charged > Cardinality(holders)
    /\ charged' = charged - 1
    /\ UNCHANGED holders

LedgerNext ==
    \/ \E u \in Users : Grant(u) \/ Revoke(u) \/ Leak(u)
    \/ Reclaim

LedgerSpec == LedgerInit /\ [][LedgerNext]_ledgerVars
=============================================================================
