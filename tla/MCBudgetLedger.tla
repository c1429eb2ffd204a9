--------------------------- MODULE MCBudgetLedger ---------------------------
(* Finite instances of BudgetLedger for TLC. *)
EXTENDS BudgetLedger, TLC

MCMonths == 1..2
MCCosts == {1, 2}

\* Sessions and identifiers are interchangeable; safety runs only.
MCSymmetry == Permutations(Sessions) \cup Permutations(Reservations)
=============================================================================
