-------------------------- MODULE MCProviderCalls ---------------------------
(* Finite instances of ProviderCalls for TLC. *)
EXTENDS ProviderCalls, TLC

MCMonths == 1..2
MCOneMonth == {1}
MCCosts == {1, 2}
MCItems == {1, 2}
MCOneItem == {1}

MCSymmetry == Permutations(Answers) \cup Permutations(Reservations)
=============================================================================
