---------------------------- MODULE MCWebRequests ----------------------------
(***************************************************************************)
(* Symmetry of the instance of WebRequests for TLC.                          *)
(***************************************************************************)
EXTENDS WebRequests, TLC

MCSymmetry == Permutations(Clients) \cup Permutations(Requests)
=============================================================================
