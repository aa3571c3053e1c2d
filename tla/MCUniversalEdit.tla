-------------------------- MODULE MCUniversalEdit --------------------------
(* Two servers, or one and its successor, and sessions they open in turn.   *)
EXTENDS UniversalEdit, TLC
IdSymmetry == Permutations(Sid) \cup Permutations(Server)
=============================================================================
