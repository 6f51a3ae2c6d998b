---------------------------- MODULE MCTokenService ----------------------------
(* Symmetry sets for the TLC runs of TokenService. *)
EXTENDS TokenService, TLC

RequestSymmetry == Permutations(Requests)
UserAndRequestSymmetry == Permutations(Requests) \cup Permutations(Users)
=============================================================================
