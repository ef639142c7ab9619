---------------------------- MODULE MCAuthStore ----------------------------
(* AuthStore on a few sectors. *)
EXTENDS AuthStore, TLC

CONSTANTS a, b
MCValues == {a, b}
MCSymmetry == Permutations(MCValues)
=============================================================================
