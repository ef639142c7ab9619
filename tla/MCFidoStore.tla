---------------------------- MODULE MCFidoStore ----------------------------
(* The FIDO store for TLC: the two values of a sector are interchangeable. *)
EXTENDS FidoStore, TLC

CONSTANTS a, b
ClientValues == {a, b}
ValueSymmetry == Permutations(ClientValues)
=============================================================================
