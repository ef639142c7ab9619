----------------------------- MODULE MCJournal ------------------------------
(* Journal on a small flash.  The two encodable values are interchangeable, *)
(* and every property of the run is a safety property.                      *)
EXTENDS Journal, TLC

CONSTANTS a, b, bad

MCEncodable == {a, b}
MCValues == {a, b, bad}
MCSymmetry == Permutations(MCEncodable)
=============================================================================
