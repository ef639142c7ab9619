------------------------ MODULE MCFidoVerification ------------------------
(* FidoVerification for TLC: time is scaled down so that the clock can wrap. *)
EXTENDS FidoVerification
=============================================================================
