---------------------------- MODULE MCFidoHid ----------------------------
(* FidoHid for TLC; the bounds are in the configuration file. *)
EXTENDS FidoHid
=============================================================================
