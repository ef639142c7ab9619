---------------------------- MODULE MCEnrollment ----------------------------
(* Enrollment on a small OTP: the constants come from the .cfg files. *)
EXTENDS Enrollment
=============================================================================
