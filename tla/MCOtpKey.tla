------------------------------ MODULE MCOtpKey ------------------------------
(***************************************************************************)
(* OtpKey as it is: its state is finite.                                   *)
(***************************************************************************)
EXTENDS OtpKey
============================================================================
