--------------------------- MODULE MCVerifierLoop ---------------------------
(* The instance of VerifierLoop that TLC checks.                           *)
EXTENDS VerifierLoop
=============================================================================
