---------------------------- MODULE MCAttestation ----------------------------
(* The instances of Attestation that TLC checks.                           *)
EXTENDS Attestation
=============================================================================
