--------------------------- MODULE MCFlashAccess ---------------------------
(* The instance of FlashAccess that TLC checks.                            *)
EXTENDS FlashAccess
=============================================================================
