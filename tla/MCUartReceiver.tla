--------------------------- MODULE MCUartReceiver ---------------------------
(* The instances of UartReceiver that TLC checks.                          *)
EXTENDS UartReceiver
=============================================================================
