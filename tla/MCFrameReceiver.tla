-------------------------- MODULE MCFrameReceiver --------------------------
(* The instance of FrameReceiver that TLC checks.                          *)
EXTENDS FrameReceiver

\* All a type, a length or a code can be in the instance, and the delimiter.
MCByte == 0 .. RequestLen + 3
=============================================================================
