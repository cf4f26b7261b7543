--------------------------- MODULE FrameReceiver ---------------------------
(***************************************************************************)
(* auth_frame_feed, byte by byte, as main calls it: the buffer, the flag   *)
(* that discards what follows until a delimiter, the deadline of a frame   *)
(* on the wrapping millisecond timer, and the decoding.  Any byte may come *)
(* at any time.                                                            *)
(***************************************************************************)
EXTENDS Cobs

CONSTANTS
  Byte,          \* the values a byte takes
  TimerMod,      \* 2^32, the values of the timer
  FrameTimeout   \* AUTH_FRAME_TIMEOUT_MS

ASSUME ByteAssumption == Byte \subseteq 0 .. 255 /\ 0 \in Byte
ASSUME TimeoutAssumption ==
  TimerMod \in Nat /\ FrameTimeout \in Nat /\ 0 < FrameTimeout /\ FrameTimeout < TimerMod

VARIABLES
  now,               \* HAL_GetTick
  encoded, started, discard,  \* auth_receiver_t; used is the length of encoded
  outcome            \* what the last call returned, with its frame

receiver == <<encoded, started, discard>>
vars == <<now, receiver, outcome>>

Frame == Frames(Byte)
Nothing == [type |-> "none", payload |-> <<>>]
Failed == [type |-> "error", payload |-> <<>>]
Times == 0 .. TimerMod - 1

TypeOK ==
  /\ {now, started} \subseteq Times
  /\ encoded \in Seq(Byte \ {0}) /\ Len(encoded) <= EncodedSize
  /\ discard \in BOOLEAN
  /\ outcome \in {Nothing, Failed} \cup Frame

Init ==
  /\ now = 0 /\ started = 0 /\ encoded = <<>> /\ discard = FALSE
  /\ outcome = Nothing

-----------------------------------------------------------------------------
Age == (now - started) % TimerMod
Late == encoded # <<>> /\ Age >= FrameTimeout
Discarding == discard \/ Late
\* Faulty: the buffer takes one byte too many.
FullTooLate == Len(encoded) > EncodedSize
Full == Len(encoded) >= EncodedSize

FeedData(byte) ==
  /\ byte # 0
  /\ ~ Discarding /\ ~ Full
  /\ encoded' = Append(encoded, byte)
  /\ started' = IF encoded = <<>> THEN now ELSE started
  /\ outcome' = Nothing
  /\ UNCHANGED <<now, discard>>

FeedDataDiscarded(byte) ==
  /\ byte # 0
  /\ Discarding \/ Full
  /\ discard' = TRUE /\ outcome' = Nothing
  /\ UNCHANGED <<now, encoded, started>>

\* The delimiter empties the buffer, whatever comes of it.
FeedDelimiter ==
  /\ encoded' = <<>> /\ discard' = FALSE
  /\ UNCHANGED <<now, started>>
  /\ \/ /\ Discarding \/ (encoded # <<>> /\ Decode(encoded) = {})
        /\ outcome' = Failed
     \/ /\ ~ Discarding /\ encoded = <<>>
        /\ outcome' = Nothing
     \/ /\ ~ Discarding /\ encoded # <<>>
        /\ outcome' \in Decode(encoded)

\* main sets discard after link_read reports an error.
LinkError ==
  /\ discard' = TRUE /\ outcome' = Failed
  /\ UNCHANGED <<now, encoded, started>>

\* Assumed: a partial frame is not left alone for a whole cycle of the timer.
Tick ==
  /\ encoded # <<>> /\ ~ discard => Age < TimerMod - 1
  /\ now' = (now + 1) % TimerMod
  /\ outcome' = Nothing
  /\ UNCHANGED receiver

Next ==
  \/ \E byte \in Byte : FeedData(byte) \/ FeedDataDiscarded(byte)
  \/ FeedDelimiter \/ LinkError \/ Tick

Spec == Init /\ [][Next]_vars

-----------------------------------------------------------------------------
\* What is kept of the bytes since the last delimiter, and for how long.
Arrived == IF discard THEN <<>> ELSE encoded
Kept == IF Arrived = <<>> THEN 0 ELSE Age

Stream == INSTANCE FrameStream WITH
  Encoding <- Encode,
  Longest <- EncodedSize,
  Deadline <- FrameTimeout,
  arrived <- Arrived,
  age <- Kept,
  spoilt <- discard

\* What auth_frame_feed hands out are exactly the frames that were encoded: no
\* other bytes between two delimiters are taken for a frame, no frame is cut short
\* by a code, a length or a deadline that is not its own, and nothing of an earlier
\* frame, error or overlong run is in the next one ("Invalid lengths, COBS
\* overruns, buffer overflow, UART errors, or a 250 ms frame deadline discard the
\* frame.  Recovery occurs at the next delimiter.", docs/protocol.md).
DeliversFrames == Stream!Spec
=============================================================================
