---------------------------- MODULE UartReceiver ----------------------------
(***************************************************************************)
(* The receiving half of instances/stm32/main.c, at the pace of the UART:  *)
(* the register that holds one byte, link_read, auth_frame_feed, and the   *)
(* time the display of an error takes, during which nobody reads the       *)
(* register.  On the STM32H743 that display is the LCD, redrawn over SPI   *)
(* by board_report_error before the loop goes on; the STM32G431 has none.  *)
(*                                                                         *)
(* The peer sends a frame as auth_frame_send does, a delimiter, the data   *)
(* bytes, a delimiter, back to back.  Frames are seconds apart: longer     *)
(* than the frame deadline and than any drawing.  A byte is named by its   *)
(* place in its frame.  Time is counted in byte times; a turn of the loop  *)
(* that displays nothing takes none.                                       *)
(*                                                                         *)
(* The line may lose, damage and add bytes and cut frames short, until it  *)
(* is calm.                                                                *)
(***************************************************************************)
EXTENDS Naturals

CONSTANTS
  FrameBytes,  \* data bytes of a frame, between its delimiters
  Capacity,    \* size of auth_receiver_t.encoded
  DrawTimes,   \* byte times a display may take; 0 is a board without a display
  Stray        \* a data byte that belongs to no frame

ASSUME FrameAssumption == FrameBytes \in Nat \ {0} /\ Capacity \in Nat /\ Capacity > FrameBytes
\* Drawing the panel takes over 25 ms, a frame less than 8 ms.
ASSUME DisplayAssumption == \A d \in DrawTimes : d \in Nat /\ (d = 0 \/ d > FrameBytes + 2)
ASSUME StrayAssumption == Stray \notin Nat

VARIABLES
  draw,     \* the board's display time
  sent,     \* the place of the next byte the peer sends, 0 between frames
  rdr,      \* the receive register: the place of its byte, Stray, or 0 if empty
  err,      \* the UART's overrun, framing, noise or parity flag
  used, discard,  \* auth_receiver_t.used and .discard
  whole,    \* the buffered bytes are the first ones of one frame, none missing
  late,     \* the frame deadline of the buffered bytes has passed
  busy,     \* byte times until the loop reads the UART again
  heard,    \* the last frame sent was decoded
  fair, inSync,  \* history: the last frame met a calm line; a receiver in sync
  calm      \* the line is faultless from here on

line == <<sent, fair, inSync, calm>>
receiver == <<used, discard, whole, late, heard>>
vars == <<draw, line, rdr, err, receiver, busy>>

Last == FrameBytes + 2
Places == 1 .. Last
IsDelimiter(byte) == byte \in {1, Last}

TypeOK ==
  /\ draw \in DrawTimes
  /\ sent \in 0 .. Last
  /\ rdr \in Places \cup {0, Stray}
  /\ err \in BOOLEAN
  /\ used \in 0 .. Capacity
  /\ busy \in 0 .. draw
  /\ discard \in BOOLEAN /\ whole \in BOOLEAN /\ late \in BOOLEAN /\ heard \in BOOLEAN
  /\ fair \in BOOLEAN /\ inSync \in BOOLEAN /\ calm \in BOOLEAN

Init ==
  /\ draw \in DrawTimes
  /\ sent = 0 /\ rdr = 0 /\ err = FALSE
  /\ used = 0 /\ discard = FALSE /\ whole = FALSE /\ late = FALSE
  /\ busy = 0
  /\ heard = FALSE /\ fair = FALSE /\ inSync = FALSE /\ calm = FALSE

-----------------------------------------------------------------------------
(* The UART: a byte that arrives while another waits is an overrun.        *)

Arrive(byte) ==
  IF rdr = 0 THEN rdr' = byte /\ err' = err ELSE rdr' = rdr /\ err' = TRUE

\* The loop is much faster than the line: it has read what there was.
LoopIsDone == busy > 0 \/ (rdr = 0 /\ ~ err)

ByteTime ==
  /\ LoopIsDone
  /\ busy' = IF busy = 0 THEN 0 ELSE busy - 1
  /\ UNCHANGED <<draw, receiver, fair, inSync, calm>>

Quiet == sent = 0 /\ busy = 0 /\ rdr = 0 /\ ~ err

\* After seconds of silence; the deadline of what is buffered has long passed.
StartFrame ==
  /\ Quiet
  /\ sent' = 1
  /\ late' = (used > 0)
  /\ heard' = FALSE
  /\ fair' = calm
  /\ inSync' = (calm /\ used = 0 /\ ~ discard)
  /\ UNCHANGED <<draw, rdr, err, used, discard, whole, busy, calm>>

SendOn == sent' = IF sent = Last THEN 0 ELSE sent + 1

SendByte ==
  /\ sent # 0
  /\ Arrive(sent)
  /\ SendOn
  /\ ByteTime

Silence ==
  /\ sent = 0 /\ busy > 0
  /\ UNCHANGED <<sent, rdr, err>>
  /\ ByteTime

LoseByte ==
  /\ sent # 0 /\ ~ calm
  /\ SendOn
  /\ UNCHANGED <<rdr, err>>
  /\ ByteTime

\* A framing, noise or parity error: link_read will flush the byte.
DamageByte ==
  /\ sent # 0 /\ ~ calm
  /\ err' = TRUE
  /\ SendOn
  /\ UNCHANGED rdr
  /\ ByteTime

\* The peer resets while it sends.
CutFrame ==
  /\ sent # 0 /\ ~ calm
  /\ sent' = 0
  /\ UNCHANGED <<rdr, err>>
  /\ ByteTime

\* A byte, or what the UART takes for one, out of nowhere.
StrayByte ==
  /\ sent = 0 /\ ~ calm
  /\ \/ \E byte \in {1, Stray} : Arrive(byte)
     \/ err' = TRUE /\ UNCHANGED rdr
  /\ UNCHANGED sent
  /\ ByteTime

LineCalms ==
  /\ ~ calm
  /\ calm' = TRUE
  /\ UNCHANGED <<draw, sent, fair, inSync, rdr, err, receiver, busy>>

-----------------------------------------------------------------------------
(* The loop: link_read, then auth_frame_feed.                              *)

\* board_report_error, and what handling a frame displays.
Display == busy' = draw

\* link_read clears the flags, flushes the register and returns -1.
ReadError ==
  /\ busy = 0 /\ err
  /\ err' = FALSE /\ rdr' = 0
  /\ discard' = TRUE
  /\ Display
  /\ UNCHANGED <<draw, line, used, whole, late, heard>>

\* link_read returns the byte in the register.
Read == busy = 0 /\ ~ err /\ rdr # 0 /\ rdr' = 0 /\ UNCHANGED <<draw, line, err>>

Discarding == discard \/ (used > 0 /\ late)
\* Faulty: the buffer takes one byte too many.
FullTooLate == used > Capacity
Full == used >= Capacity

FeedDataDiscarded ==
  /\ ~ IsDelimiter(rdr)
  /\ Discarding \/ Full
  /\ Read
  /\ discard' = TRUE
  /\ UNCHANGED <<used, whole, late, heard, busy>>

FeedData ==
  /\ ~ IsDelimiter(rdr)
  /\ ~ Discarding /\ ~ Full
  /\ Read
  /\ used' = used + 1
  /\ whole' = (rdr = used + 2 /\ (used = 0 \/ whole))
  /\ late' = (used > 0 /\ late)
  /\ UNCHANGED <<discard, heard, busy>>

Decodes == used = FrameBytes /\ whole

\* Faulty: the delimiter does not end the discarding.
FeedDelimiterStuck ==
  /\ IsDelimiter(rdr)
  /\ Discarding \/ (used > 0 /\ ~ Decodes)
  /\ Read
  /\ used' = 0
  /\ Display
  /\ UNCHANGED <<discard, whole, late, heard>>
\* The delimiter that ends a discarded, damaged or partial frame.
FeedDelimiterError ==
  /\ IsDelimiter(rdr)
  /\ Discarding \/ (used > 0 /\ ~ Decodes)
  /\ Read
  /\ used' = 0 /\ discard' = FALSE
  /\ Display
  /\ UNCHANGED <<whole, late, heard>>

\* Faulty: an empty frame is an error.
FeedEmptyReported ==
  /\ IsDelimiter(rdr)
  /\ ~ Discarding /\ used = 0
  /\ Read
  /\ Display
  /\ UNCHANGED receiver
FeedEmpty ==
  /\ IsDelimiter(rdr)
  /\ ~ Discarding /\ used = 0
  /\ Read
  /\ UNCHANGED <<receiver, busy>>

\* The frame is decoded, and handled before the loop reads on.
FeedFrame ==
  /\ IsDelimiter(rdr)
  /\ ~ Discarding /\ Decodes
  /\ Read
  /\ used' = 0 /\ heard' = TRUE
  /\ Display
  /\ UNCHANGED <<discard, whole, late>>

Feed == FeedDataDiscarded \/ FeedData \/ FeedDelimiterError \/ FeedEmpty \/ FeedFrame

Next ==
  \/ StartFrame \/ SendByte \/ Silence
  \/ LoseByte \/ DamageByte \/ CutFrame \/ StrayByte \/ LineCalms
  \/ ReadError \/ Feed

Spec == Init /\ [][Next]_vars

\* The peer keeps sending frames, the line delivers what it does not lose, and the
\* loop keeps turning.
Fairness ==
  /\ WF_vars(StartFrame) /\ WF_vars(SendByte) /\ WF_vars(Silence)
  /\ WF_vars(ReadError) /\ WF_vars(Feed)

FairSpec == Spec /\ Fairness

-----------------------------------------------------------------------------
\* A board without a display hears every frame sent over a calm line, in whatever
\* state earlier faults left its receiver: "a leading delimiter recovers a peer
\* left inside a truncated frame" (auth_transport.c:98).
HeardWithoutDisplay == Quiet /\ fair /\ draw = 0 => heard

\* Any board hears a frame that meets a receiver in sync.
HeardInSync == Quiet /\ inSync => heard

(* The inductive invariant behind these.                                   *)

\* The bytes of the frame that arrived, and how many of them the loop has read.
Arrived == IF sent = 0 THEN Last ELSE sent - 1
Got == IF rdr = 0 THEN Arrived ELSE Arrived - 1

\* The frame must be heard.
Promised == inSync \/ (fair /\ draw = 0)

\* Nothing disturbs the line, and the loop keeps pace with it.
Undisturbed == calm /\ ~ err /\ busy = 0 /\ rdr \in {0, Arrived}

\* The receiver holds just what it has read of the frame.  Before the leading
\* delimiter an old part of another frame may be there, if nothing is displayed when
\* it goes.
Follows ==
  /\ Got < Last
  /\ Got = 0 => IF inSync THEN used = 0 /\ ~ discard ELSE used = 0 \/ late
  /\ Got > 0 => used = Got - 1 /\ ~ discard
  /\ Got > 1 => whole /\ ~ late

Pending == Promised /\ ~ heard => Undisturbed /\ Follows

\* Once a frame has to be heard, auth_frame_feed has followed the line up to here.
IInv == TypeOK /\ Pending

-----------------------------------------------------------------------------
\* docs/protocol.md: after a discarded frame "recovery occurs at the next
\* delimiter".  Once the line is calm, some later frame is heard.
RecoversOnceCalm == calm ~> heard
=============================================================================
