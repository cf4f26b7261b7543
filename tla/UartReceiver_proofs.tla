------------------------ MODULE UartReceiver_proofs ------------------------
(***************************************************************************)
(* Theorems about the receiver at the pace of the UART, for frames of any  *)
(* length, any larger buffer and any display times.                        *)
(*                                                                         *)
(* IInv is inductive (IInvHolds): once a frame must be heard, the receiver *)
(* follows the line byte by byte until it is.                              *)
(***************************************************************************)
EXTENDS UartReceiver, TLAPS

LEMMA Numbers ==
  /\ FrameBytes \in Nat /\ FrameBytes > 0
  /\ Last \in Nat /\ Last > 2 /\ 0 \notin Places
  /\ Capacity \in Nat /\ Capacity > FrameBytes
BY FrameAssumption DEF Last, Places

\* The part of TypeOK that the prover takes apart from the numbers.
Flags ==
  /\ discard \in BOOLEAN /\ whole \in BOOLEAN /\ late \in BOOLEAN /\ heard \in BOOLEAN
  /\ fair \in BOOLEAN /\ inSync \in BOOLEAN /\ calm \in BOOLEAN

LEMMA InitHolds == Init => IInv
<1> SUFFICES ASSUME Init PROVE IInv
  OBVIOUS
<1>1. draw \in Nat
  BY DisplayAssumption DEF Init
<1>2. sent \in 0 .. Last /\ used \in 0 .. Capacity /\ busy \in 0 .. draw
  BY <1>1, Numbers DEF Init
<1>3. TypeOK
  BY <1>2 DEF Init, TypeOK
<1>4. Pending
  BY DEF Init, Pending, Promised
<1> QED BY <1>3, <1>4 DEF IInv

\* Every step keeps the types.
LEMMA TypeStep == ASSUME TypeOK, [Next]_vars PROVE TypeOK'
<1> USE Numbers DEF TypeOK, Flags, line, receiver
<1>0. draw \in Nat
  BY DisplayAssumption
<1>1. ASSUME ByteTime PROVE busy' \in 0 .. draw
  BY <1>0, <1>1 DEF ByteTime
<1>2. ASSUME NEW byte \in Places \cup {Stray}, Arrive(byte)
      PROVE  rdr' \in Places \cup {0, Stray} /\ err' \in BOOLEAN
  BY <1>2 DEF Arrive
<1>3. ASSUME SendOn, sent # 0 PROVE sent' \in 0 .. Last
  BY <1>3 DEF SendOn
<1>4. CASE StartFrame
  <2>1. draw' \in DrawTimes /\ sent' \in 0 .. Last /\ used' \in 0 .. Capacity
    BY <1>4 DEF StartFrame
  <2>2. busy' \in 0 .. draw' /\ rdr' \in Places \cup {0, Stray} /\ err' \in BOOLEAN
    BY <1>4 DEF StartFrame
  <2>3. late' \in BOOLEAN
    BY <1>4 DEF StartFrame
  <2>4. fair' \in BOOLEAN /\ inSync' \in BOOLEAN
    BY <1>4 DEF StartFrame
  <2> QED BY <1>4, <2>1, <2>2, <2>3, <2>4 DEF StartFrame
<1>5. CASE SendByte
  <2>1. sent \in Places
    BY <1>5 DEF SendByte, Places
  <2> QED BY <1>1, <1>2, <1>3, <1>5, <2>1 DEF SendByte, ByteTime
<1>6. CASE Silence
  BY <1>1, <1>6 DEF Silence, ByteTime
<1>7. CASE LoseByte
  BY <1>1, <1>3, <1>7 DEF LoseByte, ByteTime
<1>8. CASE DamageByte
  BY <1>1, <1>3, <1>8 DEF DamageByte, ByteTime
<1>9. CASE CutFrame
  BY <1>1, <1>9 DEF CutFrame, ByteTime
<1>10. CASE StrayByte
  <2>1. 1 \in Places
    BY DEF Places
  <2>2. rdr' \in Places \cup {0, Stray} /\ err' \in BOOLEAN
    BY <1>2, <1>10, <2>1 DEF StrayByte
  <2> QED BY <1>1, <1>10, <2>2 DEF StrayByte, ByteTime
<1>11. CASE LineCalms
  BY <1>11 DEF LineCalms
<1>12. CASE ReadError
  <2>1. draw' \in DrawTimes /\ sent' \in 0 .. Last /\ used' \in 0 .. Capacity
    BY <1>0, <1>12 DEF ReadError, Display
  <2>2. busy' \in 0 .. draw'
    BY <1>0, <1>12 DEF ReadError, Display
  <2>3. rdr' \in Places \cup {0, Stray} /\ err' \in BOOLEAN
    BY <1>12 DEF ReadError, Display
  <2>4. Flags'
    BY <1>12 DEF ReadError, Display
  <2> QED BY <2>1, <2>2, <2>3, <2>4
<1>13. CASE FeedDataDiscarded
  BY <1>13 DEF FeedDataDiscarded, Read
<1>14. CASE FeedData
  BY <1>14 DEF FeedData, Read, Full
<1>15. CASE FeedDelimiterError
  <2>1. draw' \in DrawTimes /\ sent' \in 0 .. Last /\ used' \in 0 .. Capacity
    BY <1>0, <1>15 DEF FeedDelimiterError, Read, Display
  <2>2. busy' \in 0 .. draw'
    BY <1>0, <1>15 DEF FeedDelimiterError, Read, Display
  <2>3. rdr' \in Places \cup {0, Stray} /\ err' \in BOOLEAN
    BY <1>15 DEF FeedDelimiterError, Read, Display
  <2>4. Flags'
    BY <1>15 DEF FeedDelimiterError, Read, Display
  <2> QED BY <2>1, <2>2, <2>3, <2>4
<1>16. CASE FeedEmpty
  BY <1>16 DEF FeedEmpty, Read
<1>17. CASE FeedFrame
  BY <1>0, <1>17 DEF FeedFrame, Read, Display
<1>18. CASE UNCHANGED vars
  BY <1>18 DEF vars
<1> QED BY <1>4, <1>5, <1>6, <1>7, <1>8, <1>9, <1>10, <1>11, <1>12, <1>13, <1>14,
           <1>15, <1>16, <1>17, <1>18 DEF Next, Feed

\* The steps of the line: on a calm one a byte arrives only in an empty register.
LEMMA LineStep ==
  ASSUME IInv,
         SendByte \/ Silence \/ LoseByte \/ DamageByte \/ CutFrame \/ StrayByte \/ LineCalms
  PROVE  Pending'
<1> SUFFICES ASSUME Promised', ~ heard' PROVE Undisturbed' /\ Follows'
  BY DEF Pending
<1>1. UNCHANGED receiver
  BY DEF SendByte, Silence, LoseByte, DamageByte, CutFrame, StrayByte, LineCalms, ByteTime
<1>2. UNCHANGED <<draw, fair, inSync>>
  BY DEF SendByte, Silence, LoseByte, DamageByte, CutFrame, StrayByte, LineCalms, ByteTime
<1>3. Undisturbed /\ Follows
  BY <1>1, <1>2 DEF IInv, Pending, Promised, receiver
<1>4. CASE SendByte
  <2>1. sent # 0 /\ rdr = 0 /\ sent \in Nat /\ sent <= Last
    BY <1>3, <1>4, Numbers DEF SendByte, ByteTime, LoopIsDone, Undisturbed, IInv, TypeOK
  <2>2. rdr' = sent /\ err' = err /\ busy' = 0 /\ calm' = calm
    BY <1>3, <1>4, <2>1 DEF SendByte, Arrive, ByteTime, Undisturbed
  <2>3. Arrived' = sent
    BY <1>4, <2>1, Numbers DEF SendByte, SendOn, Arrived
  <2>4. Got' = Got
    BY <2>1, <2>2, <2>3 DEF Got, Arrived
  <2> QED BY <1>1, <1>2, <1>3, <2>2, <2>3, <2>4 DEF Undisturbed, Follows, receiver
<1>5. CASE Silence
  BY <1>3, <1>5 DEF Silence, Undisturbed
<1>6. CASE LoseByte \/ DamageByte \/ CutFrame \/ StrayByte \/ LineCalms
  BY <1>3, <1>6 DEF Undisturbed, LoseByte, DamageByte, CutFrame, StrayByte, LineCalms
<1> QED BY <1>4, <1>5, <1>6

\* A frame that starts meets an empty register, and whatever is buffered is late.
LEMMA StartStep == ASSUME IInv, StartFrame PROVE Pending'
<1>1. Arrived' = 0 /\ Got' = 0
  BY DEF StartFrame, Quiet, Arrived, Got
<1>2. Promised' => Undisturbed'
  BY <1>1 DEF StartFrame, Quiet, Undisturbed, Promised
<1>3. Promised' => Follows'
  <2>1. inSync' => used' = 0 /\ ~ discard'
    BY DEF StartFrame
  <2>2. used \in Nat /\ used' = used
    BY Numbers DEF StartFrame, IInv, TypeOK
  <2>3. late' <=> used > 0
    BY <2>2 DEF StartFrame
  <2> QED BY <1>1, <2>1, <2>2, <2>3, Numbers DEF Follows
<1> QED BY <1>2, <1>3 DEF Pending

\* The loop reads the byte that arrived last, the next one of the frame.
LEMMA ReadsNext ==
  ASSUME IInv, Undisturbed, Follows, Read, UNCHANGED line
  PROVE  /\ Got' = Got + 1 /\ rdr = Got' /\ Got \in 0 .. Last - 1
         /\ Arrived' = Arrived /\ (IsDelimiter(rdr) <=> Got \in {0, Last - 1})
<1>1. rdr = Arrived /\ rdr # 0 /\ rdr' = 0 /\ Arrived' = Arrived
  BY DEF Undisturbed, Read, Arrived, line
<1>2. Arrived \in 0 .. Last
  BY Numbers DEF IInv, TypeOK, Arrived
<1> QED BY <1>1, <1>2, Numbers DEF Got, IsDelimiter

LEMMA FeedStep == ASSUME IInv, ReadError \/ Feed PROVE Pending'
<1> SUFFICES ASSUME Promised', ~ heard' PROVE Undisturbed' /\ Follows'
  BY DEF Pending
<1>1. UNCHANGED <<draw, line>> /\ ~ heard
  BY DEF ReadError, Feed, FeedDataDiscarded, FeedData, FeedDelimiterError, FeedEmpty,
         FeedFrame, Read, receiver
<1>2. Undisturbed /\ Follows /\ Promised
  BY <1>1 DEF IInv, Pending, Promised, line
<1>3. ~ ReadError
  BY <1>2 DEF ReadError, Undisturbed
<1>4. Read
  BY <1>3 DEF Feed, FeedDataDiscarded, FeedData, FeedDelimiterError, FeedEmpty, FeedFrame
<1>5. /\ Got' = Got + 1 /\ rdr = Got' /\ Got \in 0 .. Last - 1
      /\ Arrived' = Arrived /\ (IsDelimiter(rdr) <=> Got \in {0, Last - 1})
  BY <1>1, <1>2, <1>4, ReadsNext
<1>6. used \in Nat /\ {discard, whole, late} \subseteq BOOLEAN /\ draw \in Nat
  BY Numbers, DisplayAssumption DEF IInv, TypeOK
<1>7. ASSUME busy' = 0 PROVE Undisturbed'
  BY <1>1, <1>2, <1>4, <1>5, <1>7 DEF Undisturbed, Read, line
<1>8. CASE FeedDataDiscarded
  <2>1. Got > 0 /\ Got < Last - 1
    BY <1>5, <1>8, Numbers DEF FeedDataDiscarded
  <2>2. used = Got - 1 /\ ~ discard /\ (Got > 1 => ~ late)
    BY <1>2, <2>1 DEF Follows
  <2>3. ~ Discarding /\ ~ Full
    BY <1>5, <2>1, <2>2, Numbers DEF Discarding, Full, Last
  <2> QED BY <1>8, <2>3 DEF FeedDataDiscarded
<1>9. CASE FeedData
  <2>1. Got > 0 /\ Got < Last - 1
    BY <1>5, <1>9, Numbers DEF FeedData
  <2>2. used = Got - 1 /\ ~ discard /\ (Got > 1 => whole /\ ~ late)
    BY <1>2, <2>1 DEF Follows
  <2>3. used' = Got /\ ~ discard'
    BY <1>5, <1>9, <2>2, Numbers DEF FeedData
  <2>4. rdr = used + 2 /\ (used = 0 \/ whole) /\ ~ (used > 0 /\ late)
    BY <1>5, <2>1, <2>2, Numbers
  <2>5. whole' /\ ~ late'
    BY <1>9, <2>4, Zenon DEF FeedData
  <2>6. Follows'
    BY <1>5, <2>1, <2>3, <2>4, <2>5, Numbers DEF Follows
  <2>7. busy' = 0
    BY <1>2, <1>9 DEF FeedData, Undisturbed
  <2> QED BY <1>7, <2>6, <2>7
<1>10. CASE FeedDelimiterError
  <2>1. Got = 0
    <3> SUFFICES ASSUME Got = Last - 1 PROVE FALSE
      BY <1>5, <1>10 DEF FeedDelimiterError
    <3>1. used = FrameBytes /\ ~ discard /\ whole /\ ~ late
      BY <1>2, Numbers DEF Follows, Last
    <3> QED BY <1>10, <3>1 DEF FeedDelimiterError, Discarding, Decodes
  <2>2. ~ inSync
    BY <1>2, <1>6, <1>10, <2>1 DEF Follows, FeedDelimiterError, Discarding
  <2>3. draw = 0
    BY <1>2, <2>2 DEF Promised
  <2>4. used' = 0 /\ ~ discard' /\ busy' = 0
    BY <1>10, <2>3 DEF FeedDelimiterError, Display
  <2>5. Follows'
    BY <1>5, <2>1, <2>4, Numbers DEF Follows
  <2> QED BY <1>7, <2>4, <2>5
<1>11. CASE FeedEmpty
  <2>1. Got = 0
    <3> SUFFICES ASSUME Got = Last - 1 PROVE FALSE
      BY <1>5, <1>11 DEF FeedEmpty
    <3>1. used = FrameBytes
      BY <1>2, Numbers DEF Follows, Last
    <3> QED BY <1>11, <3>1, Numbers DEF FeedEmpty
  <2>2. used' = 0 /\ ~ discard' /\ busy' = 0
    BY <1>2, <1>11 DEF FeedEmpty, Discarding, Undisturbed, receiver
  <2>3. Follows'
    BY <1>5, <2>1, <2>2, Numbers DEF Follows
  <2> QED BY <1>7, <2>2, <2>3
<1>12. CASE FeedFrame
  BY <1>12 DEF FeedFrame
<1> QED BY <1>3, <1>8, <1>9, <1>10, <1>11, <1>12 DEF Feed

-----------------------------------------------------------------------------
\* The inductive invariant holds throughout.
THEOREM IInvHolds == Spec => []IInv
<1>1. IInv /\ [Next]_vars => IInv'
  <2> SUFFICES ASSUME IInv, [Next]_vars PROVE IInv'
    OBVIOUS
  <2>1. TypeOK'
    BY TypeStep DEF IInv
  <2>2. CASE UNCHANGED vars
    <3>1. Promised' = Promised /\ Undisturbed' = Undisturbed /\ Follows' = Follows
      BY <2>2 DEF Promised, Undisturbed, Follows, Arrived, Got, vars, line, receiver
    <3>2. Pending'
      BY <2>2, <3>1 DEF IInv, Pending, vars, receiver
    <3> QED BY <2>1, <3>2 DEF IInv
  <2>3. Next => Pending'
    BY LineStep, StartStep, FeedStep DEF Next
  <2> QED BY <2>1, <2>2, <2>3 DEF IInv
<1> QED BY <1>1, InitHolds, PTL DEF Spec

\* Every variable of the receiver keeps its type: in particular auth_frame_feed never
\* buffers more bytes than there is room for.
THEOREM TypeCorrect == Spec => []TypeOK
<1>1. IInv => TypeOK
  BY DEF IInv
<1> QED BY <1>1, IInvHolds, PTL

\* Between frames, all of a frame has arrived and been read.
LEMMA AllRead == ASSUME IInv, Quiet, Promised PROVE heard
<1> SUFFICES ASSUME ~ heard PROVE FALSE
  OBVIOUS
<1>1. Got < Last
  BY DEF IInv, Pending, Follows
<1> QED BY <1>1, Numbers DEF Quiet, Got, Arrived

\* A board without a display hears every frame sent over a calm line, whatever state
\* earlier faults left auth_receiver_t in.
THEOREM RecoversWithoutDisplay == Spec => []HeardWithoutDisplay
<1>1. IInv => HeardWithoutDisplay
  BY AllRead DEF HeardWithoutDisplay, Promised
<1> QED BY <1>1, IInvHolds, PTL

\* Any board, however slow its display, hears a frame that meets auth_receiver_t in
\* sync.
THEOREM StaysInSync == Spec => []HeardInSync
<1>1. IInv => HeardInSync
  BY AllRead DEF HeardInSync, Promised
<1> QED BY <1>1, IInvHolds, PTL
=============================================================================
