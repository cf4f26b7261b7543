------------------------ MODULE VerifierLoop_proofs ------------------------
(***************************************************************************)
(* Theorems about the verifier's loop, for any timer width, interval,      *)
(* timeout and turn that TimingAssumption allows.                          *)
(*                                                                         *)
(* IInv is inductive (IInvHolds): the loop looks at each of its two times  *)
(* before the timer can wrap on it, so that each tick makes the difference *)
(* of two timer values larger by exactly one (Later).  With that the loop  *)
(* implements SessionTiming, whose clock never wraps (TimeKept).           *)
(***************************************************************************)
EXTENDS VerifierLoop, TLAPS

LEMMA Numbers ==
  /\ TimerMod \in Nat /\ Interval \in Nat /\ Lead \in Nat /\ Timeout \in Nat /\ MaxTurn \in Nat
  /\ 0 < TimerMod
  /\ 0 < Lead /\ Lead <= Interval
  /\ 0 < Timeout
  /\ Interval + 2 * MaxTurn < TimerMod
  /\ Timeout + 2 * MaxTurn < TimerMod
BY TimingAssumption

-----------------------------------------------------------------------------
(* The arithmetic of the timer.                                            *)

\* A number near zero, reduced to the timer's range.
LEMMA Reduced ==
  ASSUME NEW x \in Int
  PROVE  /\ x % TimerMod \in Times
         /\ x \in Times => x % TimerMod = x
         /\ - TimerMod <= x /\ x < 0 => x % TimerMod = x + TimerMod
         /\ TimerMod <= x /\ x < 2 * TimerMod => x % TimerMod = x - TimerMod
BY Numbers DEF Times

LEMMA MinusType == ASSUME NEW a \in Times, NEW b \in Times
                   PROVE  Minus(a, b) \in Times /\ Minus(a, b) \in Nat
<1>1. a - b \in Int
  BY Numbers DEF Times
<1>2. Minus(a, b) \in Times
  BY <1>1, Reduced DEF Minus
<1> QED BY <1>2, Numbers DEF Times

\* The two ways a difference comes about.
LEMMA MinusIs ==
  ASSUME NEW a \in Times, NEW b \in Times
  PROVE  Minus(a, b) = IF b <= a THEN a - b ELSE a - b + TimerMod
<1>1. a \in Int /\ b \in Int /\ a - b \in Int /\ - TimerMod <= a - b
  BY Numbers DEF Times
<1>2. CASE b <= a
  <2>1. a - b \in Times
    BY <1>2, Numbers DEF Times
  <2> QED BY <1>1, <1>2, <2>1, Reduced DEF Minus
<1>3. CASE ~ b <= a
  <2>1. a - b < 0
    BY <1>3, Numbers DEF Times
  <2> QED BY <1>1, <1>3, <2>1, Reduced DEF Minus
<1> QED BY <1>2, <1>3

LEMMA MinusSelf == ASSUME NEW a \in Times PROVE Minus(a, a) = 0
BY MinusIs, Numbers DEF Times

LEMMA NextTime ==
  ASSUME NEW a \in Times
  PROVE  (a + 1) % TimerMod = IF a = TimerMod - 1 THEN 0 ELSE a + 1
<1>1. a + 1 \in Int /\ a \in Int
  BY Numbers DEF Times
<1>2. CASE a = TimerMod - 1
  BY <1>1, <1>2, Reduced, Numbers
<1>3. CASE a # TimerMod - 1
  <2>1. a + 1 \in Times
    BY <1>3, Numbers DEF Times
  <2> QED BY <1>1, <1>3, <2>1, Reduced
<1> QED BY <1>2, <1>3

\* A tick makes an elapsed time one larger, unless the timer wraps on it.
LEMMA Later ==
  ASSUME NEW a \in Times, NEW b \in Times, Minus(a, b) + 1 < TimerMod
  PROVE  /\ (a + 1) % TimerMod \in Times
         /\ Minus((a + 1) % TimerMod, b) = Minus(a, b) + 1
<1> DEFINE next == (a + 1) % TimerMod
<1>1. next = IF a = TimerMod - 1 THEN 0 ELSE a + 1
  BY NextTime
<1>2. next \in Times
  BY <1>1, Numbers DEF Times
<1>3. Minus(next, b) = IF b <= next THEN next - b ELSE next - b + TimerMod
  BY <1>2, MinusIs
<1>4. Minus(a, b) = IF b <= a THEN a - b ELSE a - b + TimerMod
  BY MinusIs
<1> HIDE DEF next
<1>5. Minus(next, b) = Minus(a, b) + 1
  BY <1>1, <1>3, <1>4, Numbers DEF Times
<1> QED BY <1>2, <1>5 DEF next

\* last_session, set so far before the time, is so far behind it.
LEMMA MinusMinus ==
  ASSUME NEW a \in Times, NEW d \in Times
  PROVE  Minus(a, d) \in Times /\ Minus(a, Minus(a, d)) = d
<1> DEFINE b == Minus(a, d)
<1>1. b \in Times
  BY MinusType
<1>2. b = IF d <= a THEN a - d ELSE a - d + TimerMod
  BY MinusIs
<1>3. Minus(a, b) = IF b <= a THEN a - b ELSE a - b + TimerMod
  BY <1>1, MinusIs
<1> HIDE DEF b
<1>4. Minus(a, b) = d
  BY <1>1, <1>2, <1>3, Numbers DEF Times
<1> QED BY <1>1, <1>4 DEF b

-----------------------------------------------------------------------------
(* The invariant.                                                          *)

LEMMA ZeroIsTime == 0 \in Times /\ 0 \in 0 .. MaxTurn
BY Numbers DEF Times

\* What the types say, one variable at a time.
LEMMA Types ==
  ASSUME TypeOK
  PROVE  /\ now \in Times /\ started \in Times /\ last_session \in Times
         /\ spent \in Nat /\ spent <= MaxTurn
BY Numbers DEF TypeOK

LEMMA InitHolds == Init => IInv
BY ZeroIsTime DEF Init, IInv, TypeOK, Points, Phases, StandsWithChallenge, NoWrap

LEMMA TypeStep == ASSUME TypeOK, [Next]_vars PROVE TypeOK'
<1> USE ZeroIsTime DEF TypeOK, Points, Phases, GoTo, NextTurn, Cancel, SessionEnds
<1>1. CASE Boot
  <2>1. PICK time \in 0 .. MaxTurn : time < TimerMod /\ now' = time /\ FirstSession(time)
    BY <1>1 DEF Boot
  <2>2. now' \in Times /\ Interval - Lead \in Times
    BY <2>1, Numbers DEF Times
  <2>3. last_session' \in Times
    BY <2>1, <2>2, MinusType DEF FirstSession
  <2> QED BY <1>1, <2>2, <2>3 DEF Boot
<1>2. CASE PollIdle \/ PollTimeout \/ AfterTimeout
  BY <1>2 DEF PollIdle, PollTimeout, AfterTimeout
<1>3. CASE DecideNot \/ DecideToAsk \/ Challenge \/ ChallengeFails
  BY <1>3 DEF DecideNot, DecideToAsk, Challenge, ChallengeFails
<1>4. CASE Send \/ SendFails \/ AfterSend
  BY <1>4 DEF Send, SendFails, AfterSend
<1>5. CASE ReadNothing \/ ReadError \/ VerifyInvalid \/ VerifyAuthentic
  BY <1>5 DEF ReadNothing, ReadError, VerifyInvalid, VerifyAuthentic
<1>6. CASE VerifyLate \/ CheckInTime \/ CheckLate \/ AfterVerify
  BY <1>6 DEF VerifyLate, VerifyTimeout, CheckInTime, SecondPoll, CheckLate, AfterVerify
<1>7. CASE Tick
  <2>1. now + 1 \in Int
    BY Numbers DEF Times
  <2>2. now' \in Times
    BY <1>7, <2>1, Reduced DEF Tick
  <2>3. spent' \in 0 .. MaxTurn
    BY <1>7, Numbers DEF Tick
  <2> QED BY <1>7, <2>2, <2>3 DEF Tick
<1>8. CASE Reset
  BY <1>8 DEF Reset
<1>9. CASE UNCHANGED vars
  BY <1>9 DEF vars
<1> QED BY <1>1, <1>2, <1>3, <1>4, <1>5, <1>6, <1>7, <1>8, <1>9 DEF Next, Run

\* The loop cannot be somewhere without the challenge it is there for.
LEMMA StandsStep == ASSUME TypeOK, StandsWithChallenge, [Next]_vars PROVE StandsWithChallenge'
<1> USE DEF StandsWithChallenge, GoTo, NextTurn, Cancel
<1>1. CASE Boot \/ PollIdle \/ PollTimeout \/ AfterTimeout
  BY <1>1 DEF Boot, PollIdle, PollTimeout, AfterTimeout
<1>2. CASE DecideNot \/ DecideToAsk \/ Challenge \/ ChallengeFails
  BY <1>2 DEF DecideNot, DecideToAsk, Due, Challenge, ChallengeFails
<1>3. CASE Send \/ SendFails \/ AfterSend
  BY <1>3 DEF Send, SendFails, AfterSend
<1>4. CASE ReadNothing \/ ReadError \/ VerifyInvalid \/ VerifyAuthentic
  BY <1>4 DEF ReadNothing, ReadError, VerifyInvalid, VerifyAuthentic
<1>5. CASE VerifyLate \/ CheckInTime \/ CheckLate \/ AfterVerify
  BY <1>5 DEF VerifyLate, VerifyTimeout, CheckInTime, CheckLate, SecondPoll, AfterVerify
<1>6. CASE Tick \/ Reset \/ UNCHANGED vars
  BY <1>6 DEF Tick, Reset, vars
<1> QED BY <1>1, <1>2, <1>3, <1>4, <1>5, <1>6 DEF Next, Run

\* A tick never wraps the timer on a time the loop watches.
LEMMA TickCounts ==
  ASSUME IInv, Tick
  PROVE  /\ spent' = spent + 1
         /\ outstanding =>
              /\ Minus(now, started) < Timeout + 2 * MaxTurn
              /\ Minus(now', started) = Minus(now, started) + 1
         /\ ~ outstanding /\ at \in {"poll", "decide", "read"} =>
              /\ Minus(now, last_session) < Interval + 2 * MaxTurn
              /\ Minus(now', last_session) = Minus(now, last_session) + 1
<1>1. /\ now \in Times /\ started \in Times /\ last_session \in Times
      /\ spent \in Nat /\ spent < MaxTurn /\ spent' = spent + 1
      /\ now' = (now + 1) % TimerMod
  BY Types DEF IInv, Tick
<1>2. /\ Minus(now, started) \in Nat
      /\ Minus(now, last_session) \in Nat
  BY <1>1, MinusType
<1>3. ASSUME outstanding PROVE Minus(now, started) < Timeout + 2 * MaxTurn
  <2>1. Minus(now, started) < Timeout + Overdue({"poll"})
    BY <1>3 DEF IInv, NoWrap
  <2> QED BY <1>1, <1>2, <2>1, Numbers DEF Overdue
<1>4. ASSUME ~ outstanding, at \in {"poll", "decide", "read"}
      PROVE  Minus(now, last_session) < Interval + 2 * MaxTurn
  <2>1. Minus(now, last_session) < Interval + Overdue({"poll", "decide"})
    BY <1>4 DEF IInv, NoWrap
  <2> QED BY <1>1, <1>2, <2>1, Numbers DEF Overdue
<1>5. ASSUME outstanding PROVE Minus(now', started) = Minus(now, started) + 1
  <2>1. Minus(now, started) + 1 < TimerMod
    BY <1>2, <1>3, <1>5, Numbers
  <2> QED BY <1>1, <2>1, Later
<1>6. ASSUME ~ outstanding, at \in {"poll", "decide", "read"}
      PROVE  Minus(now', last_session) = Minus(now, last_session) + 1
  <2>1. Minus(now, last_session) + 1 < TimerMod
    BY <1>2, <1>4, <1>6, Numbers
  <2> QED BY <1>1, <2>1, Later
<1> QED BY <1>1, <1>3, <1>4, <1>5, <1>6

\* At boot the first session is Lead ms away.
LEMMA BootSets ==
  ASSUME TypeOK, Boot
  PROVE  /\ Minus(now', last_session') = Interval - Lead
         /\ Interval - Lead \in Nat /\ Interval - Lead < Interval
         /\ now' \in Times
<1>1. PICK time \in 0 .. MaxTurn : time < TimerMod /\ now' = time /\ FirstSession(time)
  BY DEF Boot
<1>2. now' \in Times /\ Interval - Lead \in Times
  BY <1>1, Numbers DEF Times
<1>3. Minus(now', last_session') = Interval - Lead
  BY <1>1, <1>2, MinusMinus DEF FirstSession
<1> QED BY <1>2, <1>3, Numbers DEF Times

LEMMA NoWrapStep == ASSUME IInv, TypeOK', [Next]_vars PROVE NoWrap'
<1>1. /\ now \in Times /\ started \in Times /\ last_session \in Times
      /\ spent \in Nat /\ spent <= MaxTurn
      /\ Minus(now, started) \in Nat /\ Minus(now, last_session) \in Nat
  BY Types, MinusType DEF IInv
<1>2. Minus(now, now) = 0
  BY <1>1, MinusSelf
<1>3. outstanding => Minus(now, started) < Timeout + Overdue({"poll"})
  BY DEF IInv, NoWrap
<1>4. ~ outstanding /\ at \in {"poll", "decide", "read"} =>
        Minus(now, last_session) < Interval + Overdue({"poll", "decide"})
  BY DEF IInv, NoWrap
<1>5. StandsWithChallenge
  BY DEF IInv
<1> USE Numbers
<1> USE DEF NoWrap, Overdue, GoTo, NextTurn, Cancel, SessionEnds, Expired, StandsWithChallenge
<1>6. CASE Boot
  <2>1. ~ outstanding' /\ at' = "poll" /\ spent' = 0
    BY <1>5, <1>6 DEF Boot
  <2> QED BY <1>6, <2>1, BootSets DEF IInv
<1>7. CASE PollIdle
  BY <1>1, <1>3, <1>4, <1>7 DEF PollIdle
<1>8. CASE PollTimeout
  BY <1>8 DEF PollTimeout
<1>9. CASE AfterTimeout
  BY <1>1, <1>2, <1>5, <1>9 DEF AfterTimeout
<1>10. CASE DecideNot
  BY <1>1, <1>3, <1>4, <1>10 DEF DecideNot, Due
<1>11. CASE DecideToAsk
  BY <1>11 DEF DecideToAsk, Due
<1>12. CASE Challenge
  BY <1>1, <1>2, <1>12 DEF Challenge
<1>13. CASE ChallengeFails
  BY <1>5, <1>13 DEF ChallengeFails
<1>14. CASE Send
  BY <1>1, <1>3, <1>14 DEF Send
<1>15. CASE SendFails
  BY <1>15 DEF SendFails
<1>16. CASE AfterSend
  BY <1>1, <1>2, <1>3, <1>16 DEF AfterSend
<1>17. CASE ReadNothing \/ ReadError \/ VerifyInvalid
  BY <1>1, <1>3, <1>4, <1>17 DEF ReadNothing, ReadError, VerifyInvalid
<1>18. CASE VerifyAuthentic
  BY <1>1, <1>3, <1>18 DEF VerifyAuthentic
<1>19. CASE VerifyLate \/ CheckInTime \/ CheckLate
  BY <1>19 DEF VerifyLate, VerifyTimeout, CheckInTime, SecondPoll, CheckLate
<1>20. CASE AfterVerify
  BY <1>1, <1>2, <1>5, <1>20 DEF AfterVerify
<1>21. CASE Tick
  <2>1. UNCHANGED <<at, outstanding, started, last_session>>
    BY <1>21 DEF Tick
  <2>2. outstanding => Minus(now', started) < Timeout + Overdue({"poll"}) + 1
    BY <1>1, <1>3, <1>21, TickCounts
  <2>3. ~ outstanding /\ at \in {"poll", "decide", "read"} =>
          Minus(now', last_session) < Interval + Overdue({"poll", "decide"}) + 1
    BY <1>1, <1>4, <1>21, TickCounts
  <2>4. spent' = spent + 1
    BY <1>21, TickCounts
  <2> QED BY <1>1, <2>1, <2>2, <2>3, <2>4
<1>22. CASE Reset
  BY <1>22 DEF Reset
<1>23. CASE UNCHANGED vars
  BY <1>3, <1>4, <1>23 DEF vars
<1> QED BY <1>6, <1>7, <1>8, <1>9, <1>10, <1>11, <1>12, <1>13, <1>14, <1>15, <1>16, <1>17,
           <1>18, <1>19, <1>20, <1>21, <1>22, <1>23 DEF Next, Run

LEMMA StepKeeps == IInv /\ [Next]_vars => IInv'
BY TypeStep, StandsStep, NoWrapStep DEF IInv

\* The inductive invariant: the loop never lets the timer wrap on a time it watches.
THEOREM IInvHolds == Spec => []IInv
BY InitHolds, StepKeeps, PTL DEF Spec

\* The types of the loop's variables, on a timer of any width.
THEOREM TypeCorrect == Spec => []TypeOK
<1>1. IInv => TypeOK
  BY DEF IInv
<1> QED BY IInvHolds, <1>1, PTL

-----------------------------------------------------------------------------
(* The refinement: each step of the loop is one of SessionTiming, or none. *)

\* Where SessionTiming says the session is, before a step and after it.
LEMMA Stages ==
  ASSUME StandsWithChallenge
  PROVE  /\ at = "off" => Stage = "off"
         /\ at = "fatal" => Stage = "stopped"
         /\ at = "make" => Stage = "making"
         /\ outstanding => Stage = "pending"
         /\ ~ outstanding /\ at = "sent" => Stage = "unsent"
         /\ ~ outstanding /\ at \in {"timedOut", "ended"} =>
              Stage = IF phase = "TIMEOUT" THEN "expired" ELSE "answered"
         /\ ~ outstanding /\ at \notin {"off", "fatal", "make", "sent", "timedOut", "ended"} =>
              Stage = "idle"
BY DEF Stage, StandsWithChallenge

LEMMA StagesNext ==
  ASSUME StandsWithChallenge'
  PROVE  /\ at' = "off" => Stage' = "off"
         /\ at' = "fatal" => Stage' = "stopped"
         /\ at' = "make" => Stage' = "making"
         /\ outstanding' => Stage' = "pending"
         /\ ~ outstanding' /\ at' = "sent" => Stage' = "unsent"
         /\ ~ outstanding' /\ at' \in {"timedOut", "ended"} =>
              Stage' = IF phase' = "TIMEOUT" THEN "expired" ELSE "answered"
         /\ ~ outstanding' /\ at' \notin {"off", "fatal", "make", "sent", "timedOut", "ended"} =>
              Stage' = "idle"
BY DEF Stage, StandsWithChallenge

\* A step of the loop that SessionTiming does not see.
LEMMA Unseen ==
  ASSUME Stage' = Stage, outstanding' = outstanding, UNCHANGED <<now, started>>,
         Stage = "idle" => UNCHANGED last_session
  PROVE  UNCHANGED Timing!timing
BY DEF Since, Age, Minus, Timing!timing

LEMMA InitImplements == Init => Timing!Init
<1> SUFFICES ASSUME Init PROVE Timing!Init
  OBVIOUS
<1>1. Stage = "off" /\ ~ outstanding
  BY Stages, InitHolds DEF Init, IInv
<1> QED BY <1>1 DEF Timing!Init, Since, Age

LEMMA StepImplements == ASSUME IInv, IInv', [Next]_vars PROVE [Timing!Next]_(Timing!timing)
<1>1. /\ now \in Times /\ started \in Times /\ last_session \in Times
      /\ Minus(now, started) \in Nat /\ Minus(now, last_session) \in Nat
  BY Types, MinusType DEF IInv
<1>2. Minus(now, now) = 0
  BY <1>1, MinusSelf
<1>3. StandsWithChallenge /\ StandsWithChallenge' /\ at \in Points
  BY DEF IInv, TypeOK
<1> USE <1>3, Stages, StagesNext, Numbers
<1> USE DEF GoTo, NextTurn, Cancel, SessionEnds, Expired
<1>4. CASE Boot
  <2>1. Stage = "off" /\ Stage' = "idle" /\ ~ outstanding /\ ~ outstanding'
    BY <1>3, <1>4 DEF Boot, StandsWithChallenge
  <2>2. Since = 0 /\ Since' = Interval - Lead /\ Age = 0 /\ Age' = 0
    BY <1>4, <2>1, BootSets DEF IInv, Since, Age
  <2> QED BY <2>1, <2>2 DEF Timing!Next, Timing!Start
<1>5. CASE PollIdle \/ DecideNot \/ Send \/ ReadNothing \/ ReadError \/ VerifyInvalid \/ VerifyAuthentic
  <2>1. /\ outstanding' = outstanding /\ UNCHANGED <<now, started, last_session>>
        /\ at \in {"poll", "decide", "send", "read"}
        /\ outstanding \/ (at # "send" /\ at' # "check")
        /\ at' \in {"poll", "decide", "sent", "read", "check"} /\ (at' = "sent" => at = "send")
    BY <1>5 DEF PollIdle, DecideNot, Send, ReadNothing, ReadError, VerifyInvalid, VerifyAuthentic,
                StandsWithChallenge
  <2>2. Stage' = Stage
    BY <1>3, <2>1 DEF StandsWithChallenge
  <2> QED BY <2>1, <2>2, Unseen
<1>6. CASE PollTimeout \/ VerifyLate \/ CheckLate
  <2>1. /\ outstanding /\ Minus(now, started) >= Timeout
        /\ ~ outstanding' /\ phase' = "TIMEOUT" /\ at' \in {"timedOut", "ended"}
        /\ at \in {"poll", "read", "check"}
    BY <1>6 DEF PollTimeout, VerifyLate, CheckLate, VerifyTimeout
  <2>2. Stage = "pending" /\ Stage' = "expired"
    BY <2>1
  <2>3. Since = 0 /\ Since' = 0 /\ Age >= Timeout /\ Age' = 0
    BY <2>1, <2>2 DEF Since, Age
  <2> QED BY <2>2, <2>3 DEF Timing!Next, Timing!Expire
<1>7. CASE AfterTimeout \/ AfterVerify
  <2>1. /\ at \in {"timedOut", "ended"} /\ ~ outstanding /\ ~ outstanding'
        /\ at' \in {"decide", "poll"} /\ now' = now /\ last_session' = now
    BY <1>3, <1>7 DEF AfterTimeout, AfterVerify, StandsWithChallenge
  <2>2. Stage \in {"expired", "answered"} /\ Stage' = "idle"
    BY <2>1
  <2>3. Since = 0 /\ Since' = 0 /\ Age = 0 /\ Age' = 0
    BY <1>2, <2>1, <2>2 DEF Since, Age
  <2> QED BY <2>2, <2>3 DEF Timing!Next, Timing!Close, Timing!Ended
<1>8. CASE DecideToAsk
  <2>1. /\ at = "decide" /\ at' = "make" /\ ~ outstanding /\ ~ outstanding'
        /\ Minus(now, last_session) >= Interval
    BY <1>8 DEF DecideToAsk, Due
  <2>2. Stage = "idle" /\ Stage' = "making"
    BY <2>1
  <2>3. Since >= Interval /\ Since' = 0 /\ Age = 0 /\ Age' = 0
    BY <2>1, <2>2 DEF Since, Age
  <2> QED BY <2>2, <2>3 DEF Timing!Next, Timing!Make
<1>9. CASE Challenge
  <2>1. /\ at = "make" /\ at' = "send" /\ ~ outstanding /\ outstanding'
        /\ now' = now /\ started' = now
    BY <1>3, <1>9 DEF Challenge, StandsWithChallenge
  <2>2. Stage = "making" /\ Stage' = "pending"
    BY <2>1
  <2>3. Since = 0 /\ Since' = 0 /\ Age = 0 /\ Age' = 0
    BY <1>2, <2>1, <2>2 DEF Since, Age
  <2> QED BY <2>2, <2>3 DEF Timing!Next, Timing!Issue
<1>10. CASE ChallengeFails
  <2>1. at = "make" /\ at' = "fatal" /\ ~ outstanding /\ ~ outstanding'
    BY <1>3, <1>10 DEF ChallengeFails, StandsWithChallenge
  <2>2. Stage = "making" /\ Stage' = "stopped"
    BY <2>1
  <2>3. Since = 0 /\ Since' = 0 /\ Age = 0 /\ Age' = 0
    BY <2>1, <2>2 DEF Since, Age
  <2> QED BY <2>2, <2>3 DEF Timing!Next, Timing!Stop
<1>11. CASE SendFails
  <2>1. at = "send" /\ at' = "sent" /\ outstanding /\ ~ outstanding'
    BY <1>3, <1>11 DEF SendFails, StandsWithChallenge
  <2>2. Stage = "pending" /\ Stage' = "unsent"
    BY <2>1
  <2>3. Since = 0 /\ Since' = 0 /\ Age' = 0
    BY <2>1, <2>2 DEF Since, Age
  <2> QED BY <2>2, <2>3 DEF Timing!Next, Timing!Unsent
<1>12. CASE AfterSend
  <2>1. /\ at = "sent" /\ at' = "read" /\ outstanding' = outstanding
        /\ UNCHANGED <<now, started>> /\ last_session' = now
    BY <1>12 DEF AfterSend
  <2>2. CASE outstanding
    <3>1. Stage = "pending" /\ Stage' = "pending"
      BY <2>1, <2>2
    <3> QED BY <2>1, <3>1, Unseen
  <2>3. CASE ~ outstanding
    <3>1. Stage = "unsent" /\ Stage' = "idle"
      BY <2>1, <2>3
    <3>2. Since = 0 /\ Since' = 0 /\ Age = 0 /\ Age' = 0
      BY <1>2, <2>1, <2>3, <3>1 DEF Since, Age
    <3> QED BY <3>1, <3>2 DEF Timing!Next, Timing!Close, Timing!Ended
  <2> QED BY <2>2, <2>3
<1>13. CASE CheckInTime
  <2>1. /\ at = "check" /\ outstanding /\ ~ Minus(now, started) >= Timeout
        /\ ~ outstanding' /\ at' = "ended" /\ phase' # "TIMEOUT"
    BY <1>3, <1>13 DEF CheckInTime, SecondPoll, StandsWithChallenge
  <2>2. Stage = "pending" /\ Stage' = "answered"
    BY <2>1
  <2>3. Since = 0 /\ Since' = 0 /\ Age < Timeout /\ Age' = 0
    BY <1>1, <2>1, <2>2 DEF Since, Age
  <2> QED BY <2>2, <2>3 DEF Timing!Next, Timing!Answer
<1>14. CASE Tick
  <2>1. /\ UNCHANGED <<at, outstanding, started, last_session, phase>>
        /\ at \notin {"off", "fatal"}
    BY <1>14 DEF Tick
  <2>2. Stage' = Stage
    BY <2>1 DEF Stage
  <2>3. Stage = "pending" <=> outstanding
    BY <1>3, <2>1 DEF StandsWithChallenge
  <2>4. Stage = "idle" => ~ outstanding /\ at \in {"poll", "decide", "read"}
    BY <1>3, <2>1, <2>3 DEF StandsWithChallenge, Points
  <2>5. /\ Stage = "idle" => Since < Interval + 2 * MaxTurn
        /\ Since' = IF Stage = "idle" THEN Since + 1 ELSE Since
    BY <1>14, <2>1, <2>2, <2>4, TickCounts DEF Since
  <2>6. /\ Stage = "pending" => Age < Timeout + 2 * MaxTurn
        /\ Age' = IF Stage = "pending" THEN Age + 1 ELSE Age
    BY <1>14, <2>1, <2>3, TickCounts DEF Age
  <2> QED BY <2>2, <2>5, <2>6 DEF Timing!Next, Timing!Pass
<1>15. CASE Reset
  <2>1. Stage' = "off" /\ ~ outstanding'
    BY <1>15 DEF Reset
  <2>2. Since' = 0 /\ Age' = 0
    BY <2>1 DEF Since, Age
  <2> QED BY <2>1, <2>2 DEF Timing!Next, Timing!Reset
<1>16. CASE UNCHANGED vars
  <2>1. Stage' = Stage
    BY <1>16 DEF Stage, vars
  <2> QED BY <1>16, <2>1, Unseen DEF vars
<1> QED BY <1>4, <1>5, <1>6, <1>7, <1>8, <1>9, <1>10, <1>11, <1>12, <1>13, <1>14, <1>15, <1>16
        DEF Next, Run

\* The loop implements SessionTiming: on a timer of any width that wraps any number
\* of times, no verdict comes after its deadline, no session early, and neither an
\* overdue session nor an overdue deadline goes unnoticed for more than two turns.
THEOREM TimeKept == Spec => KeepsTime
<1>1. IInv /\ IInv' /\ [Next]_vars => [Timing!Next]_(Timing!timing)
  BY StepImplements
<1> QED BY InitImplements, <1>1, IInvHolds, PTL DEF Spec, KeepsTime, Timing!Spec
=============================================================================
