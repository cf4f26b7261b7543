---------------------------- MODULE VerifierLoop ----------------------------
(***************************************************************************)
(* The verifier's main loop (instances/stm32/main.c) over its free-running *)
(* millisecond timer, which wraps: the deadline of a challenge, the        *)
(* interval between sessions, and last_session, which starts before zero.  *)
(*                                                                         *)
(* A turn of the loop is cut where it reads the timer, and time may pass   *)
(* between any two of these reads: saving a counter, sending a frame and   *)
(* checking a MAC take time.  A whole turn takes at most MaxTurn ms.       *)
(* Payloads and counters are left to Attestation.                          *)
(***************************************************************************)
EXTENDS Integers

CONSTANTS
  TimerMod,  \* 2^32, the values of TIM2
  Interval,  \* AUTH_INTERVAL_MS
  Lead,      \* the 2000 ms from boot to the first challenge
  Timeout,   \* AUTH_TIMEOUT_MS
  MaxTurn    \* the longest turn of the loop

ASSUME TimingAssumption ==
  /\ {TimerMod, Interval, Lead, Timeout, MaxTurn} \subseteq Nat
  /\ 0 < Lead /\ Lead <= Interval
  \* init_verifier refuses a timeout above INT32_MAX
  /\ 0 < Timeout /\ Timeout < TimerMod \div 2
  /\ Interval + 2 * MaxTurn < TimerMod
  /\ Timeout + 2 * MaxTurn < TimerMod

VARIABLES
  now,           \* HAL_GetTick
  at,            \* where the loop is
  outstanding,   \* verifier_t.outstanding
  started,       \* verifier_t.started_ms
  last_session,  \* of main
  phase,         \* board_phase
  spent          \* ms since this turn of the loop began

vars == <<now, at, outstanding, started, last_session, phase, spent>>

Times == 0 .. TimerMod - 1
Points == {"off", "poll", "decide", "make", "send", "sent", "read", "check",
           "timedOut", "ended", "fatal"}
Phases == {"OFF", "READY", "REQUEST", "PASS", "MISMATCH", "TIMEOUT", "ERROR"}

TypeOK ==
  /\ {now, started, last_session} \subseteq Times
  /\ at \in Points
  /\ outstanding \in BOOLEAN
  /\ phase \in Phases
  /\ spent \in 0 .. MaxTurn

Init ==
  /\ now = 0 /\ started = 0 /\ last_session = 0 /\ spent = 0
  /\ at = "off" /\ outstanding = FALSE /\ phase = "OFF"

-----------------------------------------------------------------------------
\* The difference of two uint32_t.
Minus(a, b) == (a - b) % TimerMod

\* auth_expired, with the time read now.
Expired(start, duration) == Minus(now, start) >= duration

GoTo(point) == at' = point /\ UNCHANGED <<now, spent>>
NextTurn == at' = "poll" /\ spent' = 0 /\ UNCHANGED now

\* verifier_cancel; started_ms means nothing without an outstanding challenge.
Cancel == outstanding' = FALSE /\ started' = 0
SessionEnds == last_session' = now

\* Faulty: the subtraction does not wrap.
FirstSessionSigned(time) == last_session' = time - (Interval - Lead)
FirstSession(time) == last_session' = Minus(time, Interval - Lead)

\* The timer starts at zero; board_init and init_verifier take some of its time.
Boot ==
  /\ at = "off"
  /\ \E time \in 0 .. MaxTurn : time < TimerMod /\ now' = time /\ FirstSession(time)
  /\ at' = "poll" /\ spent' = 0 /\ phase' = "READY"
  /\ UNCHANGED <<outstanding, started>>

-----------------------------------------------------------------------------
(* main.c:33-46: time out, then ask anew.                                  *)

PollIdle ==
  /\ at = "poll"
  /\ ~ (outstanding /\ Expired(started, Timeout))
  /\ GoTo("decide")
  /\ UNCHANGED <<outstanding, started, last_session, phase>>

PollTimeout ==
  /\ at = "poll"
  /\ outstanding /\ Expired(started, Timeout)
  /\ Cancel /\ phase' = "TIMEOUT"
  /\ GoTo("timedOut")
  /\ UNCHANGED last_session

AfterTimeout ==
  /\ at = "timedOut"
  /\ SessionEnds
  /\ GoTo("decide")
  /\ UNCHANGED <<outstanding, started, phase>>

Due == ~ outstanding /\ Expired(last_session, Interval)

DecideNot ==
  /\ at = "decide" /\ ~ Due
  /\ GoTo("read")
  /\ UNCHANGED <<outstanding, started, last_session, phase>>

DecideToAsk ==
  /\ at = "decide" /\ Due
  /\ GoTo("make")
  /\ UNCHANGED <<outstanding, started, last_session, phase>>

\* verifier_challenge succeeds: its counter is saved.
Challenge ==
  /\ at = "make"
  /\ outstanding' = TRUE /\ started' = now /\ phase' = "REQUEST"
  /\ GoTo("send")
  /\ UNCHANGED last_session

\* verifier_challenge fails, and main stops in board_fatal.
ChallengeFails ==
  /\ at = "make"
  /\ phase' = "ERROR"
  /\ GoTo("fatal")
  /\ UNCHANGED <<outstanding, started, last_session>>

Send ==
  /\ at = "send"
  /\ GoTo("sent")
  /\ UNCHANGED <<outstanding, started, last_session, phase>>

SendFails ==
  /\ at = "send"
  /\ Cancel /\ phase' = "ERROR"
  /\ GoTo("sent")
  /\ UNCHANGED last_session

AfterSend ==
  /\ at = "sent"
  /\ SessionEnds
  /\ GoTo("read")
  /\ UNCHANGED <<outstanding, started, phase>>

-----------------------------------------------------------------------------
(* main.c:47-98: one byte, which may complete a report.                    *)

\* No byte, or one that completes nothing.
ReadNothing ==
  /\ at = "read"
  /\ NextTurn
  /\ UNCHANGED <<outstanding, started, last_session, phase>>

\* A receive error, a damaged frame, or one of another type.
ReadError ==
  /\ at = "read"
  /\ phase' = "ERROR"
  /\ NextTurn
  /\ UNCHANGED <<outstanding, started, last_session>>

\* Faulty: a report that does not verify ends the session, too.
VerifyInvalidEnds ==
  /\ at = "read"
  /\ ~ (outstanding /\ Expired(started, Timeout))
  /\ SessionEnds
  /\ NextTurn
  /\ UNCHANGED <<outstanding, started, phase>>
\* verify, of a report nobody asked for or that does not authenticate.
VerifyInvalid ==
  /\ at = "read"
  /\ ~ (outstanding /\ Expired(started, Timeout))
  /\ NextTurn
  /\ UNCHANGED <<outstanding, started, last_session, phase>>

VerifyTimeout ==
  /\ outstanding /\ Expired(started, Timeout)
  /\ Cancel /\ phase' = "TIMEOUT"
  /\ GoTo("ended")
  /\ UNCHANGED last_session

\* The deadline is over before the report is looked at.
VerifyLate == at = "read" /\ VerifyTimeout

\* In time so far: the MAC is checked, and is right.
VerifyAuthentic ==
  /\ at = "read"
  /\ outstanding /\ ~ Expired(started, Timeout)
  /\ GoTo("check")
  /\ UNCHANGED <<outstanding, started, last_session, phase>>

\* Faulty: the deadline is not looked at again.
NoSecondPoll == at = "check"
SecondPoll == at = "check" /\ ~ Expired(started, Timeout)

CheckInTime ==
  /\ SecondPoll
  /\ Cancel /\ phase' \in {"PASS", "MISMATCH"}
  /\ GoTo("ended")
  /\ UNCHANGED last_session

\* The deadline passed while the MAC was checked.
CheckLate == at = "check" /\ VerifyTimeout

AfterVerify ==
  /\ at = "ended"
  /\ SessionEnds
  /\ NextTurn
  /\ UNCHANGED <<outstanding, started, phase>>

-----------------------------------------------------------------------------
Tick ==
  /\ at \notin {"off", "fatal"}
  /\ spent < MaxTurn
  /\ now' = (now + 1) % TimerMod
  /\ spent' = spent + 1
  /\ UNCHANGED <<at, outstanding, started, last_session, phase>>

Reset ==
  /\ at # "off"
  /\ now' = 0 /\ started' = 0 /\ last_session' = 0 /\ spent' = 0
  /\ at' = "off" /\ outstanding' = FALSE /\ phase' = "OFF"

Run ==
  \/ Boot
  \/ PollIdle \/ PollTimeout \/ AfterTimeout
  \/ DecideNot \/ DecideToAsk \/ Challenge \/ ChallengeFails
  \/ Send \/ SendFails \/ AfterSend
  \/ ReadNothing \/ ReadError
  \/ VerifyInvalid \/ VerifyLate \/ VerifyAuthentic
  \/ CheckInTime \/ CheckLate \/ AfterVerify

Next == Run \/ Tick \/ Reset

Spec == Init /\ [][Next]_vars

\* The loop keeps turning, and the timer runs.
FairSpec == Spec /\ WF_vars(Run) /\ WF_vars(Tick)

-----------------------------------------------------------------------------
(* The inductive invariant behind KeepsTime.                               *)

\* Where the loop is says whether a challenge is outstanding, or not yet.
StandsWithChallenge ==
  /\ at \in {"send", "check"} => outstanding
  /\ at \in {"off", "make", "timedOut", "ended", "fatal"} => ~ outstanding
  /\ at = "timedOut" => phase = "TIMEOUT"
  /\ at = "ended" => phase \in {"PASS", "MISMATCH", "TIMEOUT"}

\* A time the loop watches may be over by the turn that just missed it, until this
\* turn has looked.
Overdue(unseen) == IF at \in unseen THEN MaxTurn + spent ELSE spent

\* Neither of these times has run so long that the timer wraps on it.
NoWrap ==
  /\ outstanding => Minus(now, started) < Timeout + Overdue({"poll"})
  /\ ~ outstanding /\ at \in {"poll", "decide", "read"} =>
       Minus(now, last_session) < Interval + Overdue({"poll", "decide"})

\* At every reading of the timer the loop is still able to tell the time.
IInv == TypeOK /\ StandsWithChallenge /\ NoWrap

-----------------------------------------------------------------------------
Stage ==
  CASE at = "off" -> "off"
    [] at = "fatal" -> "stopped"
    [] at = "make" -> "making"
    [] outstanding -> "pending"
    [] at = "sent" /\ ~ outstanding -> "unsent"
    [] at \in {"timedOut", "ended"} ->
         IF phase = "TIMEOUT" THEN "expired" ELSE "answered"
    [] OTHER -> "idle"

\* ms since the last session ended, and since the challenge was issued.
Since == IF Stage = "idle" THEN Minus(now, last_session) ELSE 0
Age == IF outstanding THEN Minus(now, started) ELSE 0

Timing == INSTANCE SessionTiming WITH
  Slack <- 2 * MaxTurn, stage <- Stage, since <- Since, age <- Age

\* "Elapsed-time subtraction supports timer wraparound" (docs/protocol.md): on a
\* timer that wraps any number of times the loop keeps the times it would keep on
\* one that does not.  No verdict comes after a deadline, even if the deadline
\* passes during the check; no session comes early or is forgotten.
KeepsTime == Timing!Spec

\* As long as the verifier runs, another challenge is made, however much noise,
\* however many wrong reports and however many lost answers it gets.
SessionsGoOn == at \notin {"off", "fatal"} ~> at \in {"make", "off"}
=============================================================================
