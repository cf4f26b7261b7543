---------------------------- MODULE SessionTiming ----------------------------
(***************************************************************************)
(* When the verifier may do what, by a clock that never wraps              *)
(* (docs/protocol.md, Time and scheduling): the first challenge comes Lead *)
(* ms after boot, every later one Interval ms after the previous session   *)
(* ended; a challenge is answered before its deadline or expires at it.    *)
(* Slack bounds how late the verifier may notice that a time has come.     *)
(***************************************************************************)
EXTENDS Naturals

CONSTANTS Interval, Lead, Timeout, Slack

VARIABLES
  stage,  \* where the session is
  since,  \* ms since the last session ended, while none is under way
  age     \* ms since the challenge was issued, while it is outstanding

timing == <<stage, since, age>>

Ended == {"answered", "expired", "unsent"}

Init == stage = "off" /\ since = 0 /\ age = 0

Start ==
  /\ stage = "off"
  /\ stage' = "idle" /\ since' = Interval - Lead
  /\ UNCHANGED age

\* Time does not pass a moment at which something is due by more than Slack.
Pass ==
  /\ stage = "idle" => since < Interval + Slack
  /\ stage = "pending" => age < Timeout + Slack
  /\ since' = IF stage = "idle" THEN since + 1 ELSE since
  /\ age' = IF stage = "pending" THEN age + 1 ELSE age
  /\ UNCHANGED stage

Make ==
  /\ stage = "idle" /\ since >= Interval
  /\ stage' = "making" /\ since' = 0
  /\ UNCHANGED age

Issue == stage = "making" /\ stage' = "pending" /\ UNCHANGED <<since, age>>

Stop == stage = "making" /\ stage' = "stopped" /\ UNCHANGED <<since, age>>

Unsent == stage = "pending" /\ stage' = "unsent" /\ age' = 0 /\ UNCHANGED since

Expire ==
  /\ stage = "pending" /\ age >= Timeout
  /\ stage' = "expired" /\ age' = 0
  /\ UNCHANGED since

\* No verdict at or after the deadline.
Answer ==
  /\ stage = "pending" /\ age < Timeout
  /\ stage' = "answered" /\ age' = 0
  /\ UNCHANGED since

Close == stage \in Ended /\ stage' = "idle" /\ UNCHANGED <<since, age>>

Reset == stage' = "off" /\ since' = 0 /\ age' = 0

Next ==
  \/ Start \/ Pass \/ Make \/ Issue \/ Stop
  \/ Unsent \/ Expire \/ Answer \/ Close
  \/ Reset

Spec == Init /\ [][Next]_timing
=============================================================================
