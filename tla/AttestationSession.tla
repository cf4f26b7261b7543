------------------------- MODULE AttestationSession -------------------------
(***************************************************************************)
(* What an attestation session promises, without counters, flash, messages *)
(* or time: one challenge is open at a time; the image is measured at most *)
(* once for it, while it is open; a verdict is the result of that          *)
(* measurement and of no other.                                            *)
(***************************************************************************)
CONSTANTS Images,  \* contents the measured flash range can have
          Nothing  \* no measurement, or no verdict

VARIABLES
  image,    \* what the measured range holds now
  open,     \* a challenge awaits its report
  measured, \* the measurement made for the open challenge
  verdict   \* what the verifier concluded, while it still shows it

sessionVars == <<image, open, measured, verdict>>

Init == /\ image \in Images
        /\ open = FALSE /\ measured = Nothing /\ verdict = Nothing

Ask ==
  /\ ~ open
  /\ open' = TRUE
  /\ verdict' = Nothing
  /\ UNCHANGED <<image, measured>>

Measure ==
  /\ open /\ measured = Nothing
  /\ measured' = image
  /\ UNCHANGED <<image, open, verdict>>

Conclude ==
  /\ open /\ measured # Nothing
  /\ verdict' = measured
  /\ open' = FALSE /\ measured' = Nothing
  /\ UNCHANGED image

\* A timeout, a failure or a reset of the verifier ends the session unanswered.
GiveUp ==
  /\ open
  /\ open' = FALSE /\ measured' = Nothing /\ verdict' = Nothing
  /\ UNCHANGED image

\* Another report on the verifier's display, or a reset, takes the verdict's place.
Forget ==
  /\ verdict # Nothing
  /\ verdict' = Nothing
  /\ UNCHANGED <<image, open, measured>>

Change ==
  /\ image' \in Images \ {image}
  /\ UNCHANGED <<open, measured, verdict>>

Next == Ask \/ Measure \/ Conclude \/ GiveUp \/ Forget \/ Change

Spec == Init /\ [][Next]_sessionVars
=============================================================================
