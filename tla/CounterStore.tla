---------------------------- MODULE CounterStore ----------------------------
(***************************************************************************)
(* What the protocol code may assume of the platform's counter (the load   *)
(* and save_counter operations of auth_platform.h): the durable counter    *)
(* never decreases; a save that reports success is durable; a save that    *)
(* fails, or that a reset cuts short, may or may not have become durable,  *)
(* and after a failure nothing is saved until the next reset.              *)
(***************************************************************************)
EXTENDS Naturals

CONSTANTS CounterMax, Seed

VARIABLES
  durable,  \* the counter the next load would return
  pending,  \* the counter being saved, 0 when none is
  known,    \* the counter the owner was last told
  mode      \* "off", "ready", "saving" or "failed"

storeVars == <<durable, pending, known, mode>>

TypeOK ==
  /\ durable \in 1 .. CounterMax
  /\ pending \in 0 .. CounterMax
  /\ known \in 1 .. CounterMax
  /\ mode \in {"off", "ready", "saving", "failed"}

Init == durable = Seed /\ pending = 0 /\ known = Seed /\ mode = "off"

Load ==
  /\ mode = "off"
  /\ mode' = "ready"
  /\ known' = durable
  /\ UNCHANGED <<durable, pending>>

\* The load refuses: there is no usable counter, and the owner stops.
Refuse ==
  /\ mode = "off"
  /\ mode' = "failed"
  /\ UNCHANGED <<durable, pending, known>>

Begin(c) ==
  /\ mode = "ready"
  /\ c > known
  /\ pending' = c
  /\ mode' = "saving"
  /\ UNCHANGED <<durable, known>>

\* The counter becomes durable, which the owner is not yet told.
Settle ==
  /\ mode = "saving"
  /\ durable' = pending
  /\ UNCHANGED <<pending, known, mode>>

\* The save reports success.
Ack ==
  /\ mode = "saving"
  /\ durable = pending
  /\ known' = pending
  /\ pending' = 0
  /\ mode' = "ready"
  /\ UNCHANGED durable

\* The save reports failure.
Fail ==
  /\ mode = "saving"
  /\ durable' \in {durable, pending}
  /\ pending' = 0
  /\ mode' = "failed"
  /\ UNCHANGED known

PowerLoss ==
  /\ mode # "off"
  /\ durable' \in IF mode = "saving" THEN {durable, pending} ELSE {durable}
  /\ pending' = 0
  /\ mode' = "off"
  /\ UNCHANGED known

Next ==
  \/ Load \/ Refuse
  \/ \E c \in 1 .. CounterMax : Begin(c)
  \/ Settle \/ Ack \/ Fail
  \/ PowerLoss

Spec == Init /\ [][Next]_storeVars
=============================================================================
