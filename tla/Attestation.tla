----------------------------- MODULE Attestation -----------------------------
(***************************************************************************)
(* A verifier (apps/verifier) and a prover (apps/prover) joined by a link  *)
(* that loses, delays, repeats and reorders whole payloads.  Each owns a   *)
(* counter store with the contract of CounterStore (which Journal          *)
(* implements), either may lose power at any point, and the image the      *)
(* prover measures may change at any time.                                 *)
(*                                                                         *)
(* HMAC is ideal: a receiver accepts a payload only if the peer computed   *)
(* it, so the link is the sets of payloads sent, and noise is a payload    *)
(* that is not in them, which changes nothing but the display.             *)
(*                                                                         *)
(* The environment may stop failing for good: calm is then TRUE.  What its *)
(* faults left in the prover's receiver stays: while synced is FALSE, the  *)
(* receiver holds part of a frame or discards, and the display it drives   *)
(* at the next delimiter makes it miss the frame after it (UartReceiver).  *)
(***************************************************************************)
EXTENDS Naturals

CONSTANTS
  CounterMax,  \* the largest counter, UINT32_MAX in the code
  Seed,        \* the counter both boards are provisioned with
  Nonces,      \* values the random generator may return
  NoNonce,     \* the zeroed nonce
  Timeout,     \* AUTH_TIMEOUT_MS in ticks of the model
  Approved, Changed,  \* the measured image is the approved one, or is not
  Nothing

ASSUME CounterAssumption == CounterMax \in Nat /\ Seed \in 1 .. CounterMax
ASSUME NonceAssumption == Nonces # {} /\ NoNonce \notin Nonces
ASSUME TimeoutAssumption == Timeout \in Nat \ {0}
ASSUME ImageAssumption == Approved # Changed /\ Nothing \notin {Approved, Changed}

Images == {Approved, Changed}
Counters == 1 .. CounterMax
Requests == [counter : Counters, nonce : Nonces]
Reports == [counter : Counters, nonce : Nonces, result : Images]
NoRequest == [counter |-> 0, nonce |-> NoNonce]

VARIABLES
  vDurable, vPending, vKnown, vMode,  \* the verifier's counter store
  vAt,          \* where the verifier is in its main loop
  outstanding, nonce,  \* verifier_t.outstanding, verifier_t.nonce
  elapsed,      \* ticks since verifier_t.started_ms, up to Timeout
  msg,          \* the request verifier_challenge is making
  vPhase,       \* board_phase of the verifier
  pDurable, pPending, pKnown, pMode,  \* the prover's counter store
  pAt,          \* where the prover is in its main loop
  job,          \* the request prover_handle_request is handling
  result,       \* the measurement it made
  image,        \* the contents of the measured range
  reqs, resps,  \* every payload sent, which may arrive any number of times
  synced,       \* the prover's receiver is not behind the line
  measured,     \* history: every measurement made, with the request it is for
  calm          \* the environment fails no more

vStore == <<vDurable, vPending, vKnown, vMode>>
vSession == <<outstanding, nonce, elapsed>>
vRest == <<vAt, msg, vPhase>>
pStore == <<pDurable, pPending, pKnown, pMode>>
pRest == <<pAt, job, result>>
link == <<reqs, resps, synced>>
verifier == <<vStore, vSession, vRest>>
prover == <<pStore, pRest>>
vars == <<verifier, prover, link, image, measured, calm>>

V == INSTANCE CounterStore WITH
       durable <- vDurable, pending <- vPending, known <- vKnown, mode <- vMode
P == INSTANCE CounterStore WITH
       durable <- pDurable, pending <- pPending, known <- pKnown, mode <- pMode

Phases == {"OFF", "READY", "REQUEST", "PASS", "MISMATCH", "TIMEOUT", "ERROR"}

TypeOK ==
  /\ V!TypeOK /\ P!TypeOK
  /\ vAt \in {"off", "loop", "challenge", "send", "fatal"}
  /\ outstanding \in BOOLEAN
  /\ nonce \in Nonces \cup {NoNonce}
  /\ elapsed \in 0 .. Timeout
  /\ msg \in Requests \cup {NoRequest}
  /\ vPhase \in Phases
  /\ pAt \in {"off", "loop", "save", "measure", "answer", "fatal"}
  /\ job \in Requests \cup {NoRequest}
  /\ result \in Images \cup {Nothing}
  /\ image \in Images
  /\ reqs \subseteq Requests
  /\ resps \subseteq Reports /\ measured \subseteq Reports
  /\ synced \in BOOLEAN /\ calm \in BOOLEAN

Init ==
  /\ V!Init /\ P!Init
  /\ vAt = "off" /\ pAt = "off"
  /\ outstanding = FALSE /\ nonce = NoNonce /\ elapsed = 0
  /\ msg = NoRequest /\ vPhase = "OFF"
  /\ job = NoRequest /\ result = Nothing
  /\ image = Approved
  /\ reqs = {} /\ resps = {} /\ measured = {}
  /\ synced = TRUE /\ calm = FALSE

-----------------------------------------------------------------------------
(* An exchange.                                                            *)

\* Faulty: the report is not bound to the counter.
AnswersByNonce(r) == r.nonce = nonce
\* The report whose MAC verify accepts: of this counter and this nonce.
Answers(r) == r.counter = vKnown /\ r.nonce = nonce

\* Something is under way that ends well within a timeout: the prover boots,
\* handles a request or has one to take, or a frame or the answer is on its way.
ExchangeMoves ==
  \/ vAt = "send" \/ pAt \notin {"loop", "fatal"}
  \/ pAt = "loop" /\ synced /\ \E r \in reqs : r.counter > pKnown
  \/ \E r \in resps : Answers(r)

\* Once calm, an exchange takes less than the interval between sessions.  Only the
\* first challenge after a boot may overlap one: READY, or a receive error, is shown.
IntervalPasses == calm /\ vPhase \notin {"READY", "ERROR"} => ~ ExchangeMoves

-----------------------------------------------------------------------------
(* The verifier.                                                           *)

\* verifier_cancel; started_ms means nothing without an outstanding challenge.
Cancel == outstanding' = FALSE /\ nonce' = NoNonce /\ elapsed' = 0

\* What no step of the verifier changes.
VerifierLocal == UNCHANGED <<prover, resps, image, measured, calm>>
VerifierOnly == VerifierLocal /\ UNCHANGED synced
\* A frame that is cut short, damaged or not listened to, or noise, may leave the
\* prover's receiver with part of a frame, or in the middle of a discard.
Disturb == synced' \in BOOLEAN

VBoot ==
  /\ vAt = "off"
  /\ V!Load
  /\ vAt' = "loop" /\ vPhase' = "READY"
  /\ UNCHANGED <<vSession, msg, reqs>> /\ VerifierOnly

VBootFails ==
  /\ vAt = "off" /\ ~ calm
  /\ V!Refuse
  /\ vAt' = "fatal" /\ vPhase' = "ERROR"
  /\ UNCHANGED <<vSession, msg, reqs>> /\ VerifierOnly

\* Faulty: the last counter is not kept from being used up.
CounterMayWrap == TRUE
CounterLeft == vKnown # CounterMax

\* verifier_challenge up to its call of save_counter.  How long the interval between
\* sessions is, is left open.
Challenge ==
  /\ vAt = "loop" /\ ~ outstanding
  /\ IntervalPasses
  /\ CounterLeft
  /\ \E n \in Nonces : msg' = [counter |-> vKnown + 1, nonce |-> n]
  /\ V!Begin(vKnown + 1)
  /\ vAt' = "challenge"
  /\ UNCHANGED <<vSession, vPhase, reqs>> /\ VerifierOnly

\* The counter is used up, or the random generator fails: main stops.
ChallengeRefused ==
  /\ vAt = "loop" /\ ~ outstanding
  /\ vKnown = CounterMax \/ ~ calm
  /\ vAt' = "fatal" /\ vPhase' = "ERROR"
  /\ UNCHANGED <<vStore, vSession, msg, reqs>> /\ VerifierOnly

ChallengeSettles ==
  /\ vAt = "challenge" /\ vDurable # vPending
  /\ V!Settle
  /\ UNCHANGED <<vSession, vRest, reqs>> /\ VerifierOnly

\* The save succeeds: the challenge is outstanding from here on.
ChallengeSaved ==
  /\ vAt = "challenge"
  /\ V!Ack
  /\ outstanding' = TRUE /\ nonce' = msg.nonce /\ elapsed' = 0
  /\ vAt' = "send" /\ vPhase' = "REQUEST"
  /\ UNCHANGED <<msg, reqs>> /\ VerifierOnly

\* Faulty: the request is sent although its counter was not saved.
ChallengeUnsavedSent ==
  /\ vAt = "challenge" /\ ~ calm
  /\ V!Fail
  /\ vAt' = "send" /\ vPhase' = "ERROR"
  /\ UNCHANGED <<vSession, msg, reqs>> /\ VerifierOnly
ChallengeUnsaved ==
  /\ vAt = "challenge" /\ ~ calm
  /\ V!Fail
  /\ vAt' = "fatal" /\ vPhase' = "ERROR" /\ msg' = NoRequest
  /\ UNCHANGED <<vSession, reqs>> /\ VerifierOnly

SendRequest ==
  /\ vAt = "send"
  /\ reqs' = reqs \cup {msg}
  /\ vAt' = "loop" /\ msg' = NoRequest
  /\ UNCHANGED <<vStore, vSession, vPhase>> /\ VerifierOnly

\* The frame is sent, and the prover makes nothing of it: a fault, a receiver that
\* is behind the line, or a prover that boots or is busy with another request.
LoseRequest ==
  /\ vAt = "send"
  /\ calm => ~ synced \/ pAt # "loop"
  /\ vAt' = "loop" /\ msg' = NoRequest
  /\ Disturb
  /\ UNCHANGED <<vStore, vSession, vPhase, reqs>> /\ VerifierLocal

\* The UART reports a failure, although the frame may have gone out whole.
SendRequestFails ==
  /\ vAt = "send" /\ ~ calm
  /\ reqs' \in {reqs, reqs \cup {msg}}
  /\ Cancel /\ Disturb
  /\ vAt' = "loop" /\ msg' = NoRequest /\ vPhase' = "ERROR"
  /\ UNCHANGED vStore /\ VerifierLocal

\* Faulty: the challenge is not cancelled.
TimeOutShown ==
  /\ vAt = "loop" /\ outstanding /\ elapsed >= Timeout
  /\ vPhase' = "TIMEOUT"
  /\ UNCHANGED <<vStore, vSession, vAt, msg, reqs>> /\ VerifierOnly
\* verifier_poll, from the main loop or from verify.
TimeOut ==
  /\ vAt = "loop" /\ outstanding /\ elapsed >= Timeout
  /\ Cancel
  /\ vPhase' = "TIMEOUT"
  /\ UNCHANGED <<vStore, vAt, msg, reqs>> /\ VerifierOnly

Verify(r) ==
  /\ vAt = "loop" /\ outstanding /\ elapsed < Timeout
  /\ Answers(r)
  /\ Cancel
  /\ vPhase' = IF r.result = Approved THEN "PASS" ELSE "MISMATCH"
  /\ UNCHANGED <<vStore, vAt, msg, reqs>> /\ VerifierOnly

\* A receive error, a damaged frame or one of another type: only a display.
VerifierRxError ==
  /\ vAt = "loop" /\ ~ calm
  /\ vPhase' = "ERROR"
  /\ UNCHANGED <<vStore, vSession, vAt, msg, reqs>> /\ VerifierOnly

VPowerLoss ==
  /\ vAt # "off" /\ ~ calm
  /\ V!PowerLoss
  /\ Cancel /\ Disturb
  /\ vAt' = "off" /\ msg' = NoRequest /\ vPhase' = "OFF"
  /\ UNCHANGED reqs /\ VerifierLocal

-----------------------------------------------------------------------------
(* The prover.                                                             *)

ProverLocal == UNCHANGED <<verifier, reqs, image, calm>>
ProverOnly == ProverLocal /\ UNCHANGED synced

PBoot ==
  /\ pAt = "off"
  /\ P!Load
  /\ pAt' = "loop"
  /\ UNCHANGED <<job, result, resps, measured>> /\ ProverOnly

PBootFails ==
  /\ pAt = "off" /\ ~ calm
  /\ P!Refuse
  /\ pAt' = "fatal"
  /\ UNCHANGED <<job, result, resps, measured>> /\ ProverOnly

\* prover_handle_request up to its call of save_counter.  A request that fails
\* one of the checks before it changes nothing.  A frame that ends leaves the
\* receiver empty.
Accept(r) ==
  /\ pAt = "loop"
  /\ r.counter > pKnown
  /\ P!Begin(r.counter)
  /\ job' = r /\ synced' = TRUE
  /\ pAt' = "save"
  /\ UNCHANGED <<result, resps, measured>> /\ ProverLocal

AcceptSettles ==
  /\ pAt = "save" /\ pDurable # pPending
  /\ P!Settle
  /\ UNCHANGED <<pRest, resps, measured>> /\ ProverOnly

AcceptSaved ==
  /\ pAt = "save"
  /\ P!Ack
  /\ pAt' = "measure"
  /\ UNCHANGED <<job, result, resps, measured>> /\ ProverOnly

\* Faulty: the measurement goes ahead although the counter was not saved.
AcceptUnsavedMeasured ==
  /\ pAt = "save" /\ ~ calm
  /\ P!Fail
  /\ pAt' = "measure"
  /\ UNCHANGED <<job, result, resps, measured>> /\ ProverOnly
AcceptUnsaved ==
  /\ pAt = "save" /\ ~ calm
  /\ P!Fail
  /\ pAt' = "fatal" /\ job' = NoRequest
  /\ UNCHANGED <<result, resps, measured>> /\ ProverOnly

Report(r, i) == [counter |-> r.counter, nonce |-> r.nonce, result |-> i]

Measure ==
  /\ pAt = "measure"
  /\ result' = image
  /\ measured' = measured \cup {Report(job, image)}
  /\ pAt' = "answer"
  /\ UNCHANGED <<pStore, job, resps>> /\ ProverOnly

HandlerReturns == pAt' = "loop" /\ job' = NoRequest /\ result' = Nothing

\* The measurement or its MAC cannot be computed: the request goes unanswered.
MeasureFails ==
  /\ pAt = "measure" /\ ~ calm
  /\ HandlerReturns
  /\ UNCHANGED <<pStore, resps, measured>> /\ ProverOnly

SendResponse ==
  /\ pAt = "answer"
  /\ resps' = resps \cup {Report(job, result)}
  /\ HandlerReturns
  /\ UNCHANGED <<pStore, measured>> /\ ProverOnly

\* The UART fails, or the verifier's UART makes nothing of the frame.
LoseResponse ==
  /\ pAt = "answer" /\ ~ calm
  /\ HandlerReturns
  /\ UNCHANGED <<pStore, resps, measured>> /\ ProverOnly

\* Noise on the line, or a receive error: only a display, and what it leaves.
ProverRxError ==
  /\ pAt = "loop" /\ ~ calm
  /\ Disturb
  /\ UNCHANGED <<prover, resps, measured>> /\ ProverLocal

PPowerLoss ==
  /\ pAt # "off" /\ ~ calm
  /\ P!PowerLoss
  /\ pAt' = "off" /\ job' = NoRequest /\ result' = Nothing
  /\ synced' = TRUE
  /\ UNCHANGED <<resps, measured>> /\ ProverLocal

-----------------------------------------------------------------------------
(* Time and the environment.                                               *)

\* Once calm, an exchange takes less than a timeout: time passes when none moves.
Tick ==
  /\ outstanding /\ elapsed < Timeout
  /\ calm => ~ ExchangeMoves
  /\ elapsed' = elapsed + 1
  /\ UNCHANGED <<vStore, outstanding, nonce, vRest, prover, link, image, measured, calm>>

ImageChanges ==
  /\ image' \in Images \ {image}
  /\ UNCHANGED <<verifier, prover, link, measured, calm>>

FaultsEnd ==
  /\ ~ calm
  /\ calm' = TRUE
  /\ UNCHANGED <<verifier, prover, link, image, measured>>

-----------------------------------------------------------------------------
VerifierNext ==
  \/ VBoot \/ VBootFails
  \/ Challenge \/ ChallengeRefused
  \/ ChallengeSettles \/ ChallengeSaved \/ ChallengeUnsaved
  \/ SendRequest \/ LoseRequest \/ SendRequestFails
  \/ TimeOut \/ \E r \in resps : Verify(r)
  \/ VerifierRxError
  \/ VPowerLoss

ProverNext ==
  \/ PBoot \/ PBootFails
  \/ \E r \in reqs : Accept(r)
  \/ AcceptSettles \/ AcceptSaved \/ AcceptUnsaved
  \/ Measure \/ MeasureFails
  \/ SendResponse \/ LoseResponse
  \/ ProverRxError \/ PPowerLoss

Next == VerifierNext \/ ProverNext \/ Tick \/ ImageChanges \/ FaultsEnd

Spec == Init /\ [][Next]_vars

\* Both main loops keep running, time passes, and powered boards boot.  A payload
\* the link did not lose arrives, at the prover if its receiver is not behind the
\* line.  Nothing makes a fault happen, or stop, or a receiver come in step again.
Fairness ==
  /\ WF_vars(VBoot) /\ WF_vars(Challenge)
  /\ WF_vars(ChallengeSettles) /\ WF_vars(ChallengeSaved)
  /\ WF_vars(SendRequest)
  /\ WF_vars(TimeOut) /\ WF_vars(\E r \in resps : Verify(r))
  /\ WF_vars(PBoot) /\ WF_vars(synced /\ \E r \in reqs : Accept(r))
  /\ WF_vars(AcceptSettles) /\ WF_vars(AcceptSaved)
  /\ WF_vars(Measure) /\ WF_vars(SendResponse)
  /\ WF_vars(Tick)

FairSpec == Spec /\ Fairness

-----------------------------------------------------------------------------
\* The prover never holds a counter the verifier could still issue: it would
\* refuse that challenge, and every one up to it, as stale.
ProverNeverAhead == pDurable <= vDurable /\ pKnown <= vDurable

\* "A reset may skip a counter but never reuse one" (verifier.c:50): the counter
\* of a request exceeds that of every request sent before it.
RequestsAdvance ==
  [][\A r \in reqs' \ reqs : \A q \in reqs : q.counter < r.counter]_vars

\* However often and in whatever order requests arrive, and wherever the prover
\* resets, it measures at most once for a counter, and in their order.
MeasurementsAdvance ==
  [][\A m \in measured' \ measured : \A q \in measured : q.counter < m.counter]_vars

\* "It commits C_P = C_V to persistent storage before producing any response"
\* (docs/protocol.md): a measurement is never of a counter a reset could forget.
MeasuredIsCommitted == \A m \in measured : m.counter <= pDurable

(* The inductive invariant behind these.                                   *)

\* How a board's place in its loop, its counter store and the payload it is
\* working on fit together.
VerifierStands ==
  /\ vAt = "off" <=> vMode = "off"
  /\ vAt = "challenge" <=> vMode = "saving"
  /\ vAt \in {"loop", "send"} => vMode = "ready"
  /\ vKnown <= vDurable
  /\ vMode = "ready" => vDurable = vKnown
  /\ vAt = "challenge" => /\ msg \in Requests /\ msg.counter = vPending
                          /\ vKnown < vPending /\ vDurable \in {vKnown, vPending}
  /\ vAt = "send" => msg \in Requests /\ msg.counter = vKnown
  /\ outstanding => vAt \in {"loop", "send"}

ProverStands ==
  /\ pAt = "off" <=> pMode = "off"
  /\ pAt = "save" <=> pMode = "saving"
  /\ pAt \in {"loop", "measure", "answer"} => pMode = "ready"
  /\ pKnown <= pDurable
  /\ pMode = "ready" => pDurable = pKnown
  /\ pAt = "save" => /\ job \in reqs /\ job.counter = pPending
                     /\ pKnown < pPending /\ pDurable \in {pKnown, pPending}
  /\ pAt \in {"measure", "answer"} => job \in reqs /\ job.counter = pKnown
  /\ pAt = "answer" => Report(job, result) \in measured

\* The request about to be sent is newer than all that were.
RequestsBehind ==
  \A r \in reqs :
    /\ r.counter <= vDurable
    /\ vAt = "challenge" => r.counter <= vKnown
    /\ vAt = "send" => r.counter < vKnown

\* So is the measurement about to be made, and each was asked for.
MeasurementsBehind ==
  /\ \A m \in measured :
       /\ m.counter <= pDurable
       /\ pAt = "save" => m.counter <= pKnown
       /\ pAt = "measure" => m.counter < pKnown
       /\ \E r \in reqs : r.counter = m.counter
  /\ \A m, n \in measured : m.counter = n.counter => m = n
  /\ resps \subseteq measured

\* Whatever was lost, repeated or cut off, the two boards, their stores and the
\* payloads between them stand in the order in which counters were issued.
IInv ==
  /\ TypeOK
  /\ VerifierStands /\ RequestsBehind
  /\ ProverStands /\ MeasurementsBehind
  /\ ProverNeverAhead

-----------------------------------------------------------------------------
\* Attestation is one AttestationSession: a verdict comes from the single
\* measurement made between the challenge's commit and the verdict.
OwnMeasurement ==
  {m \in measured : outstanding /\ m.counter = vKnown /\ m.nonce = nonce}
MeasuredForOpen ==
  IF OwnMeasurement = {} THEN Nothing ELSE (CHOOSE m \in OwnMeasurement : TRUE).result
Verdict ==
  CASE vPhase = "PASS" -> Approved
    [] vPhase = "MISMATCH" -> Changed
    [] OTHER -> Nothing
Session == INSTANCE AttestationSession WITH
  open <- outstanding, measured <- MeasuredForOpen, verdict <- Verdict
ImplementsSession == Session!Spec

\* A challenge does not stay outstanding: it ends in a verdict, a timeout, or
\* with the verifier.
ChallengesEnd == outstanding ~> ~ outstanding

\* The prover listens: no earlier request is on its way to it, it is in its main
\* loop, and its receiver is not behind the line.
Listening == pAt = "loop" /\ synced /\ \A r \in reqs : r.counter <= pKnown

\* Once faults stop, a prover that listens and a verifier that is not stopped reach
\* a verdict, if a counter is left to ask with.  A receiver that faults left behind
\* the line is not promised to hear anything again (UartReceiver!RecoversOnceCalm).
VerdictWhenCalm ==
  /\ calm /\ Listening /\ vAt # "fatal"
  /\ vDurable < CounterMax /\ vPhase \notin {"PASS", "MISMATCH"}
  ~> vPhase \in {"PASS", "MISMATCH"}

-----------------------------------------------------------------------------
\* The verifier's LED, as board_ui and board_report_error drive it.
LedOn == vPhase \in {"PASS", "REQUEST"}

\* docs/deployment.md:127-129 says a pending challenge leaves the LED off, where
\* docs/troubleshooting.md:34-36 and the code have it lit while one is outstanding.
LedOffWhilePending == outstanding => ~ LedOn
=============================================================================
