------------------------- MODULE Attestation_proofs -------------------------
(***************************************************************************)
(* Theorems about the attestation protocol, for counters of any width, any *)
(* seed, nonces, timeout and number of payloads.                           *)
(*                                                                         *)
(* IInv is inductive (IInvHolds) and implies the safety properties of      *)
(* Attestation.  What a verifier's step may do to the prover's part of it  *)
(* is settled once (ProverPartKept), and the other way round               *)
(* (VerifierPartKept).                                                     *)
(***************************************************************************)
EXTENDS Attestation, TLAPS

VerifierPart == VerifierStands /\ RequestsBehind
ProverPart == ProverStands /\ MeasurementsBehind /\ ProverNeverAhead

\* The counter of a request is a number a store may hold.
LEMMA RequestType ==
  ASSUME NEW r \in Requests
  PROVE  r.counter \in 1 .. CounterMax /\ r.nonce \in Nonces /\ r.counter \in Nat
BY DEF Requests, Counters

\* The ranges of the two counter stores, and the counters of the payloads.
LEMMA Ranges ==
  ASSUME TypeOK
  PROVE  /\ {vDurable, vKnown, pDurable, pKnown} \subseteq 1 .. CounterMax
         /\ {vPending, pPending} \subseteq 0 .. CounterMax
         /\ \A r \in reqs : r.counter \in 1 .. CounterMax
         /\ \A m \in measured : m.counter \in 1 .. CounterMax
BY DEF TypeOK, V!TypeOK, P!TypeOK, Requests, Reports, Counters

\* Zero is a counter that is not being saved, and a time.
LEMMA ZeroInRange == 0 \in 0 .. CounterMax /\ 0 \in 0 .. Timeout
BY CounterAssumption, TimeoutAssumption

\* A counter that is being saved is one a store may hold.
LEMMA PendingIsCounter ==
  ASSUME IInv
  PROVE  /\ vMode = "saving" => vPending \in 1 .. CounterMax
         /\ pMode = "saving" => pPending \in 1 .. CounterMax
<1>1. vAt = "challenge" => vPending \in 1 .. CounterMax
  BY RequestType DEF IInv, VerifierStands
<1>2. pAt = "save" => pPending \in 1 .. CounterMax
  BY Ranges DEF IInv, ProverStands
<1> QED BY <1>1, <1>2 DEF IInv, VerifierStands, ProverStands

LEMMA InitHolds == Init => IInv
<1> SUFFICES ASSUME Init PROVE IInv
  OBVIOUS
<1>1. V!TypeOK /\ P!TypeOK
  BY CounterAssumption DEF Init, V!Init, P!Init, V!TypeOK, P!TypeOK
<1>2. TypeOK
  BY <1>1, ZeroInRange DEF Init, TypeOK, Phases, Images
<1>3. VerifierStands /\ RequestsBehind
  BY CounterAssumption DEF Init, V!Init, VerifierStands, RequestsBehind
<1>4. ProverStands /\ MeasurementsBehind /\ ProverNeverAhead
  BY CounterAssumption
     DEF Init, V!Init, P!Init, ProverStands, MeasurementsBehind, ProverNeverAhead
<1> QED BY <1>2, <1>3, <1>4 DEF IInv

\* A step of the verifier adds requests and raises its durable counter, and the
\* prover's part stands.
LEMMA ProverPartKept ==
  ASSUME IInv, TypeOK', VerifierLocal, vDurable <= vDurable', reqs \subseteq reqs'
  PROVE  ProverPart'
<1>1. ProverStands'
  BY DEF IInv, ProverStands, VerifierLocal, prover, pStore, pRest, Report
<1>2. MeasurementsBehind'
  BY DEF IInv, MeasurementsBehind, VerifierLocal, prover, pStore, pRest
<1>3. ProverNeverAhead'
  BY Ranges, CounterAssumption DEF IInv, TypeOK, V!TypeOK, ProverNeverAhead, VerifierLocal, prover, pStore
<1> QED BY <1>1, <1>2, <1>3 DEF ProverPart

\* A step of the prover sends no request and leaves the verifier alone.
LEMMA VerifierPartKept ==
  ASSUME IInv, UNCHANGED <<verifier, reqs>>
  PROVE  VerifierPart'
BY DEF IInv, VerifierPart, VerifierStands, RequestsBehind,
       verifier, vStore, vSession, vRest

\* What every step of the verifier does.
VerifierMoves ==
  TypeOK' /\ VerifierPart' /\ vDurable <= vDurable' /\ reqs \subseteq reqs'

LEMMA VerifierStep == ASSUME IInv, VerifierNext PROVE VerifierMoves
<1> USE DEF IInv, VerifierMoves, VerifierPart, VerifierOnly, VerifierLocal, Disturb,
        prover, pStore, pRest, vStore, vSession, vRest
<1>1. CASE VBoot
  <2>1. V!TypeOK' /\ P!TypeOK'
    BY <1>1 DEF VBoot, V!Load, TypeOK, V!TypeOK, P!TypeOK
  <2>2. TypeOK'
    BY <1>1, <2>1 DEF VBoot, TypeOK, Phases
  <2> QED BY <1>1, <2>2, Ranges DEF VBoot, V!Load, VerifierStands, RequestsBehind
<1>2. CASE VBootFails
  <2>1. V!TypeOK' /\ P!TypeOK'
    BY <1>2 DEF VBootFails, V!Refuse, TypeOK, V!TypeOK, P!TypeOK
  <2>2. TypeOK'
    BY <1>2, <2>1 DEF VBootFails, TypeOK, Phases
  <2> QED BY <1>2, <2>2, Ranges DEF VBootFails, V!Refuse, VerifierStands, RequestsBehind
<1>3. CASE Challenge
  <2>1. PICK n \in Nonces : msg' = [counter |-> vKnown + 1, nonce |-> n]
    BY <1>3 DEF Challenge
  <2>2. vKnown \in 1 .. CounterMax /\ vKnown + 1 \in 1 .. CounterMax
    BY <1>3, Ranges, CounterAssumption DEF Challenge, CounterLeft
  <2>3. msg' \in Requests /\ msg'.counter = vKnown + 1
    BY <2>1, <2>2 DEF Requests, Counters
  <2>4. V!TypeOK' /\ P!TypeOK'
    BY <1>3, <2>2 DEF Challenge, V!Begin, TypeOK, V!TypeOK, P!TypeOK
  <2>5. TypeOK'
    BY <1>3, <2>3, <2>4 DEF Challenge, TypeOK
  <2>6. \A r \in reqs : r.counter \in Nat
    BY Ranges
  <2> QED BY <1>3, <2>2, <2>3, <2>5, <2>6
          DEF Challenge, V!Begin, VerifierStands, RequestsBehind
<1>4. CASE ChallengeRefused
  <2>1. V!TypeOK' /\ P!TypeOK'
    BY <1>4 DEF ChallengeRefused, TypeOK, V!TypeOK, P!TypeOK
  <2>2. TypeOK'
    BY <1>4, <2>1 DEF ChallengeRefused, TypeOK, Phases
  <2> QED BY <1>4, <2>2, Ranges DEF ChallengeRefused, VerifierStands, RequestsBehind
<1>5. CASE ChallengeSettles
  <2>1. V!TypeOK' /\ P!TypeOK'
    BY <1>5, PendingIsCounter, ZeroInRange DEF ChallengeSettles, V!Settle, TypeOK, V!TypeOK, P!TypeOK
  <2>2. TypeOK'
    BY <1>5, <2>1 DEF ChallengeSettles, TypeOK, Phases
  <2> QED BY <1>5, <2>2, Ranges
             DEF ChallengeSettles, V!Settle, VerifierStands, RequestsBehind
<1>6. CASE ChallengeSaved
  <2>1. V!TypeOK' /\ P!TypeOK'
    BY <1>6, PendingIsCounter, ZeroInRange DEF ChallengeSaved, V!Ack, TypeOK, V!TypeOK, P!TypeOK
  <2>2. TypeOK'
    BY <1>6, <2>1, ZeroInRange, RequestType
       DEF ChallengeSaved, TypeOK, VerifierStands, Phases
  <2> QED BY <1>6, <2>2, Ranges
             DEF ChallengeSaved, V!Ack, VerifierStands, RequestsBehind
<1>7. CASE ChallengeUnsaved
  <2>1. V!TypeOK' /\ P!TypeOK'
    BY <1>7, PendingIsCounter, ZeroInRange DEF ChallengeUnsaved, V!Fail, TypeOK, V!TypeOK, P!TypeOK
  <2>2. TypeOK'
    BY <1>7, <2>1 DEF ChallengeUnsaved, TypeOK, Phases
  <2> QED BY <1>7, <2>2, Ranges
             DEF ChallengeUnsaved, V!Fail, VerifierStands, RequestsBehind
<1>8. CASE SendRequest
  <2>1. V!TypeOK' /\ P!TypeOK'
    BY <1>8 DEF SendRequest, TypeOK, V!TypeOK, P!TypeOK
  <2>2. TypeOK'
    BY <1>8, <2>1 DEF SendRequest, TypeOK, VerifierStands, Phases
  <2> QED BY <1>8, <2>2, Ranges DEF SendRequest, VerifierStands, RequestsBehind
<1>9. CASE LoseRequest
  <2>1. V!TypeOK' /\ P!TypeOK'
    BY <1>9 DEF LoseRequest, TypeOK, V!TypeOK, P!TypeOK
  <2>2. TypeOK'
    BY <1>9, <2>1 DEF LoseRequest, TypeOK, Phases
  <2> QED BY <1>9, <2>2, Ranges DEF LoseRequest, VerifierStands, RequestsBehind
<1>10. CASE SendRequestFails
  <2>1. V!TypeOK' /\ P!TypeOK'
    BY <1>10 DEF SendRequestFails, Cancel, TypeOK, V!TypeOK, P!TypeOK
  <2>2. TypeOK'
    BY <1>10, <2>1, ZeroInRange
       DEF SendRequestFails, Cancel, TypeOK, VerifierStands, Phases
  <2> QED BY <1>10, <2>2, Ranges
             DEF SendRequestFails, Cancel, VerifierStands, RequestsBehind
<1>11. CASE TimeOut
  <2>1. V!TypeOK' /\ P!TypeOK'
    BY <1>11 DEF TimeOut, Cancel, TypeOK, V!TypeOK, P!TypeOK
  <2>2. TypeOK'
    BY <1>11, <2>1, ZeroInRange DEF TimeOut, Cancel, TypeOK, Phases
  <2> QED BY <1>11, <2>2, Ranges DEF TimeOut, Cancel, VerifierStands, RequestsBehind
<1>12. CASE \E r \in resps : Verify(r)
  <2>1. V!TypeOK' /\ P!TypeOK'
    BY <1>12 DEF Verify, Cancel, TypeOK, V!TypeOK, P!TypeOK
  <2>2. TypeOK'
    BY <1>12, <2>1, ZeroInRange DEF Verify, Cancel, TypeOK, Phases
  <2> QED BY <1>12, <2>2, Ranges DEF Verify, Cancel, VerifierStands, RequestsBehind
<1>13. CASE VerifierRxError
  <2>1. V!TypeOK' /\ P!TypeOK'
    BY <1>13 DEF VerifierRxError, TypeOK, V!TypeOK, P!TypeOK
  <2>2. TypeOK'
    BY <1>13, <2>1 DEF VerifierRxError, TypeOK, Phases
  <2> QED BY <1>13, <2>2, Ranges DEF VerifierRxError, VerifierStands, RequestsBehind
<1>14. CASE VPowerLoss
  <2>1. V!TypeOK' /\ P!TypeOK'
    BY <1>14, PendingIsCounter, ZeroInRange DEF VPowerLoss, V!PowerLoss, TypeOK, V!TypeOK, P!TypeOK
  <2>2. TypeOK'
    BY <1>14, <2>1, ZeroInRange DEF VPowerLoss, Cancel, TypeOK, Phases
  <2> QED BY <1>14, <2>2, Ranges
             DEF VPowerLoss, V!PowerLoss, Cancel, VerifierStands, RequestsBehind
<1> QED BY <1>1, <1>2, <1>3, <1>4, <1>5, <1>6, <1>7, <1>8, <1>9, <1>10, <1>11, <1>12, <1>13, <1>14
           DEF VerifierNext

\* What every step of the prover does.
ProverMoves == TypeOK' /\ ProverPart' /\ measured \subseteq measured'

LEMMA ProverStep == ASSUME IInv, ProverNext PROVE ProverMoves
<1> USE DEF IInv, ProverMoves, ProverPart, ProverOnly, ProverLocal, Disturb,
        verifier, vStore, vSession, vRest, pStore, pRest
<1>1. CASE PBoot
  <2>1. V!TypeOK' /\ P!TypeOK'
    BY <1>1 DEF PBoot, P!Load, TypeOK, V!TypeOK, P!TypeOK
  <2>2. TypeOK'
    BY <1>1, <2>1 DEF PBoot, TypeOK
  <2>3. ProverStands' /\ ProverNeverAhead'
    BY <1>1, <2>2, Ranges
       DEF PBoot, P!Load, ProverStands, ProverNeverAhead, RequestsBehind
  <2>4. MeasurementsBehind' /\ measured \subseteq measured'
    BY <1>1, <2>2, Ranges DEF PBoot, P!Load, ProverStands, MeasurementsBehind
  <2> QED BY <2>2, <2>3, <2>4
<1>2. CASE PBootFails
  <2>1. V!TypeOK' /\ P!TypeOK'
    BY <1>2 DEF PBootFails, P!Refuse, TypeOK, V!TypeOK, P!TypeOK
  <2>2. TypeOK'
    BY <1>2, <2>1 DEF PBootFails, TypeOK
  <2>3. ProverStands' /\ ProverNeverAhead'
    BY <1>2, <2>2, Ranges
       DEF PBootFails, P!Refuse, ProverStands, ProverNeverAhead, RequestsBehind
  <2>4. MeasurementsBehind' /\ measured \subseteq measured'
    BY <1>2, <2>2, Ranges DEF PBootFails, P!Refuse, ProverStands, MeasurementsBehind
  <2> QED BY <2>2, <2>3, <2>4
<1>3. CASE \E r \in reqs : Accept(r)
  <2>1. V!TypeOK' /\ P!TypeOK'
    BY <1>3, Ranges DEF Accept, P!Begin, TypeOK, V!TypeOK, P!TypeOK
  <2>2. TypeOK'
    BY <1>3, <2>1 DEF Accept, TypeOK
  <2>3. ProverStands' /\ ProverNeverAhead'
    BY <1>3, <2>2, Ranges
       DEF Accept, P!Begin, ProverStands, ProverNeverAhead, RequestsBehind
  <2>4. MeasurementsBehind' /\ measured \subseteq measured'
    BY <1>3, <2>2, Ranges DEF Accept, P!Begin, ProverStands, MeasurementsBehind
  <2> QED BY <2>2, <2>3, <2>4
<1>4. CASE AcceptSettles
  <2>1. V!TypeOK' /\ P!TypeOK'
    BY <1>4, PendingIsCounter, ZeroInRange DEF AcceptSettles, P!Settle, TypeOK, V!TypeOK, P!TypeOK
  <2>2. TypeOK'
    BY <1>4, <2>1 DEF AcceptSettles, TypeOK
  <2>3. ProverStands' /\ ProverNeverAhead'
    BY <1>4, <2>2, Ranges
       DEF AcceptSettles, P!Settle, ProverStands, ProverNeverAhead, RequestsBehind
  <2>4. MeasurementsBehind' /\ measured \subseteq measured'
    BY <1>4, <2>2, Ranges DEF AcceptSettles, P!Settle, ProverStands, MeasurementsBehind
  <2> QED BY <2>2, <2>3, <2>4
<1>5. CASE AcceptSaved
  <2>1. V!TypeOK' /\ P!TypeOK'
    BY <1>5, PendingIsCounter, ZeroInRange DEF AcceptSaved, P!Ack, TypeOK, V!TypeOK, P!TypeOK
  <2>2. TypeOK'
    BY <1>5, <2>1 DEF AcceptSaved, TypeOK
  <2>3. ProverStands' /\ ProverNeverAhead'
    BY <1>5, <2>2, Ranges
       DEF AcceptSaved, P!Ack, ProverStands, ProverNeverAhead, RequestsBehind
  <2>4. MeasurementsBehind' /\ measured \subseteq measured'
    BY <1>5, <2>2, Ranges DEF AcceptSaved, P!Ack, ProverStands, MeasurementsBehind
  <2> QED BY <2>2, <2>3, <2>4
<1>6. CASE AcceptUnsaved
  <2>1. V!TypeOK' /\ P!TypeOK'
    BY <1>6, PendingIsCounter, ZeroInRange DEF AcceptUnsaved, P!Fail, TypeOK, V!TypeOK, P!TypeOK
  <2>2. TypeOK'
    BY <1>6, <2>1 DEF AcceptUnsaved, TypeOK
  <2>3. ProverStands' /\ ProverNeverAhead'
    BY <1>6, <2>2, Ranges
       DEF AcceptUnsaved, P!Fail, ProverStands, ProverNeverAhead, RequestsBehind
  <2>4. MeasurementsBehind' /\ measured \subseteq measured'
    BY <1>6, <2>2, Ranges DEF AcceptUnsaved, P!Fail, ProverStands, MeasurementsBehind
  <2> QED BY <2>2, <2>3, <2>4
<1>7. CASE Measure
  <2>1. V!TypeOK' /\ P!TypeOK'
    BY <1>7 DEF Measure, TypeOK, V!TypeOK, P!TypeOK
  <2>2. TypeOK'
    BY <1>7, <2>1, RequestType
       DEF Measure, TypeOK, ProverStands, Report, Reports, Requests
  <2>3. ProverStands' /\ ProverNeverAhead'
    BY <1>7, <2>2, Ranges
       DEF Measure, ProverStands, ProverNeverAhead, RequestsBehind, Report
  <2>4. MeasurementsBehind' /\ measured \subseteq measured'
    BY <1>7, <2>2, Ranges DEF Measure, ProverStands, MeasurementsBehind, Report
  <2> QED BY <2>2, <2>3, <2>4
<1>8. CASE MeasureFails
  <2>1. V!TypeOK' /\ P!TypeOK'
    BY <1>8 DEF MeasureFails, HandlerReturns, TypeOK, V!TypeOK, P!TypeOK
  <2>2. TypeOK'
    BY <1>8, <2>1 DEF MeasureFails, HandlerReturns, TypeOK
  <2>3. ProverStands' /\ ProverNeverAhead'
    BY <1>8, <2>2, Ranges
       DEF MeasureFails, HandlerReturns, ProverStands, ProverNeverAhead,
           RequestsBehind
  <2>4. MeasurementsBehind' /\ measured \subseteq measured'
    BY <1>8, <2>2, Ranges
       DEF MeasureFails, HandlerReturns, ProverStands, MeasurementsBehind
  <2> QED BY <2>2, <2>3, <2>4
<1>9. CASE SendResponse
  <2>1. V!TypeOK' /\ P!TypeOK'
    BY <1>9 DEF SendResponse, HandlerReturns, TypeOK, V!TypeOK, P!TypeOK
  <2>2. TypeOK'
    BY <1>9, <2>1 DEF SendResponse, HandlerReturns, TypeOK, ProverStands
  <2>3. ProverStands' /\ ProverNeverAhead'
    BY <1>9, <2>2, Ranges
       DEF SendResponse, HandlerReturns, ProverStands, ProverNeverAhead,
           RequestsBehind
  <2>4. MeasurementsBehind' /\ measured \subseteq measured'
    BY <1>9, <2>2, Ranges
       DEF SendResponse, HandlerReturns, ProverStands, MeasurementsBehind, Report
  <2> QED BY <2>2, <2>3, <2>4
<1>10. CASE LoseResponse
  <2>1. V!TypeOK' /\ P!TypeOK'
    BY <1>10 DEF LoseResponse, HandlerReturns, TypeOK, V!TypeOK, P!TypeOK
  <2>2. TypeOK'
    BY <1>10, <2>1 DEF LoseResponse, HandlerReturns, TypeOK
  <2>3. ProverStands' /\ ProverNeverAhead'
    BY <1>10, <2>2, Ranges
       DEF LoseResponse, HandlerReturns, ProverStands, ProverNeverAhead,
           RequestsBehind
  <2>4. MeasurementsBehind' /\ measured \subseteq measured'
    BY <1>10, <2>2, Ranges
       DEF LoseResponse, HandlerReturns, ProverStands, MeasurementsBehind
  <2> QED BY <2>2, <2>3, <2>4
<1>11. CASE ProverRxError
  <2>1. V!TypeOK' /\ P!TypeOK'
    BY <1>11 DEF ProverRxError, prover, TypeOK, V!TypeOK, P!TypeOK
  <2>2. TypeOK'
    BY <1>11, <2>1 DEF ProverRxError, prover, TypeOK
  <2> QED BY <1>11, <2>2
          DEF ProverRxError, prover, ProverStands, ProverNeverAhead, MeasurementsBehind
<1>12. CASE PPowerLoss
  <2>1. V!TypeOK' /\ P!TypeOK'
    BY <1>12, PendingIsCounter, ZeroInRange DEF PPowerLoss, P!PowerLoss, TypeOK, V!TypeOK, P!TypeOK
  <2>2. TypeOK'
    BY <1>12, <2>1 DEF PPowerLoss, TypeOK
  <2>3. ProverStands' /\ ProverNeverAhead'
    BY <1>12, <2>2, Ranges
       DEF PPowerLoss, P!PowerLoss, ProverStands, ProverNeverAhead, RequestsBehind
  <2>4. MeasurementsBehind' /\ measured \subseteq measured'
    BY <1>12, <2>2, Ranges DEF PPowerLoss, P!PowerLoss, ProverStands, MeasurementsBehind
  <2> QED BY <2>2, <2>3, <2>4
<1> QED BY <1>1, <1>2, <1>3, <1>4, <1>5, <1>6, <1>7, <1>8, <1>9, <1>10, <1>11, <1>12
           DEF ProverNext

LEMMA StepHolds == IInv /\ [Next]_vars => IInv'
<1> SUFFICES ASSUME IInv, [Next]_vars PROVE IInv'
  OBVIOUS
<1>1. CASE VerifierNext
  <2>1. VerifierMoves
    BY <1>1, VerifierStep
  <2>2. VerifierLocal
    BY <1>1 DEF VerifierNext, VerifierOnly, VBoot, VBootFails, Challenge, ChallengeRefused,
                ChallengeSettles, ChallengeSaved, ChallengeUnsaved, SendRequest,
                LoseRequest, SendRequestFails, TimeOut, Verify, VerifierRxError, VPowerLoss
  <2> QED BY <2>1, <2>2, ProverPartKept DEF VerifierMoves, VerifierPart, ProverPart, IInv
<1>2. CASE ProverNext
  <2>1. ProverMoves
    BY <1>2, ProverStep
  <2>2. UNCHANGED <<verifier, reqs>>
    BY <1>2 DEF ProverNext, ProverOnly, ProverLocal, ProverRxError, PBoot, PBootFails, Accept, AcceptSettles,
                AcceptSaved, AcceptUnsaved, Measure, MeasureFails, SendResponse,
                LoseResponse, PPowerLoss
  <2> QED BY <2>1, <2>2, VerifierPartKept DEF ProverMoves, VerifierPart, ProverPart, IInv
<1>3. CASE Tick
  <2>1. TypeOK'
    BY <1>3, TimeoutAssumption
       DEF Tick, IInv, TypeOK, V!TypeOK, P!TypeOK, vStore, vRest, prover, pStore, pRest, link
  <2> QED BY <1>3, <2>1
          DEF Tick, IInv, VerifierStands, RequestsBehind, ProverStands, MeasurementsBehind,
              ProverNeverAhead, vStore, vRest, prover, pStore, pRest, link
<1>4. CASE ImageChanges \/ FaultsEnd \/ UNCHANGED vars
  <2>1. UNCHANGED <<verifier, prover, link, measured>>
    BY <1>4 DEF ImageChanges, FaultsEnd, vars
  <2>2. image' \in Images /\ calm' \in BOOLEAN
    BY <1>4 DEF ImageChanges, FaultsEnd, vars, IInv, TypeOK
  <2>3. TypeOK'
    BY <2>1, <2>2 DEF IInv, TypeOK, V!TypeOK, P!TypeOK, verifier, vStore, vSession, vRest,
                      prover, pStore, pRest, link
  <2> QED BY <2>1, <2>3
          DEF IInv, VerifierStands, RequestsBehind, ProverStands, MeasurementsBehind,
              ProverNeverAhead, verifier, vStore, vSession, vRest, prover, pStore, pRest, link
<1> QED BY <1>1, <1>2, <1>3, <1>4 DEF Next

-----------------------------------------------------------------------------
\* The inductive invariant holds throughout.
THEOREM IInvHolds == Spec => []IInv
BY InitHolds, StepHolds, PTL DEF Spec

\* Every variable keeps its type; in particular no counter passes CounterMax.
THEOREM TypeCorrect == Spec => []TypeOK
<1>1. IInv => TypeOK
  BY DEF IInv
<1> QED BY <1>1, IInvHolds, PTL

\* The prover never holds a counter the verifier could still issue, so that the
\* next challenge is always acceptable to it.
THEOREM ProverIsNeverAhead == Spec => []ProverNeverAhead
<1>1. IInv => ProverNeverAhead
  BY DEF IInv
<1> QED BY <1>1, IInvHolds, PTL

\* prover_handle_request commits a counter before it measures for it.
THEOREM MeasuredOnlyCommitted == Spec => []MeasuredIsCommitted
<1>1. IInv => MeasuredIsCommitted
  BY DEF IInv, MeasurementsBehind, MeasuredIsCommitted
<1> QED BY <1>1, IInvHolds, PTL

\* verifier_challenge never reuses a counter, wherever resets and failures cut it off.
THEOREM RequestsKeepAdvancing == Spec => RequestsAdvance
<1> DEFINE Advance == \A r \in reqs' \ reqs : \A q \in reqs : q.counter < r.counter
<1>1. IInv /\ [Next]_vars => [Advance]_vars
  <2> SUFFICES ASSUME IInv, Next, reqs' # reqs PROVE Advance
    BY DEF vars
  <2>1. SendRequest \/ SendRequestFails
    BY DEF Next, VerifierNext, VBoot, VBootFails, Challenge, ChallengeRefused,
           ChallengeSettles, ChallengeSaved, ChallengeUnsaved, LoseRequest, TimeOut, Verify,
           VerifierRxError, VPowerLoss, ProverNext, ProverOnly, ProverLocal, PBoot, PBootFails, Accept,
           AcceptSettles, AcceptSaved, AcceptUnsaved, Measure, MeasureFails, SendResponse,
           LoseResponse, ProverRxError, PPowerLoss, Tick, ImageChanges, FaultsEnd, link
  <2>2. reqs' \subseteq reqs \cup {msg} /\ vAt = "send"
    BY <2>1 DEF SendRequest, SendRequestFails
  <2> QED BY <2>2 DEF IInv, VerifierStands, RequestsBehind
<1> QED BY <1>1, IInvHolds, PTL DEF Spec, RequestsAdvance

\* The prover measures at most once for a counter, and in their order, however often
\* and in whatever order requests arrive.
THEOREM MeasurementsKeepAdvancing == Spec => MeasurementsAdvance
<1> DEFINE Advance ==
      \A m \in measured' \ measured : \A q \in measured : q.counter < m.counter
<1>1. IInv /\ [Next]_vars => [Advance]_vars
  <2> SUFFICES ASSUME IInv, Next, measured' # measured PROVE Advance
    BY DEF vars
  <2>1. Measure
    BY DEF Next, VerifierNext, VerifierOnly, VerifierLocal, VBoot, VBootFails, Challenge, ChallengeRefused,
           ChallengeSettles, ChallengeSaved, ChallengeUnsaved, SendRequest, LoseRequest,
           SendRequestFails, TimeOut, Verify, VerifierRxError, VPowerLoss, ProverNext, PBoot,
           PBootFails, Accept, AcceptSettles, AcceptSaved, AcceptUnsaved, MeasureFails,
           SendResponse, LoseResponse, ProverRxError, PPowerLoss, Tick, ImageChanges, FaultsEnd
  <2>2. measured' = measured \cup {Report(job, image)} /\ pAt = "measure"
    BY <2>1 DEF Measure
  <2> QED BY <2>2 DEF IInv, ProverStands, MeasurementsBehind, Report
<1> QED BY <1>1, IInvHolds, PTL DEF Spec, MeasurementsAdvance

-----------------------------------------------------------------------------
(* Attestation implements AttestationSession.                              *)

SessionStep == [Session!Next]_(Session!sessionVars)

\* There is no measurement for a challenge that is not open, and only one for one
\* that is.
LEMMA OneMeasurement ==
  ASSUME IInv, NEW m \in OwnMeasurement
  PROVE  MeasuredForOpen = m.result /\ m.result \in Images /\ m.result # Nothing
<1>1. m \in measured /\ OwnMeasurement = {m}
  BY DEF IInv, MeasurementsBehind, OwnMeasurement
<1>2. (CHOOSE n \in OwnMeasurement : TRUE) = m
  BY <1>1
<1>3. m.result \in Images
  BY <1>1 DEF IInv, TypeOK, Reports
<1> QED BY <1>1, <1>2, <1>3, ImageAssumption DEF MeasuredForOpen, Images

LEMMA NoMeasurement == ~ outstanding => MeasuredForOpen = Nothing
BY DEF MeasuredForOpen, OwnMeasurement

LEMMA SameMeasurement ==
  ASSUME OwnMeasurement' = OwnMeasurement
  PROVE  MeasuredForOpen' = MeasuredForOpen
BY DEF MeasuredForOpen

\* A step that only takes a verdict off the display, if it does anything.
LEMMA QuietStep ==
  ASSUME UNCHANGED <<image, outstanding, MeasuredForOpen>>, Verdict' \in {Verdict, Nothing}
  PROVE  SessionStep
BY DEF SessionStep, Session!Next, Session!Forget, Session!sessionVars

\* A step that leaves no challenge outstanding and shows no verdict.
LEMMA EndingStep ==
  ASSUME image' = image, outstanding' = FALSE, Verdict' = Nothing,
         IInv
  PROVE  SessionStep
<1>1. MeasuredForOpen' = Nothing
  BY DEF MeasuredForOpen, OwnMeasurement
<1>2. CASE outstanding
  BY <1>1, <1>2 DEF IInv, TypeOK, SessionStep, Session!Next, Session!GiveUp
<1>3. CASE ~ outstanding
  BY <1>1, <1>3, NoMeasurement, QuietStep DEF IInv, TypeOK
<1> QED BY <1>2, <1>3

\* Every step of the two boards is a step of the session, or none.
LEMMA StepImplements == IInv /\ IInv' /\ [Next]_vars => SessionStep
<1> SUFFICES ASSUME IInv, IInv', [Next]_vars PROVE SessionStep
  OBVIOUS
<1>1. CASE \/ VBoot \/ VBootFails \/ Challenge \/ ChallengeRefused \/ ChallengeSettles
           \/ ChallengeUnsaved \/ SendRequest \/ LoseRequest \/ VerifierRxError
  <2> USE DEF VBoot, VBootFails, Challenge, ChallengeRefused, ChallengeSettles,
              ChallengeUnsaved, SendRequest, LoseRequest, VerifierRxError
  <2>1. UNCHANGED <<image, measured, outstanding, nonce>>
    BY <1>1 DEF VerifierOnly, VerifierLocal, vSession
  <2>2. vKnown' = vKnown \/ ~ outstanding
    BY <1>1 DEF V!Refuse, V!Begin, V!Settle, V!Fail, vStore, IInv, VerifierStands
  <2>3. OwnMeasurement' = OwnMeasurement
    BY <2>1, <2>2 DEF OwnMeasurement
  <2>4. vPhase' \in {vPhase, "READY", "ERROR"}
    BY <1>1 DEF vRest
  <2> QED BY <2>1, <2>3, <2>4, SameMeasurement, QuietStep DEF Verdict
<1>2. CASE ChallengeSaved
  <2>1. vAt = "challenge" /\ outstanding = FALSE /\ vKnown' = vPending
    BY <1>2 DEF ChallengeSaved, V!Ack, IInv, TypeOK, VerifierStands
  <2>2. \A m \in measured : m.counter < vPending
    BY <2>1, Ranges DEF IInv, VerifierStands, RequestsBehind, MeasurementsBehind
  <2>3. measured' = measured /\ image' = image /\ outstanding' = TRUE /\ vPhase' = "REQUEST"
    BY <1>2 DEF ChallengeSaved, VerifierOnly, VerifierLocal
  <2>4. OwnMeasurement' = {}
    BY <2>1, <2>2, <2>3, Ranges DEF OwnMeasurement, IInv
  <2>5. MeasuredForOpen' = Nothing /\ MeasuredForOpen = Nothing
    BY <2>1, <2>4, NoMeasurement DEF MeasuredForOpen
  <2> QED BY <2>1, <2>3, <2>5 DEF SessionStep, Session!Next, Session!Ask, Verdict
<1>3. CASE SendRequestFails \/ TimeOut \/ VPowerLoss
  BY <1>3, EndingStep
     DEF SendRequestFails, TimeOut, VPowerLoss, Cancel, VerifierOnly, VerifierLocal, Verdict
<1>4. CASE \E r \in resps : Verify(r)
  <2>1. PICK r \in resps : Verify(r)
    BY <1>4
  <2>2. r \in OwnMeasurement
    BY <2>1 DEF Verify, Answers, OwnMeasurement, IInv, MeasurementsBehind
  <2>3. MeasuredForOpen = r.result /\ r.result \in Images /\ r.result # Nothing
    BY <2>2, OneMeasurement
  <2>4. outstanding = TRUE /\ outstanding' = FALSE /\ image' = image
    BY <2>1 DEF Verify, Cancel, VerifierOnly, VerifierLocal, IInv, TypeOK
  <2>5. MeasuredForOpen' = Nothing
    BY <2>4 DEF MeasuredForOpen, OwnMeasurement
  <2>6. Verdict' = r.result
    BY <2>1, <2>3 DEF Verify, Verdict, Images
  <2> QED BY <2>3, <2>4, <2>5, <2>6 DEF SessionStep, Session!Next, Session!Conclude
<1>5. CASE Measure
  <2> DEFINE new == Report(job, image)
  <2>1. measured' = measured \cup {new} /\ UNCHANGED <<image, outstanding, nonce, vKnown, vPhase>>
    BY <1>5 DEF Measure, ProverOnly, ProverLocal, verifier, vStore, vSession, vRest
  <2>2. CASE outstanding /\ new.counter = vKnown /\ new.nonce = nonce
    <3>1. new \in OwnMeasurement'
      BY <2>1, <2>2 DEF OwnMeasurement
    <3>2. MeasuredForOpen' = image
      <4>1. IInv' => MeasuredForOpen' = new.result
        BY <2>1, <3>1 DEF IInv, MeasurementsBehind, OwnMeasurement, MeasuredForOpen
      <4> QED BY <4>1 DEF Report
    <3>3. \A m \in measured : m.counter # vKnown
      BY <1>5, <2>2, Ranges
         DEF Measure, IInv, ProverStands, MeasurementsBehind, Report
    <3>4. MeasuredForOpen = Nothing
      BY <3>3 DEF MeasuredForOpen, OwnMeasurement
    <3> QED BY <2>1, <2>2, <3>2, <3>4
            DEF SessionStep, Session!Next, Session!Measure, Verdict
  <2>3. CASE ~ (outstanding /\ new.counter = vKnown /\ new.nonce = nonce)
    <3>1. OwnMeasurement' = OwnMeasurement
      BY <2>1, <2>3 DEF OwnMeasurement
    <3> QED BY <2>1, <3>1, SameMeasurement, QuietStep DEF Verdict
  <2> QED BY <2>2, <2>3
<1>6. CASE \/ PBoot \/ PBootFails \/ (\E r \in reqs : Accept(r))
           \/ AcceptSettles \/ AcceptSaved \/ AcceptUnsaved
           \/ MeasureFails \/ SendResponse \/ LoseResponse \/ ProverRxError \/ PPowerLoss
           \/ Tick \/ FaultsEnd \/ UNCHANGED vars
  <2>1. UNCHANGED <<image, measured, outstanding, nonce, vKnown, vPhase>>
    BY <1>6 DEF PBoot, PBootFails, Accept, AcceptSettles, AcceptSaved, AcceptUnsaved,
                MeasureFails, SendResponse, LoseResponse, ProverRxError, PPowerLoss, Tick,
                FaultsEnd, vars, ProverOnly, ProverLocal, verifier, vStore, vSession, vRest
  <2>2. OwnMeasurement' = OwnMeasurement
    BY <2>1 DEF OwnMeasurement
  <2> QED BY <2>1, <2>2, SameMeasurement, QuietStep DEF Verdict
<1>7. CASE ImageChanges
  <2>1. UNCHANGED <<measured, outstanding, nonce, vKnown, vPhase>>
    BY <1>7 DEF ImageChanges, verifier, vStore, vSession, vRest
  <2>2. OwnMeasurement' = OwnMeasurement
    BY <2>1 DEF OwnMeasurement
  <2> QED BY <1>7, <2>1, <2>2, SameMeasurement
          DEF ImageChanges, SessionStep, Session!Next, Session!Change, Verdict
<1> QED BY <1>1, <1>2, <1>3, <1>4, <1>5, <1>6, <1>7 DEF Next, VerifierNext, ProverNext

\* A verdict is the result of the single measurement made between the commit of the
\* challenge and the verdict: verifier, prover and link implement one session.
THEOREM SessionImplemented == Spec => ImplementsSession
<1>1. Init => Session!Init
  BY NoMeasurement DEF Init, Session!Init, Images, Verdict
<1>2. IInv /\ IInv' /\ [Next]_vars => [Session!Next]_(Session!sessionVars)
  BY StepImplements DEF SessionStep
<1> QED BY <1>1, <1>2, IInvHolds, PTL DEF Spec, ImplementsSession, Session!Spec
=============================================================================
