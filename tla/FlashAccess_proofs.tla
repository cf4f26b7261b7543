-------------------------- MODULE FlashAccess_proofs --------------------------
(***************************************************************************)
(* Theorems about one counter save, for every wait limit and every width   *)
(* of the timers.                                                          *)
(*                                                                         *)
(* IInv is inductive (IInvHolds).  Its parts are about different variables *)
(* and so have a lemma each: types, the restoring of masks and locks, and  *)
(* the naming of failures.                                                 *)
(***************************************************************************)
EXTENDS FlashAccess, TLAPS

\* A millisecond later is a value of the timer, too.
LEMMA TimerValue == ASSUME NEW t \in 0 .. TimerMod - 1
                    PROVE  (t + 1) % TimerMod \in 0 .. TimerMod - 1
BY LimitAssumption

LEMMA FirstWord == board \in Boards => 0 \in 0 .. Words[board] - 1
BY DEF Boards, Words

\* What ProgramError makes of the flags says what the flags were.
LEMMA ProgramErrorMeans ==
  ASSUME board \in Boards, failure.flags \subseteq Flags[board], failure.step = "program"
  PROVE  Meaning(ProgramError(failure.flags))
BY DEF Boards, Flags, Misaligned, ProgramError, Meaning

LEMMA InitHolds == Init => IInv
<1> SUFFICES ASSUME Init PROVE IInv
  OBVIOUS
<1>1. 0 \in 0 .. TimerMod - 1
  BY LimitAssumption
<1>2. 0 \in 0 .. Words[board] - 1
  BY FirstWord DEF Init
<1>3. TypeOK
  BY <1>1, <1>2 DEF Init, TypeOK, Points, Saving
<1> QED BY <1>3 DEF Init, IInv, MaskedExactly, WritableOnlyInside, MasksNest, ErrorFollows,
                    Saving, Accessing, Boards

LEMMA FailureType ==
  ASSUME NEW s \in {"unlock", "erase", "program", "compare", "readBack"},
         NEW f \in SUBSET Flags[board]
  PROVE  [step |-> s, flags |-> f] \in
           [step : {"none", "unlock", "erase", "program", "compare", "readBack"},
            flags : SUBSET Flags[board]]
OBVIOUS

\* Every step keeps the types.
LEMMA TypeStep == ASSUME TypeOK, [Next]_vars PROVE TypeOK'
<1> USE DEF TypeOK, GoTo, masks, access, clock, outcome
<1>1. CASE EnterAtomic
  BY <1>1 DEF EnterAtomic, Points, Saving, Accessing
<1>2. CASE Challenge
  BY <1>2 DEF Challenge, Points, Saving, Accessing
<1>3. CASE StartSave
  BY <1>3 DEF StartSave, Points, Saving, Accessing
<1>4. CASE Open
  BY <1>4 DEF Open, Window, Points, Saving, Accessing
<1>5. CASE Unlock
  BY <1>5, FirstWord DEF Unlock, Wait, GetTick, Points, Saving, Accessing
<1>6. CASE UnlockRefused
  BY <1>6 DEF UnlockRefused, Fails, Points, Saving, Accessing
<1>7. CASE OperationTimesOut
  BY <1>7 DEF OperationTimesOut, OperationFails, Fails, Points, Saving, Accessing
<1>8. CASE OperationRefused
  <2>1. PICK flags \in SUBSET Flags[board] : OperationFails(flags)
    BY <1>8 DEF OperationRefused
  <2> QED BY <2>1, FailureType DEF OperationFails, Fails, Points, Saving, Accessing
<1>9. CASE Name
  BY <1>9 DEF Name, ProgramError, Points, Saving, Accessing
<1>10. CASE Compare
  BY <1>10, FailureType DEF Compare, Fails, Points, Saving, Accessing
<1>11. CASE Close
  BY <1>11 DEF Close, Window, Points, Saving, Accessing
<1>12. CASE ReadBack
  BY <1>12, FailureType DEF ReadBack, Fails, Points, Saving, Accessing
<1>13. CASE Saved
  BY <1>13 DEF Saved, Wait, GetTick, Points, Saving, Accessing
<1>14. CASE Display
  BY <1>14 DEF Display, Points, Saving, Accessing
<1>15. CASE DisplayTimesOut
  BY <1>15 DEF DisplayTimesOut, Display, Points, Saving, Accessing
<1>16. CASE LeaveAtomic
  BY <1>16 DEF LeaveAtomic, Points, Saving, Accessing
<1>17. CASE NextWord
  BY <1>17 DEF NextWord, MoreWords, Wait, GetTick, Words, Boards, Points, Saving, Accessing
<1>18. CASE OperationDone
  BY <1>18 DEF OperationDone, MoreWords, Points, Saving, Accessing
<1>19. CASE Tick
  BY <1>19, TimerValue DEF Tick, Points, Saving, Accessing
<1>20. CASE UNCHANGED vars
  BY <1>20 DEF vars, Points, Saving, Accessing
<1> QED BY <1>1, <1>2, <1>3, <1>4, <1>5, <1>6, <1>7, <1>8, <1>9, <1>10,
           <1>11, <1>12, <1>13, <1>14, <1>15, <1>16, <1>17, <1>18, <1>19, <1>20
   DEF Next, Run

\* Every step keeps the masks, the window and the lock in place.
LEMMA MasksStep ==
  ASSUME TypeOK, MaskedExactly, WritableOnlyInside, MasksNest, [Next]_vars
  PROVE  MaskedExactly' /\ WritableOnlyInside' /\ MasksNest'
<1> USE DEF TypeOK, MaskedExactly, WritableOnlyInside, MasksNest, GoTo,
            masks, access, clock, Saving, Accessing, Boards
<1>1. CASE EnterAtomic
  BY <1>1 DEF EnterAtomic
<1>2. CASE Challenge
  BY <1>2 DEF Challenge
<1>3. CASE StartSave
  BY <1>3 DEF StartSave
<1>4. CASE Open
  BY <1>4 DEF Open, Window
<1>5. CASE Unlock
  BY <1>5 DEF Unlock, Wait
<1>6. CASE UnlockRefused
  BY <1>6 DEF UnlockRefused, Fails
<1>7. CASE OperationTimesOut
  BY <1>7 DEF OperationTimesOut, OperationFails, Fails
<1>8. CASE OperationRefused
  BY <1>8 DEF OperationRefused, OperationFails, Fails
<1>9. CASE Name
  BY <1>9 DEF Name, ProgramError
<1>10. CASE Compare
  BY <1>10 DEF Compare, Fails
<1>11. CASE Close
  BY <1>11 DEF Close, Window
<1>12. CASE ReadBack
  BY <1>12 DEF ReadBack, Fails
<1>13. CASE Saved
  BY <1>13 DEF Saved, Wait
<1>14. CASE Display
  BY <1>14 DEF Display
<1>15. CASE DisplayTimesOut
  BY <1>15 DEF DisplayTimesOut, Display
<1>16. CASE LeaveAtomic
  BY <1>16 DEF LeaveAtomic
<1>17. CASE NextWord
  BY <1>17 DEF NextWord, MoreWords, Wait
<1>18. CASE OperationDone
  BY <1>18 DEF OperationDone, MoreWords
<1>19. CASE Tick
  BY <1>19 DEF Tick
<1>20. CASE UNCHANGED vars
  BY <1>20 DEF vars
<1> QED BY <1>1, <1>2, <1>3, <1>4, <1>5, <1>6, <1>7, <1>8, <1>9, <1>10,
           <1>11, <1>12, <1>13, <1>14, <1>15, <1>16, <1>17, <1>18, <1>19, <1>20
   DEF Next, Run

\* Every step keeps the error code true to the failure.
LEMMA ErrorStep == ASSUME TypeOK, ErrorFollows, [Next]_vars PROVE ErrorFollows'
<1> USE DEF ErrorFollows, GoTo, access, outcome, clock, Saving, Accessing
<1>1. CASE EnterAtomic
  BY <1>1 DEF EnterAtomic, Meaning
<1>2. CASE Challenge
  BY <1>2 DEF Challenge, Meaning
<1>3. CASE StartSave
  BY <1>3 DEF StartSave, Meaning
<1>4. CASE Open
  BY <1>4 DEF Open, Window, Meaning
<1>5. CASE Unlock
  BY <1>5 DEF Unlock, Wait, Meaning
<1>6. CASE UnlockRefused
  BY <1>6 DEF UnlockRefused, Fails, Meaning
<1>7. CASE OperationTimesOut
  BY <1>7 DEF OperationTimesOut, OperationFails, Fails, Meaning
<1>8. CASE OperationRefused
  BY <1>8 DEF OperationRefused, OperationFails, Fails, Meaning
<1>9. CASE Name
  <2>1. board \in Boards /\ failure.flags \subseteq Flags[board]
    BY DEF TypeOK
  <2>2. CASE store_error = "COUNTER_SAVE" /\ failure.step = "program"
    <3>1. store_error' = ProgramError(failure.flags) /\ UNCHANGED <<failure, board>>
      BY <1>9, <2>2 DEF Name
    <3>2. Meaning(store_error)'
      BY <2>1, <2>2, <3>1, ProgramErrorMeans DEF Meaning
    <3> QED BY <1>9, <3>2 DEF Name
  <2>3. CASE store_error = "FLASH_UNLOCK" /\ failure.step = "unlock"
    BY <1>9, <2>3 DEF Name, Meaning
  <2> QED BY <1>9, <2>2, <2>3 DEF Name
<1>10. CASE Compare
  BY <1>10 DEF Compare, Fails, Meaning
<1>11. CASE Close
  BY <1>11 DEF Close, Window, Meaning
<1>12. CASE ReadBack
  BY <1>12 DEF ReadBack, Fails, Meaning
<1>13. CASE Saved
  BY <1>13 DEF Saved, Wait, Meaning
<1>14. CASE Display
  BY <1>14 DEF Display, Meaning
<1>15. CASE DisplayTimesOut
  BY <1>15 DEF DisplayTimesOut, Display, Meaning
<1>16. CASE LeaveAtomic
  BY <1>16 DEF LeaveAtomic, Meaning
<1>17. CASE NextWord
  BY <1>17 DEF NextWord, MoreWords, Wait, Meaning
<1>18. CASE OperationDone
  BY <1>18 DEF OperationDone, MoreWords, Meaning
<1>19. CASE Tick
  BY <1>19 DEF Tick, Meaning
<1>20. CASE UNCHANGED vars
  BY <1>20 DEF vars, Meaning
<1> QED BY <1>1, <1>2, <1>3, <1>4, <1>5, <1>6, <1>7, <1>8, <1>9, <1>10,
           <1>11, <1>12, <1>13, <1>14, <1>15, <1>16, <1>17, <1>18, <1>19, <1>20
   DEF Next, Run

-----------------------------------------------------------------------------
\* The inductive invariant holds throughout.
THEOREM IInvHolds == Spec => []IInv
<1>1. IInv /\ [Next]_vars => IInv'
  BY TypeStep, MasksStep, ErrorStep DEF IInv
<1> QED BY <1>1, InitHolds, PTL DEF Spec

\* Every variable of a save keeps its type: the write never passes the record's last
\* word, and only flags of the board's own flash are ever read.
THEOREM TypeCorrect == Spec => []TypeOK
<1>1. IInv => TypeOK
  BY DEF IInv
<1> QED BY <1>1, IInvHolds, PTL

\* The prover's atomic section is never interrupted by the saves inside it, and
\* outside of section and save interrupts are on.
THEOREM MasksRestored == Spec => []MaskedExactly
<1>1. IInv => MaskedExactly
  BY DEF IInv
<1> QED BY <1>1, IInvHolds, PTL

\* On every path of journal_program and journal_erase the MPU window is closed and
\* the flash is locked again.
THEOREM FlashClosedAgain == Spec => []WritableOnlyInside
<1>1. IInv => WritableOnlyInside
  BY DEF IInv
<1> QED BY <1>1, IInvHolds, PTL

\* A board stops with the code of what failed first in its save.
THEOREM FirstFailureNamed == Spec => []FailureNamed
<1>1. IInv => FailureNamed
  BY DEF IInv, ErrorFollows, FailureNamed
<1> QED BY <1>1, IInvHolds, PTL
==============================================================================
