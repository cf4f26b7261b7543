---------------------------- MODULE FlashAccess ----------------------------
(***************************************************************************)
(* One counter save at the grain of the calls that drivers/stm32/store.c   *)
(* makes: the interrupt mask, the MPU window over the journals, the lock   *)
(* of the flash controller, the vendor library's waiting with a timeout,   *)
(* and the error code a failed save ends with.                             *)
(*                                                                         *)
(* The H743 is the prover, which saves and measures inside its atomic      *)
(* section; the G431 is the verifier, which saves outside of any.  What    *)
(* ends up in flash is the matter of Journal.                              *)
(***************************************************************************)
EXTENDS Integers

CONSTANTS
  TimerMod,  \* 2^32, the values of TIM2 and of uwTick
  Limit      \* ms the vendor library waits for the flash or the LCD

ASSUME LimitAssumption ==
  TimerMod \in Nat /\ Limit \in Nat \ {0} /\ Limit + 1 < TimerMod

VARIABLES
  board,            \* which board this is
  at,               \* where its program is
  tim2, uwTick,     \* the free-running timer, and the count of SysTick interrupts
  primask,          \* interrupts are masked
  previous,         \* the mask enter_atomic returned
  saved,            \* the mask journal_program or journal_erase found
  window,           \* the MPU lets the journals be written
  unlocked,         \* the flash controller is unlocked
  op, word, ok,     \* what is done to the flash, its current word, no failure yet
  start,            \* when the vendor library began to wait
  store_error,      \* of store.c
  failure           \* history: the step that failed first, with the flags it left

masks == <<primask, previous, saved>>
access == <<window, unlocked>>
clock == <<tim2, uwTick>>
outcome == <<store_error, failure>>
vars == <<board, at, clock, masks, access, op, word, ok, start, outcome>>

Boards == {"H743", "G431"}
Words == [H743 |-> 1, G431 |-> 4]
Flags == [H743 |-> {"WRP", "PGS", "STRB", "INC"}, G431 |-> {"WRP", "PGA", "SIZ", "PGS"}]

\* Inside journal_program or journal_erase, between its two board_flash_access.
Accessing == {"unlock", "run", "name", "compare", "close"}
\* The vendor library waits.
Waiting == {"run", "display"}
Saving == Accessing \cup {"save", "open", "readBack", "saved"}
Points == Saving \cup {"idle", "display", "leave", "stopped"}

TypeOK ==
  /\ board \in Boards /\ at \in Points
  /\ {tim2, uwTick, start} \subseteq 0 .. TimerMod - 1
  /\ {primask, previous, saved, window, unlocked, ok} \subseteq BOOLEAN
  /\ op \in {"erase", "program"} /\ word \in 0 .. Words[board] - 1
  /\ store_error \in {"NONE", "COUNTER_SAVE", "FLASH_UNLOCK", "FLASH_WRP",
                      "FLASH_ALIGNMENT", "FLASH_PROGRAM", "FLASH_VERIFY",
                      "FLASH_ERASE", "FLASH_SIZE_WRITE", "FLASH_SEQUENCE"}
  /\ failure \in [step: {"none", "unlock", "erase", "program", "compare", "readBack"},
                  flags: SUBSET Flags[board]]

Init ==
  /\ board \in Boards /\ at = "idle"
  /\ tim2 = 0 /\ uwTick = 0 /\ start = 0
  /\ primask = FALSE /\ previous = FALSE /\ saved = FALSE
  /\ window = FALSE /\ unlocked = FALSE
  /\ op = "program" /\ word = 0 /\ ok = TRUE
  /\ store_error = "NONE" /\ failure = [step |-> "none", flags |-> {}]

-----------------------------------------------------------------------------
\* Faulty: the vendor library counts SysTick interrupts.
GetTickBySysTick == uwTick
\* HAL_GetTick, once board_init has started TIM2.
GetTick == tim2

Elapsed == (GetTick - start) % TimerMod
TimesOut == Elapsed > Limit
GoTo(point) == at' = point /\ UNCHANGED <<board, clock>>
Wait == start' = GetTick

\* A millisecond.  The vendor library looks at the time more often than that.
Tick ==
  /\ at \in Waiting => ~ TimesOut
  /\ tim2' = (tim2 + 1) % TimerMod
  /\ uwTick' = IF primask THEN uwTick ELSE (uwTick + 1) % TimerMod
  /\ UNCHANGED <<board, at, masks, access, op, word, ok, start, outcome>>

\* board_flash_access
Window(writable) == window' = writable

Fails(step, flags) ==
  ok' = FALSE /\ failure' = [step |-> step, flags |-> flags]

-----------------------------------------------------------------------------
(* The save, as auth_journal_save makes it.                                *)

\* The prover's section; a request that is refused leaves it at once.
EnterAtomic ==
  /\ board = "H743" /\ at = "idle"
  /\ previous' = primask /\ primask' = TRUE
  /\ \/ GoTo("save")
     \/ GoTo("leave")
  /\ UNCHANGED <<saved, access, op, word, ok, start, outcome>>

Challenge ==
  /\ board = "G431" /\ at = "idle"
  /\ GoTo("save")
  /\ UNCHANGED <<masks, access, op, word, ok, start, outcome>>

\* A full block makes the save erase the other one first.
StartSave ==
  /\ at = "save"
  /\ store_error' = "COUNTER_SAVE"
  /\ op' \in {"erase", "program"}
  /\ GoTo("open")
  /\ UNCHANGED <<masks, access, word, ok, start, failure>>

Open ==
  /\ at = "open"
  /\ saved' = primask /\ primask' = TRUE
  /\ Window(TRUE)
  /\ GoTo("unlock")
  /\ UNCHANGED <<previous, unlocked, op, word, ok, start, outcome>>

Unlock ==
  /\ at = "unlock"
  /\ unlocked' = TRUE /\ word' = 0
  /\ Wait
  /\ GoTo("run")
  /\ UNCHANGED <<masks, window, op, ok, outcome>>

\* Faulty: return at once.
UnlockRefusedReturns ==
  /\ at = "unlock"
  /\ Fails("unlock", {}) /\ store_error' = "FLASH_UNLOCK"
  /\ primask' = saved
  /\ GoTo("saved")
  /\ UNCHANGED <<previous, saved, access, op, word, start>>
UnlockRefused ==
  /\ at = "unlock"
  /\ Fails("unlock", {}) /\ store_error' = "FLASH_UNLOCK"
  /\ GoTo(IF op = "program" THEN "name" ELSE "close")
  /\ UNCHANGED <<masks, access, op, word, start>>

\* Faulty: one word too many.
MoreWordsOff == op = "program" /\ word < Words[board]
MoreWords == op = "program" /\ word + 1 < Words[board]

NextWord ==
  /\ at = "run" /\ MoreWords
  /\ word' = word + 1
  /\ Wait
  /\ GoTo("run")
  /\ UNCHANGED <<masks, access, op, ok, outcome>>

OperationDone ==
  /\ at = "run" /\ ~ MoreWords
  /\ GoTo(IF op = "program" THEN "compare" ELSE "close")
  /\ UNCHANGED <<masks, access, op, word, ok, start, outcome>>

OperationFails(flags) ==
  /\ at = "run"
  /\ Fails(op, flags)
  /\ \/ /\ op = "program"
        /\ GoTo("name") /\ UNCHANGED store_error
     \/ /\ op = "erase"
        /\ store_error' = IF "WRP" \in flags THEN "FLASH_WRP" ELSE "FLASH_ERASE"
        /\ GoTo("close")
  /\ UNCHANGED <<masks, access, op, word, start>>

OperationRefused == \E flags \in SUBSET Flags[board] : OperationFails(flags)
OperationTimesOut == TimesOut /\ OperationFails({})

Misaligned == [H743 |-> {"PGS", "STRB", "INC"}, G431 |-> {"PGA"}]
ProgramError(flags) ==
  IF "WRP" \in flags THEN "FLASH_WRP"
  ELSE IF flags \cap Misaligned[board] # {} THEN "FLASH_ALIGNMENT"
  ELSE IF "SIZ" \in flags THEN "FLASH_SIZE_WRITE"
  ELSE IF "PGS" \in flags THEN "FLASH_SEQUENCE"
  ELSE "FLASH_PROGRAM"

\* Faulty: whatever failed before is named anew.
NameAgain ==
  /\ at = "name"
  /\ store_error' = ProgramError(failure.flags)
  /\ GoTo("close")
  /\ UNCHANGED <<masks, access, op, word, ok, start, failure>>
\* store.c:68-85; only a program that is the first to fail is named here.
Name ==
  /\ at = "name"
  /\ store_error' = IF store_error = "COUNTER_SAVE"
                    THEN ProgramError(failure.flags)
                    ELSE store_error
  /\ GoTo("close")
  /\ UNCHANGED <<masks, access, op, word, ok, start, failure>>

Compare ==
  /\ at = "compare"
  /\ \/ UNCHANGED <<ok, outcome>>
     \/ Fails("compare", {}) /\ store_error' = "FLASH_VERIFY"
  /\ GoTo("close")
  /\ UNCHANGED <<masks, access, op, word, start>>

\* Faulty: interrupts are enabled, not restored.
CloseEnables ==
  /\ at = "close"
  /\ Window(FALSE) /\ unlocked' = FALSE /\ primask' = FALSE
  /\ op' = "program"
  /\ GoTo(CASE ~ ok -> "saved" [] ok /\ op = "erase" -> "open" [] OTHER -> "readBack")
  /\ UNCHANGED <<previous, saved, word, ok, start, outcome>>
Close ==
  /\ at = "close"
  /\ Window(FALSE) /\ unlocked' = FALSE /\ primask' = saved
  /\ op' = "program"
  /\ GoTo(CASE ~ ok -> "saved" [] ok /\ op = "erase" -> "open" [] OTHER -> "readBack")
  /\ UNCHANGED <<previous, saved, word, ok, start, outcome>>

\* auth_journal_save looks at the record once more.  That its MAC cannot be computed
\* before it is programmed is left out: HMAC is ideal.
ReadBack ==
  /\ at = "readBack"
  /\ \/ UNCHANGED <<ok, outcome>>
     \/ Fails("readBack", {}) /\ UNCHANGED store_error
  /\ GoTo("saved")
  /\ UNCHANGED <<masks, access, op, word, start>>

\* board_store_save returns; a failure makes main stop.
Saved ==
  /\ at = "saved"
  /\ \/ board = "G431" /\ GoTo(IF ok THEN "idle" ELSE "stopped") /\ UNCHANGED start
     \/ board = "H743" /\ ok /\ GoTo("display") /\ Wait
     \/ board = "H743" /\ ~ ok /\ GoTo("leave") /\ UNCHANGED start
  /\ UNCHANGED <<masks, access, op, word, ok, outcome>>

\* The prover shows MEASURING, still inside its section, and measures.
Display ==
  /\ at = "display"
  /\ GoTo("leave")
  /\ UNCHANGED <<masks, access, op, word, ok, start, outcome>>

DisplayTimesOut == TimesOut /\ Display

LeaveAtomic ==
  /\ at = "leave"
  /\ primask' = previous
  /\ GoTo(IF ok THEN "idle" ELSE "stopped")
  /\ UNCHANGED <<previous, saved, access, op, word, ok, start, outcome>>

\* What the program does by itself; the flash and the LCD may never get done.
Run ==
  \/ StartSave \/ Open \/ Unlock \/ UnlockRefused
  \/ OperationTimesOut \/ Name \/ Compare \/ Close \/ ReadBack
  \/ Saved \/ DisplayTimesOut \/ LeaveAtomic

Next ==
  \/ EnterAtomic \/ Challenge \/ Run
  \/ NextWord \/ OperationDone \/ OperationRefused \/ Display
  \/ Tick

Spec == Init /\ [][Next]_vars
FairSpec == Spec /\ WF_vars(Run) /\ WF_vars(Tick)

-----------------------------------------------------------------------------
\* The prover's section stays uninterrupted although a save inside it masks
\* interrupts and restores them itself, twice when it erases; outside of section
\* and save, interrupts are on ("Request authentication, counter commit,
\* measurement, and response computation run inside the platform's atomic
\* section", docs/protocol.md).
MaskedExactly ==
  primask <=> \/ board = "H743" /\ at \notin {"idle", "stopped"}
              \/ at \in Accessing

\* The journals can be written only while nothing else can run, and every way out
\* of a save closes the window and locks the flash ("keep code and provisioning
\* read-only while opening the counter journals", board.c:53).
WritableOnlyInside == window \/ unlocked => primask /\ at \in Accessing

\* The code a board stops with is the one docs/troubleshooting.md gives for what
\* failed first, whatever steps of the same save came after it.
Meaning(error) ==
  LET step == failure.step
      flags == failure.flags
  IN CASE error = "FLASH_UNLOCK" -> step = "unlock"
       [] error = "FLASH_WRP" -> step \in {"erase", "program"} /\ "WRP" \in flags
       [] error = "FLASH_ALIGNMENT" -> step = "program" /\ flags \cap Misaligned[board] # {}
       [] error = "FLASH_SIZE_WRITE" -> step = "program" /\ "SIZ" \in flags
       [] error = "FLASH_SEQUENCE" -> step = "program" /\ "PGS" \in flags
       [] error = "FLASH_PROGRAM" -> step = "program" /\ flags = {}
       [] error = "FLASH_VERIFY" -> step = "compare"
       [] error = "FLASH_ERASE" -> step = "erase" /\ "WRP" \notin flags
       [] error = "COUNTER_SAVE" -> step = "readBack"
       [] OTHER -> FALSE
FailureNamed == at = "stopped" => Meaning(store_error)

-----------------------------------------------------------------------------
(* The inductive invariant behind these.                                   *)

\* What is restored at the end of an access, and of the prover's section, is what
\* was found at its beginning.
MasksNest ==
  /\ board = "G431" => at \notin {"display", "leave"}
  /\ board = "H743" /\ at \notin {"idle", "stopped"} => ~ previous
  /\ at \in Accessing => saved = (board = "H743")

\* store_error names the failure from the moment it is left behind; until a step
\* fails it is the code the save began with.
ErrorFollows ==
  /\ at \in Saving \ {"save"} /\ ok => store_error = "COUNTER_SAVE"
  /\ ~ ok => at \in {"name", "close", "saved", "leave", "stopped"}
  /\ at = "stopped" => ~ ok
  /\ at = "name" =>
       /\ ~ ok
       /\ \/ store_error = "COUNTER_SAVE" /\ failure.step = "program"
          \/ store_error = "FLASH_UNLOCK" /\ failure.step = "unlock"
  /\ ~ ok /\ at # "name" => Meaning(store_error)

\* At every call of a save the masks nest and the error follows the first failure.
IInv == TypeOK /\ MaskedExactly /\ WritableOnlyInside /\ MasksNest /\ ErrorFollows

-----------------------------------------------------------------------------
\* A flash or an LCD that never gets done does not hold the board: "flash/SPI
\* timeouts continue even when interrupts are masked" (docs/protocol.md).
SavesEnd == at \in Saving ~> at \in {"idle", "stopped"}
=============================================================================
