------------------------------- MODULE Boards -------------------------------
(***************************************************************************)
(* The two boards from power-on: what each checks before it takes part in  *)
(* the protocol, how it stops when a check or a counter save fails, and    *)
(* what it then tells, on its LED, on the LCD of the H743 and, from the    *)
(* G431, in a diagnostic frame to its peer (drivers/stm32/board.c and      *)
(* store.c, drivers/components/st7735_h7.c, instances/stm32/main.c).       *)
(*                                                                         *)
(* Nonces, counters and deadlines are left to Attestation and VerifierLoop,*)
(* the ways a save fails to FlashAccess, the pace of the UART to           *)
(* UartReceiver.                                                           *)
(***************************************************************************)
EXTENDS Integers, Sequences, FiniteSets

CONSTANTS
  MaxDefects,  \* bound on the checks that fail, on both boards together
  SaveErrors   \* the codes with which a save fails

\* auth_error_t, E05 of older firmware left out.  Nothing reports E11, nor E09 of a
\* request: auth_frame_feed gives main no request of another length, and
\* simple_parse_msg refuses nothing else.
Error == [NONE |-> 0, CLOCK |-> 1, UART_INIT |-> 2, RNG |-> 3, LCD |-> 4,
          PROVISIONING |-> 6, JOURNAL |-> 7, UART_RX |-> 8, FRAME |-> 9,
          FRAME_TYPE |-> 10, REQUEST_LENGTH |-> 11, STALE_COUNTER |-> 12,
          REQUEST_AUTH |-> 13, COUNTER_SAVE |-> 14, MEASUREMENT |-> 15, RESPONSE |-> 16,
          CHALLENGE |-> 17, UART_TX |-> 18, INTERNAL |-> 19, FLASH_SIZE |-> 20,
          BANK_MAPPING |-> 21, RDP |-> 22, CODE_WRP |-> 23, KEY_WRP |-> 24,
          FLASH_UNLOCK |-> 25, FLASH_SEQUENCE |-> 32]
ErrorCodes == 0 .. 32

ASSUME BoardsAssumption ==
  /\ MaxDefects \in Nat
  /\ SaveErrors \subseteq {Error.COUNTER_SAVE} \cup (Error.FLASH_UNLOCK .. Error.FLASH_SEQUENCE)

VARIABLES
  production,   \* AUTH_REQUIRE_PROTECTION
  defects,      \* the checks each board cannot pass
  at, step,     \* where each board is, and its next check
  gpio,         \* the LED's port has its clock and is an output
  uart,         \* uart_ready
  led, phase, code,  \* the LED, board_phase, board_error_code
  outstanding,  \* verifier_t.outstanding
  lcd, screen,  \* lcd_ready, and what the panel shows
  synced,       \* the H743's receiver is not behind the line
  wire,         \* the frame on the line, if any
  cause         \* history: the failure each board stops for

built == <<production, defects>>
display == <<lcd, screen>>
link == <<synced, wire>>
vars == <<built, at, step, gpio, uart, led, phase, code, outstanding, display, link, cause>>

Board == {"H743", "G431"}
\* The places of main's loop, where a board takes part in the protocol.
Serving == {"loop", "sending", "handling", "measuring", "answering"}
\* auth_phase_t.  prover_handle_request never shows REJECTED: it has an error by then.
Phases == {"OFF", "READY", "REQUEST", "MEASURING", "PASS", "MISMATCH", "REJECTED",
           "TIMEOUT", "ERROR"}
Screens == [title: {"", "mixed", "SIMPLE PROVER", "VERIFIER"}, phase: Phases, code: ErrorCodes]
Blank == [title |-> "", phase |-> "OFF", code |-> 0]
\* Part of one picture over another.
Mixed == [title |-> "mixed", phase |-> "OFF", code |-> 0]
Frames == [type: {"none", "request", "response"}, payload: {<<>>}]
            \cup [type: {"diagnostic"}, payload: [1 .. 1 -> ErrorCodes]]
NoFrame == [type |-> "none", payload |-> <<>>]
Request == [type |-> "request", payload |-> <<>>]
Response == [type |-> "response", payload |-> <<>>]

-----------------------------------------------------------------------------
(* What a board checks, in this order; a check has the name of its error.  *)

\* clock_init, which sets up the oscillators, the buses and the clock of the RNG.
ClockChecks == <<"CLOCK">>
\* board_lcd_init, up to the first fill of the panel.
LcdChecks(b) == IF b = "H743" THEN <<"LCD">> ELSE <<>>
InitChecks(b) == ClockChecks \o LcdChecks(b) \o <<"UART_INIT", "RNG">>

\* protection_valid asks nothing of the G431's bank mode, as docs/deployment.md:28
\* has it ("No enhanced-RNG or dual-bank flash setting is used"); the row of E21 in
\* docs/troubleshooting.md speaks of "the required G4 dual-bank mode".
GeometryChecks(b) ==
  IF b = "H743" THEN <<"FLASH_SIZE", "BANK_MAPPING">> ELSE <<"FLASH_SIZE">>

\* Faulty: the write protection of the keys is not looked at.
ProtectionChecksOfCode ==
  IF production THEN <<"RDP", "CODE_WRP">> ELSE <<>>
ProtectionChecks ==
  IF production THEN <<"RDP", "CODE_WRP", "KEY_WRP">> ELSE <<>>

StoreChecks == <<"PROVISIONING", "JOURNAL">>

Checks(b) == InitChecks(b) \o GeometryChecks(b) \o ProtectionChecks \o StoreChecks

\* What must hold before a board takes part (docs/deployment.md, and
\* docs/troubleshooting.md except for the G431's bank mode).
Required(b) ==
  {"CLOCK", "UART_INIT", "RNG", "FLASH_SIZE", "PROVISIONING", "JOURNAL"}
    \cup (IF b = "H743" THEN {"LCD", "BANK_MAPPING"} ELSE {})
    \cup (IF production THEN {"RDP", "CODE_WRP", "KEY_WRP"} ELSE {})

TypeOK ==
  /\ production \in BOOLEAN
  /\ defects \in [Board -> SUBSET UNION {Required(b) : b \in Board}]
  /\ at \in [Board -> {"boot", "fatal", "halted"} \cup Serving]
  /\ step \in [Board -> Nat]
  /\ \A b \in Board : defects[b] \subseteq Required(b) /\ step[b] \in 1 .. Len(Checks(b))
  /\ gpio \in [Board -> BOOLEAN] /\ uart \in [Board -> BOOLEAN]
  /\ led \in [Board -> {"dark", "lit", "flashing"}]
  /\ phase \in [Board -> Phases]
  /\ code \in [Board -> ErrorCodes] /\ cause \in [Board -> ErrorCodes]
  /\ outstanding \in BOOLEAN /\ lcd \in BOOLEAN /\ synced \in BOOLEAN
  /\ screen \in Screens
  /\ wire \in Frames

FewDefects(b) == {d \in SUBSET Required(b) : Cardinality(d) <= MaxDefects}

Init ==
  /\ production \in BOOLEAN
  /\ \E h \in FewDefects("H743"), g \in FewDefects("G431") :
       /\ Cardinality(h) + Cardinality(g) <= MaxDefects
       /\ defects = [H743 |-> h, G431 |-> g]
  /\ at = [b \in Board |-> "boot"] /\ step = [b \in Board |-> 1]
  /\ gpio = [b \in Board |-> FALSE] /\ uart = [b \in Board |-> FALSE]
  /\ led = [b \in Board |-> "dark"] /\ phase = [b \in Board |-> "OFF"]
  /\ code = [b \in Board |-> 0] /\ cause = [b \in Board |-> 0]
  /\ outstanding = FALSE
  /\ lcd = FALSE /\ screen = Blank
  /\ synced = TRUE /\ wire = NoFrame

-----------------------------------------------------------------------------
(* board.c and st7735_h7.c: showing something.                             *)

\* A failed transfer leaves the old picture, part of the new one or all of it, lit
\* until the next power-on: the panel is not used again.
Draw(b, picture) ==
  \/ /\ b = "H743" /\ lcd
     /\ \/ screen' = picture /\ UNCHANGED lcd
        \/ lcd' = FALSE /\ screen' \in {screen, Mixed, picture}
  \/ /\ ~ (b = "H743" /\ lcd)
     /\ UNCHANGED display

\* A port without a clock takes no output.
SetLed(b, value) == led' = [led EXCEPT ![b] = IF gpio[b] THEN value ELSE @]

Own(ph, error) == [title |-> "SIMPLE PROVER", phase |-> ph, code |-> error]

\* Faulty: the error stays.
UiKeepsError(b, ph) ==
  /\ phase' = [phase EXCEPT ![b] = ph]
  /\ UNCHANGED code
  /\ SetLed(b, IF ph = "PASS" \/ (b = "G431" /\ ph = "REQUEST") THEN "lit" ELSE "dark")
  /\ Draw(b, Own(ph, 0))
\* board_ui
Ui(b, ph) ==
  /\ phase' = [phase EXCEPT ![b] = ph]
  /\ code' = [code EXCEPT ![b] = Error.NONE]
  /\ SetLed(b, IF ph = "PASS" \/ (b = "G431" /\ ph = "REQUEST") THEN "lit" ELSE "dark")
  /\ Draw(b, Own(ph, 0))

\* board_report_error
ReportError(b, error) ==
  /\ code' = [code EXCEPT ![b] = IF error # Error.NONE THEN error ELSE Error.INTERNAL]
  /\ phase' = [phase EXCEPT ![b] = "ERROR"]
  /\ SetLed(b, "dark")
  /\ Draw(b, Own("ERROR", code'[b]))

Blames(b, error) == cause' = [cause EXCEPT ![b] = error]
GoTo(b, point) == at' = [at EXCEPT ![b] = point]

-----------------------------------------------------------------------------
(* Boot.                                                                   *)

Check(b) == Checks(b)[step[b]]
Last(b) == step[b] = Len(Checks(b))

\* TIM2 and the LED come after the clocks, uart_ready after the UART.
CheckPasses(b) ==
  /\ at[b] = "boot" /\ Check(b) \notin defects[b] /\ ~ Last(b)
  /\ step' = [step EXCEPT ![b] = @ + 1]
  /\ gpio' = [gpio EXCEPT ![b] = @ \/ Check(b) = "CLOCK"]
  /\ uart' = [uart EXCEPT ![b] = @ \/ Check(b) = "UART_INIT"]
  /\ lcd' = (lcd \/ Check(b) = "LCD")
  /\ UNCHANGED <<built, at, led, phase, code, outstanding, screen, link, cause>>

LoadSucceeds(b) ==
  /\ at[b] = "boot" /\ Check(b) \notin defects[b] /\ Last(b)
  /\ GoTo(b, "loop")
  /\ Ui(b, "READY")
  /\ UNCHANGED <<built, step, gpio, uart, outstanding, link, cause>>

\* Faulty: the failure is reported, and READY shown over it.
CheckFailsReady(b) ==
  /\ at[b] = "boot" /\ Check(b) \in defects[b]
  /\ Ui(b, "READY")
  /\ Blames(b, Error[Check(b)])
  /\ GoTo(b, "fatal")
  /\ UNCHANGED <<built, step, gpio, uart, outstanding, link>>
CheckFails(b) ==
  /\ at[b] = "boot" /\ Check(b) \in defects[b]
  /\ ReportError(b, Error[Check(b)])
  /\ Blames(b, Error[Check(b)])
  /\ GoTo(b, "fatal")
  /\ UNCHANGED <<built, step, gpio, uart, outstanding, link>>

\* board_fatal, called with board_error_code.
Fatal(b) ==
  /\ at[b] = "fatal"
  /\ gpio' = [gpio EXCEPT ![b] = @ \/ b = "G431"]
  /\ code' = [code EXCEPT ![b] = IF @ # Error.NONE THEN @ ELSE Error.INTERNAL]
  /\ phase' = [phase EXCEPT ![b] = "ERROR"]
  /\ led' = [led EXCEPT ![b] = IF gpio'[b] THEN "flashing" ELSE @]
  /\ Draw(b, Own("ERROR", code'[b]))
  /\ GoTo(b, "halted")
  /\ UNCHANGED <<built, step, uart, outstanding, link, cause>>

\* The bytes that board_fatal sends again and again, as Cobs takes them.
Wire == INSTANCE Cobs WITH RequestLen <- 84, ReportLen <- 33
Diagnostic(error) == Wire!Decode(<<4, 3, 1, error>>)

Diagnose ==
  /\ at["G431"] = "halted" /\ uart["G431"]
  /\ wire' \in Diagnostic(code["G431"])
  /\ UNCHANGED <<built, at, step, gpio, uart, led, phase, code, outstanding, display,
                 synced, cause>>

\* Power-on again; the boards' defects stay.
Reset(b) ==
  /\ GoTo(b, "boot") /\ step' = [step EXCEPT ![b] = 1]
  /\ gpio' = [gpio EXCEPT ![b] = FALSE] /\ uart' = [uart EXCEPT ![b] = FALSE]
  /\ led' = [led EXCEPT ![b] = "dark"] /\ phase' = [phase EXCEPT ![b] = "OFF"]
  /\ code' = [code EXCEPT ![b] = 0] /\ cause' = [cause EXCEPT ![b] = 0]
  /\ IF b = "H743"
     THEN lcd' = FALSE /\ screen' = Blank /\ synced' = TRUE /\ UNCHANGED outstanding
     ELSE outstanding' = FALSE /\ UNCHANGED <<display, synced>>
  /\ UNCHANGED <<built, wire>>

-----------------------------------------------------------------------------
(* The loops of main, as far as they show anything.                        *)

Keeps == UNCHANGED <<built, step, gpio, uart>>
Looping(b) == at[b] = "loop"

\* A failure that main goes on from.
Complain(b, error) ==
  /\ ReportError(b, error) /\ GoTo(b, "loop")
  /\ UNCHANGED cause

\* A failure that main stops for.
Stop(b, error) ==
  /\ ReportError(b, error) /\ Blames(b, error)
  /\ GoTo(b, "fatal")

\* verifier_challenge
Ask ==
  /\ Looping("G431") /\ ~ outstanding
  /\ outstanding' = TRUE
  /\ Ui("G431", "REQUEST")
  /\ GoTo("G431", "sending")
  /\ Keeps /\ UNCHANGED <<link, cause>>

AskFails ==
  /\ Looping("G431") /\ ~ outstanding
  /\ \E error \in SaveErrors \cup {Error.CHALLENGE, Error.RNG} : Stop("G431", error)
  /\ Keeps /\ UNCHANGED <<outstanding, link>>

SendRequest ==
  /\ at["G431"] = "sending"
  /\ wire' = Request
  /\ GoTo("G431", "loop")
  /\ Keeps /\ UNCHANGED <<led, phase, code, outstanding, display, synced, cause>>

\* auth_frame_send fails, or says so: the challenge is cancelled.
SendRequestFails ==
  /\ at["G431"] = "sending"
  /\ wire' \in {wire, Request}
  /\ outstanding' = FALSE
  /\ Complain("G431", Error.UART_TX)
  /\ Keeps /\ UNCHANGED synced

SessionEnds ==
  /\ Looping("G431") /\ outstanding
  /\ outstanding' = FALSE
  /\ \/ wire.type = "response" /\ wire' = NoFrame
        /\ \E ph \in {"PASS", "MISMATCH"} : Ui("G431", ph)
     \/ UNCHANGED wire /\ Ui("G431", "TIMEOUT")
  /\ Keeps /\ UNCHANGED <<at, synced, cause>>

\* A frame of the wrong type, or noise.  The display of that makes a board with an
\* LCD miss the frames that follow, until a stray delimiter (see UartReceiver).
Noise(b) ==
  /\ Looping(b)
  /\ \/ /\ \E error \in {Error.UART_RX, Error.FRAME} : Complain(b, error)
        /\ synced' \in IF b = "H743" THEN BOOLEAN ELSE {synced}
     \/ Complain(b, Error.FRAME_TYPE) /\ UNCHANGED synced
  /\ Keeps /\ UNCHANGED <<outstanding, wire>>

\* A frame is lost.  One that a running H743 has no time to read may leave its receiver
\* with part of it, or discarding.
LoseFrame ==
  /\ wire # NoFrame
  /\ wire' = NoFrame
  /\ synced' \in IF at["H743"] \in {"loop", "fatal", "halted"} THEN {synced} ELSE BOOLEAN
  /\ UNCHANGED <<built, at, step, gpio, uart, led, phase, code, outstanding, display, cause>>

\* A receiver the display keeps busy at the start of every frame gets none.
Receives(type) ==
  /\ Looping("H743") /\ (synced \/ ~ lcd)
  /\ wire.type = type /\ wire' = NoFrame
  /\ UNCHANGED synced

\* prover_handle_request
TakeRequest ==
  /\ Receives("request")
  /\ Ui("H743", "REQUEST")
  /\ GoTo("H743", "handling")
  /\ Keeps /\ UNCHANGED <<outstanding, cause>>

RefuseRequest ==
  /\ at["H743"] = "handling"
  /\ \E error \in {Error.STALE_COUNTER, Error.REQUEST_AUTH} : Complain("H743", error)
  /\ Keeps /\ UNCHANGED <<outstanding, link>>

\* Faulty: the handler goes on to show the phase.
SaveFailsRejected ==
  /\ at["H743"] = "handling"
  /\ \E error \in SaveErrors : Blames("H743", error)
  /\ Ui("H743", "REJECTED")
  /\ GoTo("H743", "fatal")
  /\ Keeps /\ UNCHANGED <<outstanding, link>>
SaveFails ==
  /\ at["H743"] = "handling"
  /\ \E error \in SaveErrors : Stop("H743", error)
  /\ Keeps /\ UNCHANGED <<outstanding, link>>

AcceptRequest ==
  /\ at["H743"] = "handling"
  /\ Ui("H743", "MEASURING")
  /\ GoTo("H743", "measuring")
  /\ Keeps /\ UNCHANGED <<outstanding, link, cause>>

Measure ==
  /\ at["H743"] = "measuring"
  /\ \E ph \in {"PASS", "MISMATCH"} : Ui("H743", ph)
  /\ GoTo("H743", "answering")
  /\ Keeps /\ UNCHANGED <<outstanding, link, cause>>

MeasureFails ==
  /\ at["H743"] = "measuring"
  /\ \E error \in {Error.MEASUREMENT, Error.RESPONSE} : Complain("H743", error)
  /\ Keeps /\ UNCHANGED <<outstanding, link>>

Respond ==
  /\ at["H743"] = "answering"
  /\ wire' = Response
  /\ GoTo("H743", "loop")
  /\ Keeps /\ UNCHANGED <<led, phase, code, outstanding, display, synced, cause>>

\* auth_frame_send fails, or says so.
RespondFails ==
  /\ at["H743"] = "answering"
  /\ wire' \in {wire, Response}
  /\ Complain("H743", Error.UART_TX)
  /\ Keeps /\ UNCHANGED <<outstanding, synced>>

\* Faulty: the last code counts as none.
IsPeerErrorBelowLast(error) == error > Error.NONE /\ error < Error.FLASH_SEQUENCE
IsPeerError(error) == error > Error.NONE /\ error <= Error.FLASH_SEQUENCE

\* board_peer_error leaves board_error_code and the LED alone.
ShowPeerError ==
  /\ Receives("diagnostic")
  /\ LET error == wire.payload[1]
     IN \/ /\ IsPeerError(error)
           /\ phase' = [phase EXCEPT !["H743"] = "ERROR"]
           /\ Draw("H743", [title |-> "VERIFIER", phase |-> "ERROR", code |-> error])
           /\ UNCHANGED <<at, led, code, cause>>
        \/ ~ IsPeerError(error) /\ Complain("H743", Error.FRAME)
  /\ Keeps /\ UNCHANGED outstanding

Boot(b) == CheckPasses(b) \/ LoadSucceeds(b) \/ CheckFails(b) \/ Fatal(b)

Next ==
  \/ \E b \in Board : Boot(b) \/ Reset(b) \/ Noise(b)
  \/ Diagnose \/ LoseFrame
  \/ Ask \/ AskFails \/ SendRequest \/ SendRequestFails \/ SessionEnds
  \/ TakeRequest \/ RefuseRequest \/ SaveFails \/ AcceptRequest
  \/ Measure \/ MeasureFails \/ Respond \/ RespondFails
  \/ ShowPeerError

Spec == Init /\ [][Next]_vars

\* board_fatal repeats the diagnostic for ever, and not all of them are lost.
Fairness ==
  /\ \A b \in Board : WF_vars(Boot(b))
  /\ WF_vars(Diagnose) /\ SF_vars(ShowPeerError)
FairSpec == Spec /\ Fairness

-----------------------------------------------------------------------------
\* Only a board on which everything required is in order takes part in the
\* protocol: "Wrong flash geometry / missing production protection: boot refuses
\* to start protocol sessions" (docs/deployment.md).
DefectiveStaysOut ==
  \A b \in Board : at[b] \in Serving => defects[b] = {}

\* A board that stops keeps naming the failure it stopped for, not an earlier
\* complaint and not E19: board_error_code passes through two reports, and every
\* display of a phase clears it.  The G431 flashes; the H743 shows the code if its
\* LCD works.  After a transfer to the LCD has failed this promises nothing of the
\* panel, which keeps an older or a mixed picture.
StoppedNamesCause ==
  \A b \in Board : at[b] = "halted" =>
    /\ code[b] = cause[b] /\ cause[b] # Error.NONE
    /\ b = "H743" /\ lcd => screen = Own("ERROR", cause[b])
    /\ b = "G431" => led[b] = "flashing"

\* What the LCD says of the H743 is its state: a later phase replaces an error
\* ("a later valid request replaces the error", docs/troubleshooting.md), and an
\* error of the peer is not shown as the H743's own.  It promises this only until a
\* transfer fails: the picture that then stays lit may be of any earlier state.
ScreenAgrees ==
  lcd => CASE screen.title = "SIMPLE PROVER" ->
                screen.phase = phase["H743"] /\ screen.code = code["H743"]
           [] screen.title = "VERIFIER" -> phase["H743"] = "ERROR"
           [] OTHER -> at["H743"] = "boot"

-----------------------------------------------------------------------------
(* The inductive invariant.                                                *)

\* A board has passed every check before the one it is at.
PassedSoFar ==
  \A b \in Board : at[b] = "boot" =>
    \A k \in 1 .. step[b] - 1 : Checks(b)[k] \notin defects[b]

\* From the report of the failure to board_fatal nothing forgets it.
FatalKnowsCause ==
  \A b \in Board : at[b] = "fatal" => code[b] = cause[b] /\ cause[b] # Error.NONE

\* Nothing is drawn before all is in order or a check has failed.
BlankAtBoot == at["H743"] = "boot" => screen = Blank

\* Every state of the boards, reset or stopped in whatever moment, keeps these
\* together: what a board has passed, what it stopped for, what the LCD shows.
IInv ==
  /\ TypeOK
  /\ PassedSoFar /\ DefectiveStaysOut
  /\ FatalKnowsCause /\ StoppedNamesCause
  /\ BlankAtBoot /\ ScreenAgrees

-----------------------------------------------------------------------------
(* What a stopped board lets its user see.                                 *)

\* "When USART2 initialized before the failure, the G431 also repeats a diagnostic
\* frame. The H743 displays VERIFIER and the exact code" (docs/troubleshooting.md),
\* if the H743 runs, its LCD works and its receiver is in sync.
Telling == at["G431"] = "halted" /\ uart["G431"]
Listening == at["H743"] = "loop" /\ lcd /\ synced
PeerErrorShown ==
  Telling /\ Listening
    ~> \/ screen.title = "VERIFIER" /\ screen.code = code["G431"]
       \/ ~ Telling \/ ~ Listening

\* docs/deployment.md: "a fatal boot error displays ERROR if the LCD is usable and
\* flashes the user LED."
FatalFlashes == \A b \in Board : at[b] = "halted" => led[b] = "flashing"
=============================================================================
