# Formal models of the SIMPLE attestation firmware

The repository implements remote attestation between two microcontroller
boards joined by a UART. A *verifier* (STM32G431) sends an authenticated
challenge with a counter and a nonce; a *prover* (STM32H743 with an LCD)
measures its own flash image and answers whether it is the approved one. Both
boards keep the challenge counter in a journal in flash.

This directory holds TLA+ models of that system, TLC configurations that check
them on small instances, and proofs checked by TLAPS. Paths below are relative
to the repository's `src/`.

## Inventory

| Component | State | Operations | Talks to |
|---|---|---|---|
| Counter journal, `core/platform/src/auth_journal.c` | two flash blocks of 32-byte records; in RAM `counter`, `active`, `next`, `ready` | `auth_journal_load`, `auth_journal_save` | flash callbacks |
| Flash backend, `drivers/stm32/store.c` | flash, `store_error`, provisioning record | read, program, erase, `board_store_load`, `board_store_save`, `protection_valid` | journal, HAL |
| Verifier, `apps/verifier` | `outstanding`, `nonce`, `started_ms`, `material.counter`, `ready` | `init_verifier`, `verifier_challenge`, `verifier_poll`, `verify`, `verifier_cancel` | platform callbacks |
| Prover, `apps/prover` | `material.counter`, `ready` | `prover_init`, `prover_handle_request` | platform callbacks |
| Main loop, `instances/stm32/main.c` | `receiver`, `last_session` | the polling loop of either role | all of the above |
| Framing, `core/transport` | `encoded`, `used`, `started_ms`, `discard` | `auth_frame_encode`, `auth_frame_feed`, `auth_frame_send` | link callbacks |
| Messages, `core/protocol` | none | serialise, parse, authenticated input of a report | prover, verifier |
| Board, `drivers/stm32/board.c` | UART, timer, LED, `board_phase`, `board_error_code` | `board_init`, `link_read`, `link_write`, `board_ui`, `board_report_error`, `board_fatal` | HAL, LCD |
| LCD, `drivers/components/st7735_h7.c` | the panel | redraw, which blocks the loop | SPI |
| Measurement and crypto, `core/utils` | none | HMAC, SHA-256, image digest | TinyCrypt |
| Tools, `tools/`, `deploy.sh` | files, a board's flash | provision, fetch, flash four segments | dfu-util |

Everything on a board runs in one loop; nothing is interrupt-driven. What is
hard is therefore not threads but

* power loss and resets at any point, above all inside a flash erase or program;
* calls that fail after having had their effect (a save, a send);
* payloads lost, late or repeated, and timeouts that race with late answers;
* two counters, on two boards, that must stay in step through all of this;
* a UART that holds one byte, polled by a loop that also draws.

`PROJECT.json` lists these hazards at the lines where they bite.

## Modules

| Module | Models |
|---|---|
| `CounterStore` | abstract: what `load` and `save_counter` of `auth_platform_t` promise |
| `JournalFormat` | the contents of the journal and which of them load, and where |
| `Journal` | `auth_journal.c` over the flash of `store.c`, step by step, with flash faults and power loss |
| `JournalScan` | the loop of `auth_journal_load`, one slot a step |
| `AttestationSession` | abstract: what one attestation session promises |
| `Attestation` | verifier, prover, link, two `CounterStore`s, faults on all of them |
| `UartReceiver` | `link_read`, `auth_frame_feed` and the display, at the pace of the UART |
| `SessionTiming` | abstract: when the verifier may do what, by a clock that never wraps |
| `VerifierLoop` | the verifier's main loop over its wrapping millisecond timer |
| `Cobs` | the frame format: what the encoder writes, and what the decoder takes |
| `FrameStream` | abstract: which stretches of a byte stream are frames |
| `FrameReceiver` | `auth_frame_feed` byte by byte, on any bytes at any time |
| `FlashAccess` | one counter save at the grain of `store.c`'s calls: masks, MPU window, lock, timeouts, error codes |
| `Boards` | both boards from power-on: checks, fatal stops, LED, LCD, diagnostic frames |
| `Journal_proofs`, `JournalScan_proofs`, `Attestation_proofs`, `UartReceiver_proofs`, `VerifierLoop_proofs`, `FrameReceiver_proofs`, `FlashAccess_proofs`, `Boards_proofs` | theorems about these modules; those about `Cobs` are in `FrameReceiver_proofs` |
| `MC...` | the instances TLC checks |

`Journal` implements `CounterStore` (the property
`ImplementsCounterStore`, with the largest record in flash as the durable
counter). `Attestation` is built on two instances of `CounterStore`, so it
needs nothing of the journal but that contract, and it implements
`AttestationSession`. `VerifierLoop` implements `SessionTiming`, and `FrameReceiver`
implements `FrameStream`. All four refinements are checked and proved.

The modules look at one program at different grains. Each names what it leaves to
which other: `Attestation` has counters, nonces and payloads but only a coarse clock;
`VerifierLoop` has the clock and none of these. `Journal` has what a save leaves in
flash; `FlashAccess` has what the save does to the rest of the board. `UartReceiver`
has the pace of the line with frames as numbers; `FrameReceiver` has real bytes and no
pace. `Boards` has what a board checks, shows and reports.

An operator whose comment begins "Faulty:" is no part of a model. It is a wrong
version of the operator that follows it, a bug the code could plausibly have had;
put in that operator's place, it makes the property it is kept for fail.

### Journal

A flash block is a row of slots. A slot is a number (a record with that counter,
complement and MAC right), `Erased`, `Blank` (reads 0xFF but is not physically
erased: the state behind error E27) or `Torn` (anything else). A save is
`SaveStart` (guards, choice of block), `EraseDone`/`EraseFails`,
`ProgramDone`/`ProgramFails`, `Commit`/`ReadBackFails`. A write the flash reports
as done may be torn; the driver's `memcmp` and the journal's own comparison are one
read-back. An erase that does not complete leaves every slot of its block as it
was, erased, blank or torn, independently; a program that does not complete leaves
its slot as it was, blank, torn, or written after all. Power may fail in every
state. The flash programs only physically erased slots, as `README.md` and
`docs/troubleshooting.md` say of E27.

`counter` keeps its value while the power is off. The code has no such memory;
the model uses it to say what the board was last told, and `Load` overwrites it.
Guards of the functions against null arguments and bad geometry are left out:
the callers pass constants. A save with a counter that is not larger is not an
action: both callers check first, and it would change nothing.

### Attestation

Each board has its position in the main loop (`vAt`, `pAt`). A handler is split
where a reset or a failure can come between two effects: a challenge is
`Challenge`, `ChallengeSettles` (the counter is durable), `ChallengeSaved` (the
challenge is outstanding), `SendRequest`; a request is `Accept`, `AcceptSettles`,
`AcceptSaved`, `Measure`, `SendResponse`. Each has its failures. The link is the
sets `reqs` and `resps` of payloads sent, which never shrink: a payload may arrive
late, twice or out of order, and one lost on the way is one never added. HMAC is
ideal; noise and forged payloads change nothing but what is displayed and, at the prover,
what its receiver holds (`VerifierRxError`, `ProverRxError`). `measured` is a history
variable. Nonces may repeat, so that nothing rests on the random generator.

`synced` is what is left of `UartReceiver` here: FALSE while the prover's receiver
discards or holds part of a frame, the state from which finding 2 starts. A frame that is
damaged, cut short, or sent to a prover that is booting or busy, and noise, may leave it so
(`Disturb`); a reset, or a frame that gets through, ends it. A request may be lost even when
faults have stopped, if `synced` is FALSE or the prover is not in its main loop
(`LoseRequest`), and its arrival is fair only while `synced` is TRUE. How long the interval
between sessions is, is left open as long as faults go on; once they have stopped it is
longer than an exchange (`IntervalPasses`).

### UartReceiver

A byte is named by its place in its frame (1 is the leading delimiter). The loop is
taken to be much faster than a byte time except while it displays something, which
takes `draw` byte times: 0 on the board without an LCD, more than a frame on the
other. At 8 MHz SPI the fill alone is 80 rows of 320 bytes, over 25 ms; a frame of
89 bytes at 115200 baud is under 8 ms (assumption `DisplayAssumption`). Frames are
seconds apart, which is longer than the 250 ms frame deadline and than any drawing.
A frame decodes when its bytes are buffered whole; the COBS code is abstracted.

### VerifierLoop and SessionTiming

A turn of the loop is cut where the code reads the timer, at `auth_expired` in
`verifier_poll`, in main's interval test, twice in `verify`, and where `last_session` is
set; `Tick` may come between any two of them. `MaxTurn` bounds a whole turn, since a timer
that wraps cannot tell a turn of 49 days from none (docs/protocol.md assumes as much).
The refinement mapping reads `since` and `age` off the wrapped differences, so
`KeepsTime` says that they never go back, jump, or come out wrong: a challenge
expires at its deadline and not before, no verdict follows a deadline, the interval is
kept. `Slack` is two turns: one for the turn that just missed the moment, one for the
turn that notices it. `Boot` shows the trap at start: `last_session` lies before the
timer's zero.

### Cobs, FrameStream and FrameReceiver

`Encode` is defined by places (each zero becomes the distance to the next one), `Decode`
follows the decoder from code to code; the two are independent of each other, and
`FrameStream` uses only `Encode`. `DeliversFrames` therefore says that the decoder takes
exactly the encoder's output: that it rejects every other sequence of bytes is the larger
part of it. The alphabet holds every byte that can be a type, a length or a code in the
instance. A code of 255, a block that has no zero to its right, cannot occur in a buffer of
88 bytes (`LengthAssumption`). Not left out but assumed: a partial frame is not left for a
whole cycle of the timer (the guard of `Tick`).

### FlashAccess

`Open` ... `Close` is what lies between the two calls of `board_flash_access` in
`journal_program` and `journal_erase`. The vendor library is external: it waits for the
flash with a timeout by `HAL_GetTick`, it returns with or without error flags, or never.
`uwTick` is the SysTick count that `HAL_GetTick` would read by default and that stands
still while interrupts are masked; `GetTickBySysTick`, in place of `GetTick`, makes
`SavesEnd` fail. `failure` is a history variable: the step that failed first, with the
flags it left. `FailureNamed` compares it with the code the board stops with.

### Boards

`Checks(b)` is the order of tests in `board_init`, `protection_valid` and
`board_store_load` for each board and build; a check that fails has the name of its error
code. `Required(b)` is what the documents demand, written down independently. On the G431's
bank mode the documents disagree: the row of E21 in `docs/troubleshooting.md` speaks of "the
required G4 dual-bank mode", `docs/deployment.md:28` says that no dual-bank setting is used.
`protection_valid` asks nothing of it, and `Required` follows that.

`ReportError` and `Ui` are `board_report_error` and `board_ui` with their effects on
`board_error_code`, LED and LCD; any drawing may fail, after which the panel is not used
again: it stays lit with the old picture, part of the new one or all of it (`Mixed`), until
the next power-on. `ScreenAgrees` and `StoppedNamesCause` speak of the panel only while
`lcd_ready` is set; what stays on it afterwards no document speaks of, and no property. A
handler is split at each display: a request is `TakeRequest`, then `AcceptRequest`,
`RefuseRequest` or `SaveFails`, then `Measure` or `MeasureFails`, then `Respond` or
`RespondFails`. The paths of E11, of E09 for a request and of the phase REJECTED have no
action: `auth_frame_feed` delivers no request of another length, `simple_parse_msg` refuses
nothing else, and the phase is not shown when there is an error. A GPIO output needs a
clocked port (`gpio`). The link is one frame, which may be lost. `synced` is as in
`Attestation`; `PeerErrorShown` asks for a receiver in sync. `cause` is a history variable.
`Diagnostic` decodes the bytes that `board_fatal` writes by hand with `Cobs`, at the real
payload lengths.

## Runs

| Run | Checks | Shows |
|---|---|---|
| `journal` | `TypeOK`, `ProgramsOnlyErasedSlots`, `NewestKept`, `ResetFindsRam`, `NoRollback`, `ImplementsCounterStore`, `IInv` | no failure or power loss takes a reported counter back, and the journal keeps the contract the protocol is built on |
| `journal_scan` | `AcceptsExactlyLoadable`, `EndsAtNewest`, `IInv` | the loop of `auth_journal_load` computes what `Journal.Load` does in one step |
| `attestation` | `ProverNeverAhead`, `MeasuredIsCommitted`, `RequestsAdvance`, `MeasurementsAdvance`, `ImplementsSession`, `IInv` | counters are never reused and stay in step; a verdict is the result of the only measurement made for that challenge while it was open |
| `attestation_live` | `ChallengesEnd`, `VerdictWhenCalm` | a challenge ends; once faults stop, a prover that listens and a verifier that runs reach a verdict by themselves |
| `attestation_led` | `LedOffWhilePending` | violated: finding 1 |
| `uart` | `HeardWithoutDisplay`, `HeardInSync`, `IInv` | recovery at the next frame without a display, and no loss in sync with one |
| `uart_lcd` | `RecoversOnceCalm` | violated: finding 2 |
| `verifier_loop` | `KeepsTime`, `IInv`, `SessionsGoOn` | deadline and interval are right on a timer that wraps within two sessions and is read at different moments; noise cannot put off the next session |
| `framing` | `DeliversFrames` | every stream of bytes, errors and delays yields exactly the frames that were encoded |
| `flash_access` | `MaskedExactly`, `WritableOnlyInside`, `FailureNamed`, `IInv`, `SavesEnd` | on every path of a save the masks, the MPU window and the lock are restored, the reported code is that of the first failure, and a hung flash or LCD does not hold the board |
| `boards` | `DefectiveStaysOut`, `StoppedNamesCause`, `ScreenAgrees`, `IInv`, `PeerErrorShown` | the boards fail closed, keep naming what they stopped for, and the H743 comes to show the G431's code |
| `boards_led` | `FatalFlashes` | violated: finding 3 |

### Bounds

* `journal`: three slots a block and counters to 9. Both blocks fill, each is
  erased and refilled, with every fault at every slot. Counters may skip, as a prover's
  do. Two slots or fewer leave no slot that is neither first nor last.
* `journal_scan`: all contents of two blocks of three slots with three counters, one
  of them below the seed: every order, tie and gap.
* `attestation`: counters 1 to 4 (three challenges, then exhaustion), two nonces, a
  timeout of two ticks. Two challenges suffice for a late answer to meet the
  next challenge; the third follows a recovery.
* `attestation_live`: counters to 3, one nonce, timeout of one tick.
* `uart`: four data bytes, a buffer of five (the code's is one more than its longest
  frame's data, too), a display of eight byte times. Only that the display outlasts a
  frame matters.

* `verifier_loop`: a timer of 16 values, an interval of 7, a timeout of 4, turns of up to 3
  ms. The timer wraps within two sessions, at every point of the loop.
* `framing`: requests of two bytes, the other frames of one, a buffer of six, bytes 0 to 5, a
  timer of three values. All codes, with every block length the buffer allows,
  truncated and overlong runs included. The timer wraps within a frame.
* `flash_access`: every set of error flags at every step, both operations, timers of five
  values.
* `boards`: at most two failing checks on both boards together (each check alone, and every
  pair on one or on two boards), saves failing with the last code of all, which is the boundary
  `main.c` tests.

`CounterMax` is the code's `UINT32_MAX`, not a cap on the model: the code itself
stops there (`ChallengeRefused`).

### Fairness

`Attestation!Fairness` asks for weak fairness of the steps the two main loops
take by themselves, of booting, of time, and of the arrival of payloads the link did
not lose. No fault is fair. `calm` marks that faults have stopped; until then
every call may fail and every payload may be lost. Once calm, `Tick` waits for an
exchange under way: the deadline is 5 s and an exchange takes a fraction of that
(protocol.md: it includes "transmission, H7 UI/processing, and response
reception"), and the verifier's next challenge waits, too: the interval is 60 s. Only the
first challenge after a boot may come while the prover is busy, and get lost.

`VerdictWhenCalm` is about a prover that listens (`Listening`: it is in its main loop, in
step with the line, and no earlier request is on its way to it). Of a prover whose receiver
faults left behind the line nothing is promised: by finding 2 it may miss every request
until a reset, and `Attestation` has that behaviour. The property also excludes a verifier
stopped in `board_fatal`, which only a reset leaves, and a counter that is used up.

`UartReceiver!Fairness` asks that the peer keeps sending, that the bytes of a frame
follow each other, and that the loop turns.

`VerifierLoop!FairSpec`: the loop turns and the timer runs. `FlashAccess!FairSpec`: the
program goes on by itself (`Run`), which includes giving up after the timeout, and the
timer runs; that the flash or the LCD gets done is not fair. `Boards!Fairness`: the boards
boot and stop by themselves, a stopped G431 repeats its diagnostic (weak), and not all the
diagnostics are lost (strong fairness of `ShowPeerError`: `board_fatal` sends them for ever,
and the line loses some).

## Findings

1. *LED.* `docs/deployment.md:127-129` says that a pending challenge leaves the
   verifier's LED off. `board_ui` (`drivers/stm32/board.c:249`) lights it for
   `AUTH_UI_REQUEST`, as `docs/troubleshooting.md:34-36` describes ("The G431 status LED turns on
   while a challenge is outstanding"): the two documents contradict each other, and the code
   follows the second.
2. *Receiver livelock with the LCD.* `docs/protocol.md:58-59`,
   `docs/deployment.md:152` and the comment at `auth_transport.c:98` say that
   reception recovers at the next delimiter. On the H743 it does not. If the receiver
   is discarding or holds a partial frame, the next frame's leading delimiter is
   reported as `AUTH_ERROR_FRAME` (`main.c:57-59`); the report redraws the LCD, the
   rest of the frame overruns the receive register, and the overrun error sets
   `discard` again (`main.c:48-51`). The following frame finds the same
   state. The counterexample is a cycle over a faultless line; only a reset ends it. The
   verifier times out each session meanwhile, which is why `VerdictWhenCalm` needs a prover in
   step with the line.
3. *No sign of life.* `docs/deployment.md:119-121` says that a fatal boot error of
   the H743 "displays `ERROR` if the LCD is usable and flashes the user LED". If
   `clock_init` fails, the LED's port has no clock yet: `board_init` sets it up later
   (and `board_fatal` does so only on the board without an LCD, `board.c:285-292`). The
   toggling at `board.c:296` has no effect, and the LCD is not initialised either.

## Proofs

Every invariant and every refinement that a run checks is also a theorem, for every value of
the constants; what is left to TLC alone is liveness. Each proof module proves an inductive
invariant `IInv` (`IInvHolds`), which a run checks as well, and its properties from it; in
`FrameReceiver` the types are already inductive and stand in for it. The constants are
restricted by the assumptions of the models and by nothing else.

### Journal_proofs

For blocks of any size, any `CounterMax` and any seed, from the assumptions in
`JournalFormat` (at least one slot; the seed is a counter; the three other contents are
distinct and not numbers): `TypeCorrect`, `ProgramsOnlyErased`, `NewestIsKept`,
`ResetRecovers`, the action property `CounterNeverRollsBack`, and
`CounterStoreImplemented`.

That a slot about to be programmed reads erased follows from where the RAM says the
journal ends, so the RAM must be known to match the flash, and that must survive a save.
`IInv` says that until the save commits, flash still is what the load would accept and
would end at the RAM's counter, with the slot being written taken as erased
(`FlashMatches`); that the target is either the next slot of the active block or the first
of the other one (`TargetChosen`); and that it and all slots behind it are free
(`TargetFree`).

The argument goes by operators first: in an accepted block records come first and
increase (`RecordsComeFirst`), so behind the newest record the block is free
(`FreeBehindNewest`); a matching flash still matches with the other block erased
(`MatchesWithOtherErased`); a larger record appended to the records of a block gives a
loadable journal that ends there (`Appended`). Then there is one lemma for each step, and
`StepHolds` collects them.

`CounterStoreImplemented` shows that each step is a step of `CounterStore` or a stutter when
the largest record in flash is taken for the durable counter. While the RAM matches, that
record is the RAM's counter (`NewestIsDurable`); while a record is being written it is that
counter or the new one (`DurableAfterWrite`), so whether the save has taken effect is decided
by the program and not by the call's result. Erasing takes nothing away, since the newest
record is in the other block (`HalfErasedDurable`).

### Attestation_proofs

For any counters, nonces, timeout and images, and any number of payloads on the link, from
`CounterAssumption`, `TimeoutAssumption` and `ImageAssumption`:
`TypeCorrect`, `ProverIsNeverAhead`, `MeasuredOnlyCommitted`, `RequestsKeepAdvancing`,
`MeasurementsKeepAdvancing` and `SessionImplemented`.

`IInv` lines up everything that has a counter. Where a board stands in its loop determines
its store and the payload in hand (`VerifierStands`, `ProverStands`); the request about to be
sent is newer than all that were (`RequestsBehind`); the measurement about to be made is newer
than all that were, each was asked for, and no two have the same counter
(`MeasurementsBehind`). The last part is what a late or repeated report cannot get round.
Verifier and prover share only the link, so what the one's steps leave of the other's part is
settled once (`ProverPartKept`, `VerifierPartKept`).

`SessionImplemented` maps the measurements with the open challenge's counter to the session's
one measurement. A report that answers the challenge has been measured, and by `IInv` it is
the only one with that counter, hence the session's. A challenge saved has a counter above
all measured, so a session begins with none.

The counter stores here are `CounterStore`; `CounterStoreImplemented` is what lets the journal
stand for them.

### FlashAccess_proofs

For any width of the timers and any wait limit: `TypeCorrect`, `MasksRestored`,
`FlashClosedAgain` and `FirstFailureNamed`. `IInv` adds to the properties what the nesting of
the two atomic sections rests on (`MasksNest`: which mask each board saved) and what
`store_error` holds between the first failure and the stop (`ErrorFollows`).

### JournalScan_proofs

For blocks of any size and any contents: `TypeCorrect`, `AcceptsLoadable` and `StopsAtNewest`.
`IInv` says of every local of the loop what it stands for after the slots scanned so far: that
no record was out of order, where the block ends, and which record is the newest, the first
block winning a tie. At the end of the second block this is `Loadable` and the place that
`Journal!Load` jumps to in one step, which is why the loop may stay one step there.

### UartReceiver_proofs

For frames and buffers of any length and any time the display takes, from `FrameAssumption`,
`DisplayAssumption` and `StrayAssumption`: `TypeCorrect` (the buffer never overflows),
`RecoversWithoutDisplay` and `StaysInSync`. Neither property looks further than the end of
one frame, but what makes it true lies at its start: `IInv` says that once a frame has to be
heard, what is buffered is as much of it as the loop has read (`Follows`), and that no error
is flagged and nothing is being drawn (`Undisturbed`). In finding 2 that is just what the
frame's first byte brings about.

### VerifierLoop_proofs

For any width of the timer, interval, timeout and length of a turn such that two turns more
than either fit into the timer (`TimingAssumption`; `Lead`, by which the first session is early,
is more than 0): `IInvHolds` and `TimeKept`, the whole refinement of `SessionTiming`. A
difference of two readings is the time between them only as long as the timer has not wrapped
on it. `IInv` says that it has not: each of the two times is looked at once in a turn, so at
each point of the loop it is at most its limit and the part of two turns that has passed
(`NoWrap`); and where the loop stands tells whether a challenge is outstanding
(`StandsWithChallenge`). Then a tick adds one to either time (`TickCounts`), and every step of
the loop is a step of the schedule or none (`StepImplements`).

### FrameReceiver_proofs

For frames of any lengths, bytes of any values and a timer of any width, from
`LengthAssumption`, `ByteAssumption` and `TimeoutAssumption`: `DecodesEncoded`,
`EncodesToBytes`, `TypeCorrect` and `FramesDelivered`, the whole refinement of `FrameStream`.

`DecodesEncoded` is that the decoder takes exactly what the encoder writes. The decoder is a
recursion from code to code, the encoder a description place by place. `Stuffed` describes
place by place which raw bytes lie behind the encoded ones from a given place on. The function
that gives each place its raw bytes so described solves the decoder's recursion
(`SolutionSolves`: the last block stands for itself, `LastBlock`; every other is followed by a
zero and the rest, `InnerBlock`), and it is the only one that does (`OneSolution`, by the
greatest place at which two solutions differ). So the recursion has a value on every sequence
of non-zero bytes, and `Unstuff` is that description. Distances to the next zero exist and are
unique (`DistanceIs`), so the encoder is that description, too (`StuffIs`). What remains is the
type and the length.

`EncodesToBytes` is the other half: no encoded byte is a zero or above 255, and a frame with
its delimiter fits the buffer. `FramesDelivered` needs both sides of `DecodesEncoded`, and that
a tick adds one to the age of a partial frame that is not left for a cycle of the timer
(`Later`).

### Boards_proofs

For any failing checks and any codes of a failing save: `OnlySoundTakePart`, `StopsForCause`
and `ScreenTrue`. That a board takes part only when all it requires is in order needs that the
checks are, in some order, just the ones required: the two are written down independently and
compared as sets (`Elements`). `IInv` adds that a board has passed all checks before the one it
is at, that from the report of a failure to the stop nothing forgets its code, and that
nothing is drawn before a board is through or has failed (`BlankAtBoot`). Most steps of main
show a phase or an error and go on, show an error and stop, or only go on; each kind is settled
once (`GoesOn`, `Stops`, `MovesOn`), and so is what a display leaves on the screen while the
LCD works (`ShownSets`). Like the properties, the theorems promise nothing of the panel after
a transfer to it has failed. The
diagnostic that `board_fatal` writes by hand decodes to itself (`DiagnosticUnstuffed`).

### Only model-checked

Liveness: `ChallengesEnd` and `VerdictWhenCalm`, `SessionsGoOn`, `SavesEnd`, `PeerErrorShown`.
Fairness and ENABLED are out of the prover's reach and stay with TLC.

## Not modelled

* Cryptography: HMAC and SHA-256 are ideal, and the measurement is the image's identity.
* Byte layouts of payloads, constant-time comparison, wiping of secrets.
* A MAC that cannot be computed inside a save (`auth_journal.c:82-83`), since HMAC is ideal: the
  save would fail with E14 before it touches the slot.
* The LCD's pixels, fonts and panel commands; clock and pin setup beyond its success or
  failure and, in `Boards`, the LED's port.
* The regions of the MPU other than the journals', and the fault handlers, which stop the
  processor.
* `board_last_elapsed_ms` and the counter on the LCD, which nothing reads.
* `deploy.sh`: it calls the programmer in sequence and keeps no state. The mixtures of old and
  new segments it may leave are contents that `JournalScan` and `Boards` refuse.
* The dependency fetcher, build files, linker scripts, and what `tools/provision.py`
  writes other than the seed of the journals.

`PROJECT.json` gives the reason for each component.

## Plan

1. *Done*: the journal and its contract, the attestation protocol over it, the receiver at the
   pace of the line, the verifier's loop over its timer, framing, the save's calls, the
   boards at start and when stopped.
2. *Done*: every invariant, action property and refinement that a run checks, as a theorem.
3. Next: what ties the modules to each other. `JournalScan` ends where `Journal!Load` jumps to;
   `UartReceiver` and `FrameReceiver` agree on when a frame is lost; the diagnostic of
   `Boards` as a frame in the sense of `FrameReceiver`. And the safety half of the liveness
   properties: that a challenge outstanding always has a deadline to end it.
