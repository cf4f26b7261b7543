--------------------------- MODULE Boards_proofs ---------------------------
(***************************************************************************)
(* Theorems about the two boards, for any number of failing checks and any *)
(* codes of a failing save.                                                *)
(*                                                                         *)
(* IInv is inductive (IInvHolds).  Most steps of main show a phase or an   *)
(* error and go on (GoesOn), show an error and stop (Stops), or only go on *)
(* (MovesOn); what every display does to the screen is settled once        *)
(* (ShownSets).                                                            *)
(***************************************************************************)
EXTENDS Boards, SequenceTheorems, TLAPS

-----------------------------------------------------------------------------
(* The checks of a board are the ones it requires, in some order.          *)

\* The checks there are.
Names == {"CLOCK", "LCD", "UART_INIT", "RNG", "FLASH_SIZE", "BANK_MAPPING", "RDP", "CODE_WRP",
          "KEY_WRP", "PROVISIONING", "JOURNAL"}

Elements(s) == {s[i] : i \in 1 .. Len(s)}

LEMMA Concatenated ==
  ASSUME NEW S, NEW s \in Seq(S), NEW t \in Seq(S)
  PROVE  /\ s \o t \in Seq(S) /\ Len(s \o t) = Len(s) + Len(t)
         /\ Elements(s \o t) = Elements(s) \cup Elements(t)
<1>1. s \o t \in Seq(S) /\ Len(s \o t) = Len(s) + Len(t)
  BY ConcatProperties
<1>2. Range(s \o t) = Range(s) \cup Range(t)
  BY RangeConcatenation
<1> QED BY <1>1, <1>2, RangeEquality DEF Elements

LEMMA None == ASSUME NEW S PROVE <<>> \in Seq(S) /\ Len(<<>>) = 0 /\ Elements(<<>>) = {}
BY DEF Elements

LEMMA One ==
  ASSUME NEW S, NEW x \in S
  PROVE  <<x>> \in Seq(S) /\ Len(<<x>>) = 1 /\ Elements(<<x>>) = {x}
<1> DEFINE s == <<x>>
<1>1. s \in Seq(S)
  OBVIOUS
<1>2. Len(s) = 1 /\ s[1] = x
  OBVIOUS
<1>3. 1 .. 1 = {1}
  OBVIOUS
<1> HIDE DEF s
<1>4. Elements(s) = {x}
  BY <1>2, <1>3 DEF Elements
<1> QED BY <1>1, <1>2, <1>4 DEF s

LEMMA Two ==
  ASSUME NEW S, NEW x \in S, NEW y \in S
  PROVE  <<x, y>> \in Seq(S) /\ Len(<<x, y>>) = 2 /\ Elements(<<x, y>>) = {x, y}
<1> DEFINE s == <<x, y>>
<1>1. s \in Seq(S)
  OBVIOUS
<1>2. Len(s) = 2 /\ s[1] = x /\ s[2] = y
  OBVIOUS
<1>3. 1 .. 2 = {1, 2}
  OBVIOUS
<1> HIDE DEF s
<1>4. Elements(s) = {x, y}
  BY <1>2, <1>3 DEF Elements
<1> QED BY <1>1, <1>2, <1>4 DEF s

LEMMA Three ==
  ASSUME NEW S, NEW x \in S, NEW y \in S, NEW z \in S
  PROVE  <<x, y, z>> \in Seq(S) /\ Len(<<x, y, z>>) = 3 /\ Elements(<<x, y, z>>) = {x, y, z}
<1> DEFINE s == <<x, y, z>>
<1>1. s \in Seq(S)
  OBVIOUS
<1>2. Len(s) = 3 /\ s[1] = x /\ s[2] = y /\ s[3] = z
  OBVIOUS
<1>3. 1 .. 3 = {1, 2, 3}
  OBVIOUS
<1> HIDE DEF s
<1>4. Elements(s) = {x, y, z}
  BY <1>2, <1>3 DEF Elements
<1> QED BY <1>1, <1>2, <1>4 DEF s

LEMMA ChecksAreRequired ==
  ASSUME NEW b \in Board
  PROVE  /\ Checks(b) \in Seq(Names) /\ Len(Checks(b)) \in Nat /\ 1 <= Len(Checks(b))
         /\ Elements(Checks(b)) = Required(b)
<1> DEFINE clock == ClockChecks
           lcdInit == LcdChecks(b)
           busInit == <<"UART_INIT", "RNG">>
           geometry == GeometryChecks(b)
           protection == ProtectionChecks
           store == StoreChecks
<1>1. clock \in Seq(Names) /\ Len(clock) = 1 /\ Elements(clock) = {"CLOCK"}
  BY One, "CLOCK" \in Names DEF ClockChecks, Names
<1>2. /\ lcdInit \in Seq(Names) /\ Len(lcdInit) \in Nat
      /\ Elements(lcdInit) = IF b = "H743" THEN {"LCD"} ELSE {}
  <2>1. <<"LCD">> \in Seq(Names) /\ Len(<<"LCD">>) = 1 /\ Elements(<<"LCD">>) = {"LCD"}
    BY One DEF Names
  <2> QED BY <2>1, None DEF LcdChecks
<1>3. busInit \in Seq(Names) /\ Len(busInit) = 2 /\ Elements(busInit) = {"UART_INIT", "RNG"}
  BY Two DEF Names
<1>4. /\ geometry \in Seq(Names) /\ Len(geometry) \in Nat
      /\ Elements(geometry) = {"FLASH_SIZE"} \cup (IF b = "H743" THEN {"BANK_MAPPING"} ELSE {})
  <2>1. CASE b = "H743"
    <3>1. /\ <<"FLASH_SIZE", "BANK_MAPPING">> \in Seq(Names)
          /\ Len(<<"FLASH_SIZE", "BANK_MAPPING">>) = 2
          /\ Elements(<<"FLASH_SIZE", "BANK_MAPPING">>) = {"FLASH_SIZE", "BANK_MAPPING"}
      BY Two DEF Names
    <3> QED BY <2>1, <3>1 DEF GeometryChecks
  <2>2. CASE b # "H743"
    <3>1. /\ <<"FLASH_SIZE">> \in Seq(Names) /\ Len(<<"FLASH_SIZE">>) = 1
          /\ Elements(<<"FLASH_SIZE">>) = {"FLASH_SIZE"}
      BY One DEF Names
    <3> QED BY <2>2, <3>1 DEF GeometryChecks
  <2> QED BY <2>1, <2>2
<1>5. /\ protection \in Seq(Names) /\ Len(protection) \in Nat
      /\ Elements(protection) = IF production THEN {"RDP", "CODE_WRP", "KEY_WRP"} ELSE {}
  <2>1. /\ <<"RDP", "CODE_WRP", "KEY_WRP">> \in Seq(Names)
        /\ Len(<<"RDP", "CODE_WRP", "KEY_WRP">>) = 3
        /\ Elements(<<"RDP", "CODE_WRP", "KEY_WRP">>) = {"RDP", "CODE_WRP", "KEY_WRP"}
    BY Three DEF Names
  <2> QED BY <2>1, None DEF ProtectionChecks
<1>6. store \in Seq(Names) /\ Len(store) = 2 /\ Elements(store) = {"PROVISIONING", "JOURNAL"}
  BY Two DEF StoreChecks, Names
<1> DEFINE withLcd == clock \o lcdInit
           withBuses == withLcd \o busInit
           withGeometry == withBuses \o geometry
           withProtection == withGeometry \o protection
           withStore == withProtection \o store
<1>7. Checks(b) = withStore
  BY DEF Checks, InitChecks
<1> HIDE DEF clock, lcdInit, busInit, geometry, protection, store
<1>0. /\ clock \in Seq(Names) /\ lcdInit \in Seq(Names) /\ busInit \in Seq(Names)
      /\ geometry \in Seq(Names) /\ protection \in Seq(Names) /\ store \in Seq(Names)
  BY <1>1, <1>2, <1>3, <1>4, <1>5, <1>6
<1> HIDE DEF withLcd, withBuses, withGeometry, withProtection, withStore
<1>8. withLcd \in Seq(Names)
  BY <1>0, Concatenated DEF withLcd
<1>9. withBuses \in Seq(Names)
  BY <1>0, <1>8, Concatenated DEF withBuses
<1>10. withGeometry \in Seq(Names)
  BY <1>0, <1>9, Concatenated DEF withGeometry
<1>11. withProtection \in Seq(Names)
  BY <1>0, <1>10, Concatenated DEF withProtection
<1>12. withStore \in Seq(Names)
  BY <1>0, <1>11, Concatenated DEF withStore
<1>13. /\ Len(withLcd) = Len(clock) + Len(lcdInit)
      /\ Elements(withLcd) = Elements(clock) \cup Elements(lcdInit)
  BY <1>0, Concatenated DEF withLcd
<1>14. /\ Len(withBuses) = Len(withLcd) + Len(busInit)
      /\ Elements(withBuses) = Elements(withLcd) \cup Elements(busInit)
  BY <1>0, <1>8, Concatenated DEF withBuses
<1>15. /\ Len(withGeometry) = Len(withBuses) + Len(geometry)
      /\ Elements(withGeometry) = Elements(withBuses) \cup Elements(geometry)
  BY <1>0, <1>9, Concatenated DEF withGeometry
<1>16. /\ Len(withProtection) = Len(withGeometry) + Len(protection)
      /\ Elements(withProtection) = Elements(withGeometry) \cup Elements(protection)
  BY <1>0, <1>10, Concatenated DEF withProtection
<1>17. /\ Len(withStore) = Len(withProtection) + Len(store)
      /\ Elements(withStore) = Elements(withProtection) \cup Elements(store)
  BY <1>0, <1>11, Concatenated DEF withStore
<1>18. Len(withStore) \in Nat /\ 1 <= Len(withStore)
  BY <1>1, <1>2, <1>3, <1>4, <1>5, <1>6, <1>13, <1>14, <1>15, <1>16, <1>17
<1>19. Elements(withStore) = Required(b)
  <2>1. Elements(withStore) = {"CLOCK"} \cup (IF b = "H743" THEN {"LCD"} ELSE {}) \cup {"UART_INIT", "RNG"}
           \cup ({"FLASH_SIZE"} \cup (IF b = "H743" THEN {"BANK_MAPPING"} ELSE {}))
           \cup (IF production THEN {"RDP", "CODE_WRP", "KEY_WRP"} ELSE {})
           \cup {"PROVISIONING", "JOURNAL"}
    BY <1>1, <1>2, <1>3, <1>4, <1>5, <1>6, <1>13, <1>14, <1>15, <1>16, <1>17
  <2> QED BY <2>1 DEF Required
<1> QED BY <1>7, <1>12, <1>18, <1>19

\* A step that leaves the boards as they were built leaves their checks, too.
LEMMA BuiltKeeps ==
  ASSUME production' = production, NEW b \in Board
  PROVE  Required(b)' = Required(b) /\ Checks(b)' = Checks(b)
BY DEF Required, Checks, InitChecks, ClockChecks, LcdChecks, GeometryChecks, ProtectionChecks, StoreChecks

\* Every check has an error code, and none of them is NONE.
LEMMA ErrorNumbers ==
  /\ Error.NONE = 0 /\ Error.INTERNAL \in ErrorCodes \ {0}
  /\ \A d \in Names : Error[d] \in ErrorCodes \ {0}
  /\ {Error.CHALLENGE, Error.RNG, Error.UART_TX, Error.UART_RX, Error.FRAME, Error.FRAME_TYPE,
      Error.STALE_COUNTER, Error.REQUEST_AUTH, Error.MEASUREMENT, Error.RESPONSE}
       \subseteq ErrorCodes \ {0}
  /\ SaveErrors \subseteq ErrorCodes \ {0}
<1>1. /\ Error.NONE = 0 /\ Error.INTERNAL \in ErrorCodes \ {0}
      /\ Error.COUNTER_SAVE = 14 /\ Error.FLASH_UNLOCK = 25 /\ Error.FLASH_SEQUENCE = 32
  BY DEF Error, ErrorCodes
<1>2. \A d \in Names : Error[d] \in ErrorCodes \ {0}
  BY DEF Error, ErrorCodes, Names
<1>3. {Error.CHALLENGE, Error.RNG, Error.UART_TX, Error.UART_RX, Error.FRAME, Error.FRAME_TYPE,
       Error.STALE_COUNTER, Error.REQUEST_AUTH, Error.MEASUREMENT, Error.RESPONSE}
        \subseteq ErrorCodes \ {0}
  BY DEF Error, ErrorCodes
<1>4. SaveErrors \subseteq ErrorCodes \ {0}
  BY <1>1, BoardsAssumption DEF ErrorCodes
<1> QED BY <1>1, <1>2, <1>3, <1>4

-----------------------------------------------------------------------------
(* What is shown.                                                          *)

Leds == {"dark", "lit", "flashing"}
Places == {"boot", "fatal", "halted"} \cup Serving

LEMMA ServingPlaces ==
  /\ {"loop", "sending", "handling", "measuring", "answering"} \subseteq Serving
  /\ Serving \subseteq Places
  /\ "boot" \notin Serving /\ "fatal" \notin Serving /\ "halted" \notin Serving
BY DEF Serving, Places

\* A board shows a phase and an error of its own.
Shown(b, ph, error) ==
  /\ phase' = [phase EXCEPT ![b] = ph]
  /\ code' = [code EXCEPT ![b] = error]
  /\ \E value \in Leds : SetLed(b, value)
  /\ Draw(b, Own(ph, error))

LEMMA OwnType ==
  ASSUME NEW ph \in Phases, NEW error \in ErrorCodes
  PROVE  Own(ph, error) \in Screens
BY DEF Own, Screens

LEMMA BlankType == Blank \in Screens /\ Mixed \in Screens
BY DEF Blank, Mixed, Screens, Phases, ErrorCodes

LEMMA UiShows ==
  ASSUME TypeOK, NEW b \in Board, NEW ph \in Phases, Ui(b, ph)
  PROVE  Shown(b, ph, 0)
BY ErrorNumbers DEF Ui, Shown, Leds

LEMMA ReportShows ==
  ASSUME TypeOK, NEW b \in Board, NEW error \in ErrorCodes \ {0}, ReportError(b, error)
  PROVE  Shown(b, "ERROR", error)
<1>1. code' = [code EXCEPT ![b] = error] /\ code'[b] = error
  BY ErrorNumbers DEF ReportError, TypeOK
<1> QED BY <1>1 DEF ReportError, Shown, Leds

\* What a board shows replaces what it showed, and nothing of the other board.
LEMMA ShownSets ==
  ASSUME TypeOK, NEW b \in Board, NEW ph \in Phases, NEW error \in ErrorCodes,
         Shown(b, ph, error)
  PROVE  /\ phase' \in [Board -> Phases] /\ code' \in [Board -> ErrorCodes]
         /\ led' \in [Board -> Leds]
         /\ lcd' \in BOOLEAN /\ screen' \in Screens
         /\ phase'[b] = ph /\ code'[b] = error
         /\ \A c \in Board \ {b} : phase'[c] = phase[c] /\ code'[c] = code[c] /\ led'[c] = led[c]
         /\ lcd' => lcd
         /\ b = "H743" /\ lcd' => screen' = Own(ph, error)
         /\ b = "G431" => UNCHANGED display
<1>1. phase' \in [Board -> Phases] /\ code' \in [Board -> ErrorCodes]
  BY DEF TypeOK, Shown
<1>2. led' \in [Board -> Leds] /\ \A c \in Board \ {b} : led'[c] = led[c]
  BY DEF TypeOK, Shown, SetLed, Leds
<1>3. /\ phase'[b] = ph /\ code'[b] = error
      /\ \A c \in Board \ {b} : phase'[c] = phase[c] /\ code'[c] = code[c]
  BY DEF TypeOK, Shown
<1>4. Draw(b, Own(ph, error)) /\ lcd \in BOOLEAN /\ screen \in Screens
  BY DEF TypeOK, Shown
<1>5. lcd' \in BOOLEAN /\ (lcd' => lcd)
  <2>1. lcd' = lcd \/ lcd' = FALSE
    BY <1>4 DEF Draw, display
  <2>2. lcd \in BOOLEAN
    BY <1>4
  <2>3. lcd' \in BOOLEAN
    BY <2>1, <2>2
  <2>4. lcd' => lcd
    BY <2>1
  <2> QED BY <2>3, <2>4
<1>6. screen' \in Screens
  BY <1>4, OwnType, BlankType DEF Draw, display
<1>7. /\ b = "H743" /\ lcd' => screen' = Own(ph, error)
      /\ b = "G431" => UNCHANGED display
  BY <1>4 DEF Draw, display
<1> QED BY <1>1, <1>2, <1>3, <1>5, <1>6, <1>7

\* A board shows something and its loop goes on.
GoesOn(b, ph, error) ==
  /\ at[b] \in Serving
  /\ \E point \in Serving : GoTo(b, point)
  /\ Shown(b, ph, error)
  /\ UNCHANGED <<built, step, gpio, uart, cause>>

\* A board shows an error and stops for it.
Stops(b, error) ==
  /\ at[b] \in {"boot"} \cup Serving
  /\ GoTo(b, "fatal")
  /\ Shown(b, "ERROR", error) /\ Blames(b, error)
  /\ UNCHANGED <<built, step, gpio, uart>>

\* A board's loop goes on, and shows nothing new.
MovesOn(b) ==
  /\ at[b] \in Serving
  /\ \E point \in Serving : GoTo(b, point)
  /\ UNCHANGED <<built, step, gpio, uart, led, phase, code, display, cause>>

\* The H743 shows an error of the peer.
PeerShown ==
  /\ at["H743"] = "loop"
  /\ \E error \in ErrorCodes : Draw("H743", [title |-> "VERIFIER", phase |-> "ERROR", code |-> error])
  /\ phase' = [phase EXCEPT !["H743"] = "ERROR"]
  /\ UNCHANGED <<built, at, step, gpio, uart, led, code, cause>>

\* Nothing of the boards themselves changes.
LinkOnly ==
  UNCHANGED <<built, at, step, gpio, uart, led, phase, code, display, cause>>

LEMMA StaysThere == ASSUME TypeOK, NEW b \in Board PROVE at = [at EXCEPT ![b] = at[b]]
BY DEF TypeOK

\* The kinds of steps there are.
Kind ==
  \/ \E b \in Board : CheckPasses(b) \/ LoadSucceeds(b) \/ Fatal(b) \/ Reset(b)
  \/ \E b \in Board, ph \in Phases, error \in ErrorCodes : GoesOn(b, ph, error)
  \/ \E b \in Board, error \in ErrorCodes \ {0} : Stops(b, error)
  \/ \E b \in Board : MovesOn(b)
  \/ PeerShown
  \/ LinkOnly

LEMMA Kinds == ASSUME TypeOK, [Next]_vars PROVE Kind
<1>1. "H743" \in Board /\ "G431" \in Board /\ 0 \in ErrorCodes
  BY DEF Board, ErrorCodes
<1>2. ASSUME NEW b \in Board, NEW ph \in Phases, Ui(b, ph),
             at[b] \in Serving,
             at' = at \/ \E point \in Serving : GoTo(b, point),
             UNCHANGED <<built, step, gpio, uart, cause>>
      PROVE  Kind
  <2>1. Shown(b, ph, 0)
    BY <1>2, UiShows
  <2>2. \E point \in Serving : GoTo(b, point)
    BY <1>2, StaysThere DEF GoTo
  <2>3. GoesOn(b, ph, 0)
    BY <1>2, <2>1, <2>2 DEF GoesOn
  <2> QED BY <1>1, <2>3 DEF Kind
<1>3. ASSUME NEW b \in Board, NEW error \in ErrorCodes \ {0}, ReportError(b, error),
             at[b] \in Serving, GoTo(b, "loop"),
             UNCHANGED <<built, step, gpio, uart, cause>>
      PROVE  Kind
  <2>1. Shown(b, "ERROR", error)
    BY <1>3, ReportShows
  <2>2. \E point \in Serving : GoTo(b, point)
    BY <1>3, ServingPlaces
  <2>3. GoesOn(b, "ERROR", error)
    BY <1>3, <2>1, <2>2 DEF GoesOn
  <2>4. "ERROR" \in Phases
    BY DEF Phases
  <2> QED BY <2>3, <2>4 DEF Kind
<1>4. ASSUME NEW b \in Board, NEW error \in ErrorCodes \ {0}, ReportError(b, error), Blames(b, error),
             at[b] \in {"boot"} \cup Serving, GoTo(b, "fatal"),
             UNCHANGED <<built, step, gpio, uart>>
      PROVE  Kind
  <2>1. Stops(b, error)
    BY <1>4, ReportShows DEF Stops
  <2> QED BY <2>1 DEF Kind
<1> USE DEF Keeps, Looping
<1>5. ASSUME NEW b \in Board, Boot(b) \/ Reset(b) PROVE Kind
  <2>1. CASE CheckFails(b)
    <3>1. Check(b) \in Names /\ Check(b) \in Required(b)
      <4>1. step[b] \in 1 .. Len(Checks(b)) /\ defects[b] \subseteq Required(b)
        BY DEF TypeOK
      <4>2. Check(b) \in Required(b)
        BY <4>1, <2>1 DEF CheckFails
      <4>3. Checks(b) \in Seq(Names)
        BY ChecksAreRequired
      <4> QED BY <4>1, <4>2, <4>3 DEF Check
    <3>2. Error[Check(b)] \in ErrorCodes \ {0}
      BY <3>1, ErrorNumbers
    <3> QED BY <1>4, <2>1, <3>2 DEF CheckFails
  <2>2. CASE ~ CheckFails(b)
    <3>1. CheckPasses(b) \/ LoadSucceeds(b) \/ Fatal(b) \/ Reset(b)
      BY <1>5, <2>2 DEF Boot
    <3> QED BY <3>1 DEF Kind
  <2> QED BY <2>1, <2>2
<1>6. ASSUME NEW b \in Board, Noise(b) PROVE Kind
  <2>1. PICK error \in {Error.UART_RX, Error.FRAME, Error.FRAME_TYPE} : Complain(b, error)
    BY <1>6 DEF Noise
  <2>2. error \in ErrorCodes \ {0}
    BY ErrorNumbers
  <2> QED BY <1>3, <1>6, <2>1, <2>2, ServingPlaces DEF Noise, Complain
<1>7. CASE Diagnose \/ LoseFrame
  <2>1. LinkOnly
    BY <1>7 DEF Diagnose, LoseFrame, LinkOnly
  <2> QED BY <2>1 DEF Kind
<1>8. CASE Ask
  <2>1. at["G431"] = "loop" /\ GoTo("G431", "sending") /\ Ui("G431", "REQUEST")
    BY <1>8 DEF Ask
  <2> QED BY <1>1, <1>2, <1>8, <2>1, ServingPlaces DEF Ask, Phases
<1>9. CASE AskFails
  <2>1. PICK error \in SaveErrors \cup {Error.CHALLENGE, Error.RNG} : Stop("G431", error)
    BY <1>9 DEF AskFails
  <2>2. error \in ErrorCodes \ {0}
    BY ErrorNumbers
  <2> QED BY <1>1, <1>4, <1>9, <2>1, <2>2, ServingPlaces DEF AskFails, Stop
<1>10. CASE SendRequestFails
  <2>1. Error.UART_TX \in ErrorCodes \ {0}
    BY ErrorNumbers
  <2> QED BY <1>1, <1>3, <1>10, <2>1, ServingPlaces DEF SendRequestFails, Complain
<1>11. CASE SessionEnds
  <2>1. PICK ph \in {"PASS", "MISMATCH", "TIMEOUT"} : Ui("G431", ph)
    BY <1>11 DEF SessionEnds
  <2> QED BY <1>1, <1>2, <1>11, <2>1, ServingPlaces DEF SessionEnds, Phases
<1>12. CASE TakeRequest
  <2>1. at["H743"] = "loop" /\ GoTo("H743", "handling") /\ Ui("H743", "REQUEST")
    BY <1>12 DEF TakeRequest, Receives
  <2> QED BY <1>1, <1>2, <1>12, <2>1, ServingPlaces DEF TakeRequest, Phases
<1>13. CASE RefuseRequest
  <2>1. PICK error \in {Error.STALE_COUNTER, Error.REQUEST_AUTH} : Complain("H743", error)
    BY <1>13 DEF RefuseRequest
  <2>2. error \in ErrorCodes \ {0}
    BY ErrorNumbers
  <2> QED BY <1>1, <1>3, <1>13, <2>1, <2>2, ServingPlaces DEF RefuseRequest, Complain
<1>14. CASE SaveFails
  <2>1. PICK error \in SaveErrors : Stop("H743", error)
    BY <1>14 DEF SaveFails
  <2>2. error \in ErrorCodes \ {0}
    BY ErrorNumbers
  <2> QED BY <1>1, <1>4, <1>14, <2>1, <2>2, ServingPlaces DEF SaveFails, Stop
<1>15. CASE AcceptRequest
  <2>1. at["H743"] = "handling" /\ GoTo("H743", "measuring") /\ Ui("H743", "MEASURING")
    BY <1>15 DEF AcceptRequest
  <2> QED BY <1>1, <1>2, <1>15, <2>1, ServingPlaces DEF AcceptRequest, Phases
<1>16. CASE Measure
  <2>1. PICK ph \in {"PASS", "MISMATCH"} : Ui("H743", ph)
    BY <1>16 DEF Measure
  <2> QED BY <1>1, <1>2, <1>16, <2>1, ServingPlaces DEF Measure, Phases
<1>17. CASE MeasureFails
  <2>1. PICK error \in {Error.MEASUREMENT, Error.RESPONSE} : Complain("H743", error)
    BY <1>17 DEF MeasureFails
  <2>2. error \in ErrorCodes \ {0}
    BY ErrorNumbers
  <2> QED BY <1>1, <1>3, <1>17, <2>1, <2>2, ServingPlaces DEF MeasureFails, Complain
<1>18. CASE RespondFails
  <2>1. Error.UART_TX \in ErrorCodes \ {0}
    BY ErrorNumbers
  <2> QED BY <1>1, <1>3, <1>18, <2>1, ServingPlaces DEF RespondFails, Complain
<1>19. CASE SendRequest \/ Respond
  <2>1. MovesOn("G431") \/ MovesOn("H743")
    BY <1>19, ServingPlaces DEF SendRequest, Respond, MovesOn
  <2> QED BY <1>1, <2>1 DEF Kind
<1>20. CASE ShowPeerError
  <2> DEFINE error == wire.payload[1]
  <2>1. wire \in Frames /\ wire.type = "diagnostic"
    BY <1>20 DEF ShowPeerError, Receives, TypeOK
  <2>2. error \in ErrorCodes
    BY <2>1 DEF Frames
  <2>3. CASE Complain("H743", Error.FRAME)
    <3>1. Error.FRAME \in ErrorCodes \ {0}
      BY ErrorNumbers
    <3> QED BY <1>1, <1>3, <1>20, <2>3, <3>1, ServingPlaces DEF ShowPeerError, Receives, Complain
  <2>4. CASE ~ Complain("H743", Error.FRAME)
    <3>1. PeerShown
      BY <1>20, <2>2, <2>4 DEF ShowPeerError, Receives, PeerShown
    <3> QED BY <3>1 DEF Kind
  <2> QED BY <2>3, <2>4
<1>21. CASE UNCHANGED vars
  <2>1. LinkOnly
    BY <1>21 DEF vars, LinkOnly
  <2> QED BY <2>1 DEF Kind
<1>22. CASE \E b \in Board : Boot(b) \/ Reset(b) \/ Noise(b)
  <2>1. PICK b \in Board : Boot(b) \/ Reset(b) \/ Noise(b)
    BY <1>22
  <2>2. CASE Noise(b)
    BY <1>6, <2>2
  <2>3. CASE Boot(b) \/ Reset(b)
    BY <1>5, <2>3
  <2> QED BY <2>1, <2>2, <2>3
<1> QED BY <1>7, <1>8, <1>9, <1>10, <1>11, <1>12, <1>13, <1>14, <1>15, <1>16, <1>17, <1>18, <1>19, <1>20,
           <1>21, <1>22 DEF Next

-----------------------------------------------------------------------------
(* The diagnostic frame: its bytes make one frame, with the code in it.    *)

\* What the decoder makes of the bytes from the i-th on, if it makes from of the rest.
FromPlace(bytes, from, i) ==
  LET last == i + bytes[i] - 1
      zero == IF last < Len(bytes) THEN <<0>> ELSE <<>>
  IN IF i > Len(bytes) THEN {<<>>}
     ELSE IF last > Len(bytes) THEN {}
     ELSE {SubSeq(bytes, i + 1, last) \o zero \o rest : rest \in from[last + 1]}
Body(bytes, from) == [i \in 1 .. Len(bytes) + 1 |-> FromPlace(bytes, from, i)]
From(bytes) == CHOOSE from : from = Body(bytes, from)

LEMMA UnstuffIsFrom == ASSUME NEW bytes PROVE Wire!Unstuff(bytes) = From(bytes)[1]
BY DEF Wire!Unstuff, From, Body, FromPlace

\* What the rest makes does not depend on what comes before it.
LEMMA Settled ==
  ASSUME NEW bytes, Len(bytes) = 4, \A i \in 1 .. 4 : bytes[i] \in Nat /\ bytes[i] >= 1,
         NEW from, NEW n \in 1 .. 5,
         \A i \in n + 1 .. 5 : from[i] = Body(bytes, from)[i]
  PROVE  \A i \in n .. 5 : Body(bytes, from)[i] = Body(bytes, Body(bytes, from))[i]
<1> DEFINE next == Body(bytes, from)
<1>1. \A i \in 1 .. 5 : /\ Body(bytes, from)[i] = FromPlace(bytes, from, i)
                        /\ Body(bytes, next)[i] = FromPlace(bytes, next, i)
  BY DEF Body
<1> HIDE DEF next
<1>2. ASSUME NEW i \in n .. 5 PROVE FromPlace(bytes, from, i) = FromPlace(bytes, next, i)
  <2>1. CASE i > 4
    BY <2>1 DEF FromPlace
  <2>2. CASE i <= 4 /\ i + bytes[i] - 1 > 4
    BY <2>2 DEF FromPlace
  <2>3. CASE i <= 4 /\ i + bytes[i] - 1 <= 4
    <3>1. i + bytes[i] - 1 + 1 \in n + 1 .. 5
      BY <2>3
    <3>2. from[i + bytes[i] - 1 + 1] = next[i + bytes[i] - 1 + 1]
      BY <3>1 DEF next
    <3> QED BY <3>2 DEF FromPlace
  <2>4. i \in Int /\ (i <= 4 => i + bytes[i] - 1 \in Int)
    OBVIOUS
  <2> QED BY <2>1, <2>2, <2>3, <2>4
<1> QED BY <1>1, <1>2 DEF next

LEMMA FromFollows ==
  ASSUME NEW bytes, Len(bytes) = 4, \A i \in 1 .. 4 : bytes[i] \in Nat /\ bytes[i] >= 1
  PROVE  From(bytes) = Body(bytes, From(bytes))
<1> DEFINE f1 == Body(bytes, <<>>)
           f2 == Body(bytes, f1)
           f3 == Body(bytes, f2)
           f4 == Body(bytes, f3)
           f5 == Body(bytes, f4)
           f6 == Body(bytes, f5)
<1>1. \A i \in 5 .. 5 : f1[i] = f2[i]
  BY \A i \in 5 + 1 .. 5 : <<>>[i] = f1[i], Settled
<1>2. \A i \in 4 .. 5 : f2[i] = f3[i]
  BY <1>1, 4 + 1 = 5, Settled
<1>3. \A i \in 3 .. 5 : f3[i] = f4[i]
  BY <1>2, 3 + 1 = 4, Settled
<1>4. \A i \in 2 .. 5 : f4[i] = f5[i]
  BY <1>3, 2 + 1 = 3, Settled
<1>5. \A i \in 1 .. 5 : f5[i] = f6[i]
  BY <1>4, 1 + 1 = 2, Settled
<1>6. f5 = [i \in 1 .. 5 |-> f5[i]] /\ f6 = [i \in 1 .. 5 |-> f6[i]]
  BY DEF Body
<1> HIDE DEF f1, f2, f3, f4, f5
<1>7. f5 = Body(bytes, f5)
  BY <1>5, <1>6
<1> QED BY <1>7 DEF From

LEMMA DiagnosticUnstuffed ==
  ASSUME NEW e \in ErrorCodes \ {0}
  PROVE  Wire!Unstuff(<<4, 3, 1, e>>) = {<<3, 1, e>>}
<1> DEFINE bytes == <<4, 3, 1, e>>
<1>1. /\ Len(bytes) = 4 /\ bytes \in Seq(Nat)
      /\ bytes[1] = 4 /\ bytes[2] = 3 /\ bytes[3] = 1 /\ bytes[4] = e
  BY DEF ErrorCodes
<1>2. e \in Nat /\ e >= 1
  BY DEF ErrorCodes
<1> HIDE DEF bytes
<1>3. \A i \in 1 .. 4 : bytes[i] \in Nat /\ bytes[i] >= 1
  BY <1>1, <1>2
<1>4. \A i \in 1 .. 5 : From(bytes)[i] = FromPlace(bytes, From(bytes), i)
  BY <1>1, <1>3, FromFollows DEF Body
<1>5. From(bytes)[5] = {<<>>}
  BY <1>1, <1>4 DEF FromPlace
<1>6. SubSeq(bytes, 2, 4) = <<3, 1, e>>
  <2>1. /\ SubSeq(bytes, 2, 4) \in Seq(Nat) /\ Len(SubSeq(bytes, 2, 4)) = 3
        /\ \A i \in 1 .. 3 : SubSeq(bytes, 2, 4)[i] = bytes[i + 1]
    BY <1>1, <1>3, SubSeqProperties
  <2>2. <<3, 1, e>> \in Seq(Nat) /\ Len(<<3, 1, e>>) = 3
    BY <1>2
  <2>3. \A i \in 1 .. 3 : SubSeq(bytes, 2, 4)[i] = <<3, 1, e>>[i]
    BY <1>1, <2>1
  <2> QED BY <2>1, <2>2, <2>3, SeqEqual
<1>7. <<3, 1, e>> \o <<>> \o <<>> = <<3, 1, e>>
  BY <1>2
<1>8. FromPlace(bytes, From(bytes), 1) = {SubSeq(bytes, 2, 4) \o <<>> \o rest : rest \in {<<>>}}
  <2>1. ~ 1 > 4 /\ 1 + 4 - 1 = 4 /\ ~ 4 > 4 /\ ~ 4 < 4 /\ 4 + 1 = 5 /\ 1 + 1 = 2
    OBVIOUS
  <2> QED BY <1>1, <1>5, <2>1, Zenon DEF FromPlace
<1>9. FromPlace(bytes, From(bytes), 1) = {<<3, 1, e>>}
  BY <1>6, <1>7, <1>8, Zenon
<1>10. From(bytes)[1] = {<<3, 1, e>>}
  <2>1. 1 \in 1 .. 5
    OBVIOUS
  <2> QED BY <1>4, <1>9, <2>1, Zenon
<1> QED BY <1>10, UnstuffIsFrom DEF bytes

\* The bytes that board_fatal sends carry the code, in a diagnostic frame.
LEMMA DiagnosticType ==
  ASSUME NEW e \in ErrorCodes \ {0}
  PROVE  Diagnostic(e) \subseteq Frames
<1> SUFFICES ASSUME NEW f \in Diagnostic(e) PROVE f \in Frames
  OBVIOUS
<1>1. PICK raw \in Wire!Unstuff(<<4, 3, 1, e>>), t \in Wire!Types :
        /\ raw[1] = Wire!TypeByte[t]
        /\ f = [type |-> t, payload |-> SubSeq(raw, 3, Len(raw))]
  BY DEF Diagnostic, Wire!Decode
<1>2. raw = <<3, 1, e>>
  BY <1>1, DiagnosticUnstuffed
<1>3. t = "diagnostic"
  BY <1>1, <1>2 DEF Wire!Types, Wire!TypeByte
<1>4. SubSeq(raw, 3, Len(raw)) = <<e>>
  <2>1. raw \in Seq(Nat) /\ Len(raw) = 3 /\ raw[3] = e /\ e \in Nat
    BY <1>2 DEF ErrorCodes
  <2>2. /\ SubSeq(raw, 3, 3) \in Seq(Nat) /\ Len(SubSeq(raw, 3, 3)) = 1
        /\ SubSeq(raw, 3, 3)[1] = e
    BY <2>1, SubSeqProperties
  <2>3. <<e>> \in Seq(Nat) /\ Len(<<e>>) = 1 /\ <<e>>[1] = e
    BY <2>1
  <2>4. \A i \in 1 .. 1 : SubSeq(raw, 3, 3)[i] = <<e>>[i]
    BY <2>2, <2>3
  <2>5. SubSeq(raw, 3, 3) = <<e>>
    BY <2>2, <2>3, <2>4, SeqEqual
  <2> QED BY <2>1, <2>5
<1>5. <<e>> \in [1 .. 1 -> ErrorCodes]
  OBVIOUS
<1> QED BY <1>1, <1>3, <1>4, <1>5 DEF Frames

-----------------------------------------------------------------------------
(* The types.                                                              *)

LEMMA InitHolds == Init => IInv
<1> SUFFICES ASSUME Init PROVE IInv
  OBVIOUS
<1> USE DEF Init
<1>1. "H743" \in Board /\ "G431" \in Board /\ Board = {"H743", "G431"}
  BY DEF Board
<1>2. PICK h \in FewDefects("H743"), g \in FewDefects("G431") : defects = [H743 |-> h, G431 |-> g]
  OBVIOUS
<1>3. h \subseteq Required("H743") /\ g \subseteq Required("G431")
  BY DEF FewDefects
<1>4. \A b \in Board : defects[b] \subseteq Required(b)
  BY <1>1, <1>2, <1>3
<1>5. defects \in [Board -> SUBSET UNION {Required(b) : b \in Board}]
  BY <1>1, <1>2, <1>3
<1>6. \A b \in Board : step[b] \in 1 .. Len(Checks(b))
  BY ChecksAreRequired
<1>7. /\ led \in [Board -> Leds] /\ phase \in [Board -> Phases]
      /\ code \in [Board -> ErrorCodes] /\ cause \in [Board -> ErrorCodes]
  BY DEF Leds, Phases, ErrorCodes
<1>8. wire \in Frames
  BY DEF Frames, NoFrame
<1>9. TypeOK
  BY <1>4, <1>5, <1>6, <1>7, <1>8, BlankType DEF TypeOK, Leds
<1>10. PassedSoFar /\ DefectiveStaysOut /\ FatalKnowsCause /\ StoppedNamesCause
  BY ServingPlaces DEF PassedSoFar, DefectiveStaysOut, FatalKnowsCause, StoppedNamesCause
<1>11. BlankAtBoot /\ ScreenAgrees
  BY DEF BlankAtBoot, ScreenAgrees
<1> QED BY <1>9, <1>10, <1>11 DEF IInv

\* The line between the boards, and the verifier's challenge.
LEMMA LinkTypes ==
  ASSUME IInv, [Next]_vars
  PROVE  outstanding' \in BOOLEAN /\ synced' \in BOOLEAN /\ wire' \in Frames
<1>1. outstanding \in BOOLEAN /\ synced \in BOOLEAN /\ wire \in Frames
  BY DEF IInv, TypeOK
<1>2. NoFrame \in Frames /\ Request \in Frames /\ Response \in Frames
  BY DEF Frames, NoFrame, Request, Response
<1> USE DEF link, Keeps
<1>3. ASSUME NEW b \in Board, Boot(b) \/ Reset(b) \/ Noise(b)
      PROVE  outstanding' \in BOOLEAN /\ synced' \in BOOLEAN /\ wire' \in Frames
  <2>1. wire' = wire
    BY <1>3 DEF Boot, CheckPasses, LoadSucceeds, CheckFails, Fatal, Reset, Noise
  <2>2. outstanding' \in {outstanding, FALSE}
    BY <1>3 DEF Boot, CheckPasses, LoadSucceeds, CheckFails, Fatal, Reset, Noise
  <2>3. synced' \in BOOLEAN
    BY <1>1, <1>3 DEF Boot, CheckPasses, LoadSucceeds, CheckFails, Fatal, Reset, Noise
  <2> QED BY <1>1, <2>1, <2>2, <2>3
<1>4. CASE Diagnose
  <2>1. "G431" \in Board /\ at["G431"] = "halted" /\ wire' \in Diagnostic(code["G431"])
    BY <1>4 DEF Diagnose, Board
  <2>2. code["G431"] \in ErrorCodes /\ code["G431"] # 0
    BY <2>1, ErrorNumbers DEF IInv, TypeOK, StoppedNamesCause
  <2>3. wire' \in Frames
    BY <2>1, <2>2, DiagnosticType
  <2> QED BY <1>1, <1>4, <2>3 DEF Diagnose
<1>5. CASE LoseFrame \/ Ask \/ AskFails \/ SendRequest \/ SendRequestFails \/ SessionEnds
  BY <1>1, <1>2, <1>5 DEF LoseFrame, Ask, AskFails, SendRequest, SendRequestFails, SessionEnds
<1>6. CASE TakeRequest \/ RefuseRequest \/ SaveFails \/ AcceptRequest \/ ShowPeerError
  BY <1>1, <1>2, <1>6
     DEF TakeRequest, RefuseRequest, SaveFails, AcceptRequest, ShowPeerError, Receives
<1>7. CASE Measure \/ MeasureFails \/ Respond \/ RespondFails \/ UNCHANGED vars
  BY <1>1, <1>2, <1>7 DEF Measure, MeasureFails, Respond, RespondFails, vars
<1> QED BY <1>3, <1>4, <1>5, <1>6, <1>7 DEF Next

\* What a step leaves of the types, but for the link, with the boards as they were.
BuiltType ==
  /\ production' = production /\ defects' = defects
  /\ \A b \in Board : step'[b] \in 1 .. Len(Checks(b))
  /\ step' \in [Board -> Nat]
WhereType == at' \in [Board -> Places]
PortType == gpio' \in [Board -> BOOLEAN] /\ uart' \in [Board -> BOOLEAN]
ShownType ==
  /\ led' \in [Board -> Leds] /\ phase' \in [Board -> Phases] /\ code' \in [Board -> ErrorCodes]
  /\ lcd' \in BOOLEAN /\ screen' \in Screens
CauseType == cause' \in [Board -> ErrorCodes]
BoardType == BuiltType /\ WhereType /\ PortType /\ ShownType /\ CauseType

LEMMA TypeStep == ASSUME IInv, [Next]_vars PROVE TypeOK'
<1>0. TypeOK
  BY DEF IInv
<1>1. \A b \in Board : step[b] \in 1 .. Len(Checks(b)) /\ 1 \in 1 .. Len(Checks(b))
  BY <1>0, ChecksAreRequired DEF TypeOK
<1>2. "ERROR" \in Phases /\ "OFF" \in Phases /\ 0 \in ErrorCodes
  BY DEF Phases, ErrorCodes
<1>places. at \in [Board -> Places] /\ Serving \subseteq Places /\ "loop" \in Serving
      /\ "boot" \in Places /\ "fatal" \in Places /\ "halted" \in Places
  BY <1>0, ServingPlaces DEF TypeOK, Places
<1> USE DEF built, display, WhereType, CauseType
<1>3. ASSUME NEW b \in Board, CheckPasses(b) PROVE BoardType
  <2>1. BuiltType
    <3>1. step[b] \in Nat /\ step[b] + 1 \in 1 .. Len(Checks(b)) /\ step' = [step EXCEPT ![b] = step[b] + 1]
      BY <1>1, <1>3, ChecksAreRequired DEF CheckPasses, Last
    <3> QED BY <1>0, <1>1, <1>3, <3>1 DEF CheckPasses, TypeOK, BuiltType
  <2>2. PortType
    BY <1>0, <1>3 DEF CheckPasses, TypeOK, PortType
  <2>3. lcd' \in BOOLEAN
    BY <1>0, <1>3 DEF CheckPasses, TypeOK
  <2> QED BY <1>0, <1>places, <1>3, <2>1, <2>2, <2>3 DEF CheckPasses, TypeOK, Leds, BoardType, ShownType
<1>4. ASSUME NEW b \in Board, LoadSucceeds(b) PROVE BoardType
  <2>1. "READY" \in Phases
    BY DEF Phases
  <2>2. Shown(b, "READY", 0)
    BY <1>0, <1>4, <2>1, UiShows DEF LoadSucceeds
  <2>3. ShownType
    BY <1>0, <1>2, <2>1, <2>2, ShownSets DEF ShownType
  <2> QED BY <1>0, <1>places, <1>1, <1>4, <2>3 DEF LoadSucceeds, TypeOK, GoTo, BoardType, BuiltType, PortType
<1>5. ASSUME NEW b \in Board, Fatal(b) PROVE BoardType
  <2>1. PortType
    BY <1>0, <1>5 DEF Fatal, TypeOK, PortType
  <2>2. led' \in [Board -> Leds] /\ phase' \in [Board -> Phases]
    BY <1>0, <1>2, <1>5 DEF Fatal, TypeOK, Leds
  <2>3. code' \in [Board -> ErrorCodes]
    BY <1>0, <1>5, ErrorNumbers DEF Fatal, TypeOK
  <2>4. Own("ERROR", code'[b]) \in Screens
    BY <1>2, <2>3, OwnType
  <2>5. lcd' \in BOOLEAN
    BY <1>0, <1>5 DEF Fatal, Draw, TypeOK
  <2>6. screen' \in Screens
    BY <1>0, <1>5, <2>4, BlankType DEF Fatal, Draw, TypeOK
  <2> QED BY <1>0, <1>places, <1>1, <1>5, <2>1, <2>2, <2>3, <2>5, <2>6
          DEF Fatal, TypeOK, GoTo, BoardType, BuiltType, ShownType
<1>6. ASSUME NEW b \in Board, Reset(b) PROVE BoardType
  <2>1. BuiltType
    BY <1>0, <1>1, <1>6 DEF Reset, TypeOK, BuiltType
  <2>2. PortType
    BY <1>0, <1>6 DEF Reset, TypeOK, PortType
  <2>3. /\ led' \in [Board -> Leds] /\ phase' \in [Board -> Phases]
        /\ code' \in [Board -> ErrorCodes] /\ CauseType
    BY <1>0, <1>2, <1>6 DEF Reset, TypeOK, Leds
  <2>4. lcd' \in BOOLEAN
    BY <1>0, <1>6 DEF Reset, TypeOK
  <2>5. screen' \in Screens
    BY <1>0, <1>6, BlankType DEF Reset, TypeOK
  <2> QED BY <1>0, <1>places, <1>6, <2>1, <2>2, <2>3, <2>4, <2>5 DEF Reset, TypeOK, GoTo, BoardType, ShownType
<1>7. ASSUME NEW b \in Board, NEW ph \in Phases, NEW error \in ErrorCodes, GoesOn(b, ph, error)
      PROVE  BoardType
  <2>1. ShownType
    BY <1>0, <1>7, ShownSets DEF GoesOn, ShownType
  <2> QED BY <1>0, <1>places, <1>1, <1>7, <2>1 DEF GoesOn, GoTo, TypeOK, BoardType, BuiltType, PortType
<1>8. ASSUME NEW b \in Board, NEW error \in ErrorCodes \ {0}, Stops(b, error)
      PROVE  BoardType
  <2>1. ShownType
    BY <1>0, <1>2, <1>8, ShownSets DEF Stops, ShownType
  <2> QED BY <1>0, <1>places, <1>1, <1>8, <2>1 DEF Stops, GoTo, Blames, TypeOK, BoardType, BuiltType, PortType
<1>9. ASSUME PeerShown PROVE BoardType
  <2>1. PICK error \in ErrorCodes : Draw("H743", [title |-> "VERIFIER", phase |-> "ERROR", code |-> error])
    BY <1>9 DEF PeerShown
  <2>2. [title |-> "VERIFIER", phase |-> "ERROR", code |-> error] \in Screens
    BY <1>2 DEF Screens
  <2>3. screen' \in Screens
    BY <1>0, <2>1, <2>2, BlankType DEF Draw, TypeOK
  <2>4. lcd' \in BOOLEAN
    BY <1>0, <2>1 DEF Draw, TypeOK
  <2>5. ShownType
    BY <1>0, <1>2, <1>9, <2>3, <2>4 DEF PeerShown, TypeOK, Leds, ShownType
  <2>6. PortType /\ WhereType /\ CauseType
    BY <1>0, <1>places, <1>9 DEF PeerShown, TypeOK, PortType
  <2>7. BuiltType
    BY <1>0, <1>1, <1>9 DEF PeerShown, TypeOK, BuiltType
  <2> QED BY <2>5, <2>6, <2>7 DEF BoardType
<1>10. ASSUME LinkOnly PROVE BoardType
  <2>1. /\ led' \in [Board -> Leds] /\ phase' \in [Board -> Phases] /\ code' \in [Board -> ErrorCodes]
        /\ screen' \in Screens
    BY <1>0, <1>10 DEF LinkOnly, TypeOK, Leds
  <2>2. lcd' \in BOOLEAN
    BY <1>0, <1>10 DEF LinkOnly, TypeOK
  <2>3. PortType /\ WhereType /\ CauseType
    BY <1>0, <1>places, <1>10 DEF LinkOnly, TypeOK, PortType
  <2>4. BuiltType
    BY <1>0, <1>1, <1>10 DEF LinkOnly, TypeOK, BuiltType
  <2> QED BY <2>1, <2>2, <2>3, <2>4 DEF BoardType, ShownType
<1>moves. ASSUME NEW b \in Board, MovesOn(b) PROVE BoardType
  <2>1. /\ led' \in [Board -> Leds] /\ phase' \in [Board -> Phases] /\ code' \in [Board -> ErrorCodes]
        /\ screen' \in Screens
    BY <1>0, <1>moves DEF MovesOn, TypeOK, Leds
  <2>2. lcd' \in BOOLEAN
    BY <1>0, <1>moves DEF MovesOn, TypeOK
  <2>3. PortType /\ CauseType
    BY <1>0, <1>moves DEF MovesOn, TypeOK, PortType
  <2>4. WhereType
    BY <1>places, <1>moves DEF MovesOn, GoTo
  <2>5. BuiltType
    BY <1>0, <1>1, <1>moves DEF MovesOn, TypeOK, BuiltType
  <2> QED BY <2>1, <2>2, <2>3, <2>4, <2>5 DEF BoardType, ShownType
<1>11. BoardType
  BY <1>0, <1>3, <1>4, <1>5, <1>6, <1>7, <1>8, <1>9, <1>10, <1>moves, Kinds DEF Kind
<1> USE DEF BoardType, BuiltType, PortType, ShownType
<1>12. \A b \in Board : Required(b)' = Required(b) /\ Checks(b)' = Checks(b)
  BY <1>11, BuiltKeeps
<1>13. /\ production' \in BOOLEAN
       /\ \A b \in Board : defects'[b] \subseteq Required(b)' /\ step'[b] \in 1 .. Len(Checks(b)')
  BY <1>0, <1>11, <1>12 DEF TypeOK
<1>14. defects' \in [Board -> SUBSET UNION {Required(b)' : b \in Board}]
  <2>1. {Required(b)' : b \in Board} = {Required(b) : b \in Board}
    BY <1>12
  <2> QED BY <1>0, <1>places, <1>11, <2>1 DEF TypeOK
<1> QED BY <1>11, <1>13, <1>14, LinkTypes DEF TypeOK, Leds, Places

-----------------------------------------------------------------------------
(* The invariant.                                                          *)

\* A board that has passed all its checks has no defects, for they are all it needs.
LEMMA PassedAll ==
  ASSUME IInv, NEW b \in Board, LoadSucceeds(b)
  PROVE  defects[b] = {}
<1>1. /\ step[b] = Len(Checks(b)) /\ Checks(b)[step[b]] \notin defects[b]
      /\ \A k \in 1 .. step[b] - 1 : Checks(b)[k] \notin defects[b]
  BY DEF LoadSucceeds, Last, Check, IInv, PassedSoFar
<1>2. /\ defects[b] \subseteq Required(b) /\ Required(b) = Elements(Checks(b))
      /\ Len(Checks(b)) \in Nat
  BY ChecksAreRequired DEF IInv, TypeOK
<1>3. \A k \in 1 .. Len(Checks(b)) : Checks(b)[k] \notin defects[b]
  <2>1. ASSUME NEW k \in 1 .. Len(Checks(b)) PROVE k = step[b] \/ k \in 1 .. step[b] - 1
    BY <1>1, <1>2
  <2> QED BY <1>1, <2>1
<1> QED BY <1>2, <1>3 DEF Elements

LEMMA ChecksStep == ASSUME IInv, [Next]_vars PROVE PassedSoFar' /\ DefectiveStaysOut'
<1> DEFINE Passed == \A b \in Board : at'[b] = "boot" =>
                       \A k \in 1 .. step'[b] - 1 : Checks(b)[k] \notin defects[b]
           Sound == \A b \in Board : at'[b] \in Serving => defects[b] = {}
<1>0. TypeOK /\ PassedSoFar /\ DefectiveStaysOut
  BY DEF IInv
<1> USE <1>0 DEF PassedSoFar, DefectiveStaysOut, GoTo, built
<1>1. /\ at \in [Board -> Places] /\ step \in [Board -> Nat]
      /\ "boot" \notin Serving /\ "fatal" \notin Serving /\ "halted" \notin Serving
      /\ "loop" \in Serving
  BY ServingPlaces DEF TypeOK, Places
<1>2. ASSUME NEW b \in Board, CheckPasses(b) PROVE Passed /\ Sound
  <2>1. /\ at' = at /\ step' = [step EXCEPT ![b] = step[b] + 1]
        /\ Checks(b)[step[b]] \notin defects[b] /\ at[b] = "boot"
    BY <1>2 DEF CheckPasses, Check
  <2>2. ASSUME NEW k \in 1 .. step[b] + 1 - 1 PROVE k = step[b] \/ k \in 1 .. step[b] - 1
    BY <1>1
  <2>3. \A k \in 1 .. step[b] + 1 - 1 : Checks(b)[k] \notin defects[b]
    BY <2>1, <2>2
  <2>4. step'[b] = step[b] + 1 /\ \A c \in Board \ {b} : step'[c] = step[c]
    BY <1>1, <2>1
  <2>5. Passed
    <3>1. SUFFICES ASSUME NEW c \in Board, at'[c] = "boot"
                   PROVE  \A k \in 1 .. step'[c] - 1 : Checks(c)[k] \notin defects[c]
      OBVIOUS
    <3>2. CASE c = b
      <4>1. step'[b] - 1 = step[b] + 1 - 1
        BY <1>1, <2>4
      <4> QED BY <2>3, <3>2, <4>1
    <3>3. CASE c # b
      BY <2>1, <2>4, <3>1, <3>3
    <3> QED BY <3>2, <3>3
  <2>6. Sound
    BY <2>1
  <2> QED BY <2>5, <2>6
<1>3. ASSUME NEW b \in Board, LoadSucceeds(b) PROVE Passed /\ Sound
  BY <1>1, <1>3, PassedAll DEF LoadSucceeds
<1>4. ASSUME NEW b \in Board, Fatal(b) PROVE Passed /\ Sound
  BY <1>1, <1>4 DEF Fatal
<1>5. ASSUME NEW b \in Board, Reset(b) PROVE Passed /\ Sound
  <2>1. 1 .. 1 - 1 = {}
    OBVIOUS
  <2> QED BY <1>1, <1>5, <2>1 DEF Reset
<1>6. ASSUME NEW b \in Board, NEW ph \in Phases, NEW error \in ErrorCodes, GoesOn(b, ph, error)
      PROVE  Passed /\ Sound
  BY <1>1, <1>6 DEF GoesOn
<1>7. ASSUME NEW b \in Board, NEW error \in ErrorCodes \ {0}, Stops(b, error)
      PROVE  Passed /\ Sound
  BY <1>1, <1>7 DEF Stops
<1>moves. ASSUME NEW b \in Board, MovesOn(b) PROVE Passed /\ Sound
  BY <1>1, <1>moves DEF MovesOn
<1>8. ASSUME PeerShown \/ LinkOnly PROVE Passed /\ Sound
  BY <1>8 DEF PeerShown, LinkOnly
<1>9. Passed /\ Sound
  BY <1>2, <1>3, <1>4, <1>5, <1>6, <1>7, <1>8, <1>moves, Kinds DEF Kind
<1>10. production' = production /\ defects' = defects
  BY TypeStep, Kinds
     DEF Kind, CheckPasses, LoadSucceeds, Fatal, Reset, GoesOn, Stops, MovesOn, PeerShown, LinkOnly
<1>11. \A b \in Board : Checks(b)' = Checks(b)
  BY <1>10, BuiltKeeps
<1> QED BY <1>9, <1>10, <1>11

\* The error a board stops for is not lost on its way through two reports.
LEMMA StopStep == ASSUME IInv, [Next]_vars PROVE FatalKnowsCause' /\ StoppedNamesCause'
<1>0. TypeOK /\ FatalKnowsCause /\ StoppedNamesCause
  BY DEF IInv
<1>1. /\ at \in [Board -> Places]
      /\ code \in [Board -> ErrorCodes] /\ cause \in [Board -> ErrorCodes]
      /\ led \in [Board -> Leds] /\ gpio \in [Board -> BOOLEAN]
      /\ Error.NONE = 0 /\ Board = {"H743", "G431"} /\ "ERROR" \in Phases
      /\ "fatal" \notin Serving /\ "halted" \notin Serving
  BY <1>0, ErrorNumbers, ServingPlaces DEF TypeOK, Leds, Board, Phases, Places
<1> USE <1>0 DEF FatalKnowsCause, StoppedNamesCause, GoTo, Blames, display
<1>2. ASSUME NEW b \in Board, CheckPasses(b) PROVE FatalKnowsCause' /\ StoppedNamesCause'
  <2>1. UNCHANGED <<at, led, code, screen, cause>> /\ at[b] = "boot"
    BY <1>2 DEF CheckPasses
  <2>2. at["H743"] = "halted" => lcd' = lcd
    <3>1. b = "G431" => Checks(b)[step[b]] # "LCD"
      <4>1. Checks("G431")[step["G431"]] \in Required("G431")
        <5>1. step["G431"] \in 1 .. Len(Checks("G431")) /\ "G431" \in Board
          BY <1>1 DEF TypeOK
        <5> QED BY <5>1, ChecksAreRequired DEF Elements
      <4> QED BY <4>1 DEF Required
    <3>2. b = "H743" => at["H743"] # "halted"
      BY <2>1
    <3>3. b = "G431" => lcd' = (lcd \/ FALSE)
      BY <1>2, <3>1 DEF CheckPasses, Check
    <3>4. lcd \in BOOLEAN
      BY DEF TypeOK
    <3> QED BY <1>1, <3>2, <3>3, <3>4
  <2> QED BY <1>1, <2>1, <2>2
<1>3. ASSUME NEW b \in Board, LoadSucceeds(b) PROVE FatalKnowsCause' /\ StoppedNamesCause'
  <2>1. "READY" \in Phases /\ 0 \in ErrorCodes
    BY DEF Phases, ErrorCodes
  <2>2. Shown(b, "READY", 0)
    BY <1>3, <2>1, UiShows DEF LoadSucceeds
  <2>3. at' = [at EXCEPT ![b] = "loop"] /\ cause' = cause
    BY <1>3 DEF LoadSucceeds
  <2>4. /\ \A c \in Board \ {b} : code'[c] = code[c] /\ led'[c] = led[c]
        /\ b = "G431" => UNCHANGED display
    BY <2>1, <2>2, ShownSets
  <2> QED BY <1>1, <2>3, <2>4
<1>4. ASSUME NEW b \in Board, Fatal(b) PROVE FatalKnowsCause' /\ StoppedNamesCause'
  <2>1. /\ at[b] = "fatal" /\ at' = [at EXCEPT ![b] = "halted"] /\ cause' = cause
        /\ code[b] = cause[b] /\ cause[b] # 0
    BY <1>1, <1>4 DEF Fatal
  <2>2. code' = code
    BY <1>1, <1>4, <2>1 DEF Fatal
  <2>3. b = "H743" /\ lcd' => screen' = Own("ERROR", cause[b])
    BY <1>1, <1>4, <2>1, <2>2 DEF Fatal, Draw
  <2>4. b = "G431" => UNCHANGED display
    BY <1>4 DEF Fatal, Draw
  <2>5. b = "G431" => led'[b] = "flashing"
    BY <1>1, <1>4 DEF Fatal
  <2>6. \A c \in Board \ {b} : led'[c] = led[c]
    BY <1>1, <1>4 DEF Fatal
  <2> QED BY <1>1, <2>1, <2>2, <2>3, <2>4, <2>5, <2>6
<1>5. ASSUME NEW b \in Board, Reset(b) PROVE FatalKnowsCause' /\ StoppedNamesCause'
  BY <1>1, <1>5 DEF Reset
<1>6. ASSUME NEW b \in Board, NEW ph \in Phases, NEW error \in ErrorCodes, GoesOn(b, ph, error)
      PROVE  FatalKnowsCause' /\ StoppedNamesCause'
  <2>1. /\ \A c \in Board \ {b} : code'[c] = code[c] /\ led'[c] = led[c]
        /\ b = "G431" => UNCHANGED display
    BY <1>6, ShownSets DEF GoesOn
  <2>2. /\ cause' = cause /\ at'[b] \in Serving
        /\ \A c \in Board \ {b} : at'[c] = at[c]
    BY <1>1, <1>6 DEF GoesOn
  <2> QED BY <1>1, <2>1, <2>2
<1>7. ASSUME NEW b \in Board, NEW error \in ErrorCodes \ {0}, Stops(b, error)
      PROVE  FatalKnowsCause' /\ StoppedNamesCause'
  <2>1. /\ code'[b] = error
        /\ \A c \in Board \ {b} : code'[c] = code[c] /\ led'[c] = led[c]
        /\ b = "G431" => UNCHANGED display
    BY <1>1, <1>7, ShownSets DEF Stops
  <2>2. /\ cause'[b] = error /\ at'[b] = "fatal"
        /\ \A c \in Board \ {b} : at'[c] = at[c] /\ cause'[c] = cause[c]
    BY <1>1, <1>7 DEF Stops
  <2> QED BY <1>1, <2>1, <2>2
<1>moves. ASSUME NEW b \in Board, MovesOn(b) PROVE FatalKnowsCause' /\ StoppedNamesCause'
  <2>1. /\ UNCHANGED <<led, code, display, cause>> /\ at'[b] \in Serving
        /\ \A c \in Board \ {b} : at'[c] = at[c]
    BY <1>1, <1>moves DEF MovesOn
  <2> QED BY <1>1, <2>1
<1>8. ASSUME PeerShown PROVE FatalKnowsCause' /\ StoppedNamesCause'
  <2>1. UNCHANGED <<at, led, code, cause>> /\ at["H743"] = "loop"
    BY <1>8 DEF PeerShown
  <2> QED BY <1>1, <2>1
<1>9. ASSUME LinkOnly PROVE FatalKnowsCause' /\ StoppedNamesCause'
  BY <1>9 DEF LinkOnly
<1> QED BY <1>2, <1>3, <1>4, <1>5, <1>6, <1>7, <1>8, <1>9, <1>moves, Kinds DEF Kind

\* The screen of the H743 is its own, whatever the G431 shows.
LEMMA ScreenStep == ASSUME IInv, [Next]_vars PROVE BlankAtBoot' /\ ScreenAgrees'
<1>0. TypeOK /\ BlankAtBoot /\ ScreenAgrees /\ FatalKnowsCause
  BY DEF IInv
<1>1. /\ at \in [Board -> Places]
      /\ code \in [Board -> ErrorCodes] /\ phase \in [Board -> Phases]
      /\ Error.NONE = 0 /\ Board = {"H743", "G431"} /\ "ERROR" \in Phases
      /\ Blank.title = "" /\ "boot" \notin Serving
  BY <1>0, ErrorNumbers, ServingPlaces DEF TypeOK, Board, Phases, Blank, Places
\* Own is the state of the H743, and ScreenAgrees asks that of it.
<1>own. ASSUME lcd' => screen' = Own(phase'["H743"], code'["H743"]) PROVE ScreenAgrees'
  <2>1. SUFFICES ASSUME lcd'
                 PROVE  /\ screen'.title = "SIMPLE PROVER"
                        /\ screen'.phase = phase'["H743"] /\ screen'.code = code'["H743"]
    BY DEF ScreenAgrees
  <2>2. screen' = Own(phase'["H743"], code'["H743"])
    BY <1>own, <2>1
  <2> QED BY <2>2 DEF Own
<1> USE DEF BlankAtBoot, ScreenAgrees, GoTo, display
\* A step that shows a phase or an error of the H743, and one that shows the G431's.
<1>2. ASSUME NEW ph \in Phases, NEW error \in ErrorCodes, Shown("H743", ph, error), at'["H743"] # "boot"
      PROVE  BlankAtBoot' /\ ScreenAgrees'
  <2>1. /\ lcd' => screen' = Own(ph, error)
        /\ phase'["H743"] = ph /\ code'["H743"] = error
    <3>1. "H743" \in Board
      BY <1>1
    <3>2. phase'["H743"] = ph /\ code'["H743"] = error
      BY <1>0, <1>2, <3>1, ShownSets
    <3>3. ASSUME lcd' PROVE screen' = Own(ph, error)
      BY <1>2, <3>3 DEF Shown, Draw
    <3> QED BY <3>2, <3>3
  <2>2. BlankAtBoot'
    BY <1>2
  <2>3. ScreenAgrees'
    BY <1>own, <2>1
  <2> QED BY <2>2, <2>3
<1>3. ASSUME at'["H743"] = at["H743"], phase'["H743"] = phase["H743"], code'["H743"] = code["H743"],
             UNCHANGED display
      PROVE  BlankAtBoot' /\ ScreenAgrees'
  BY <1>0, <1>3
<1>4. ASSUME NEW b \in Board, CheckPasses(b) PROVE BlankAtBoot' /\ ScreenAgrees'
  <2>1. UNCHANGED <<at, phase, code, screen>> /\ at[b] = "boot"
    BY <1>4 DEF CheckPasses
  <2>2. CASE b = "H743"
    <3>1. screen = Blank
      BY <1>0, <2>1, <2>2
    <3> QED BY <1>1, <2>1, <2>2, <3>1
  <2>3. CASE b = "G431"
    <3>1. Checks(b)[step[b]] # "LCD"
      <4>1. Checks("G431")[step["G431"]] \in Required("G431")
        <5>1. step["G431"] \in 1 .. Len(Checks("G431")) /\ "G431" \in Board
          BY <1>0, <1>1 DEF TypeOK
        <5> QED BY <5>1, ChecksAreRequired DEF Elements
      <4> QED BY <2>3, <4>1 DEF Required
    <3>2. lcd' = (lcd \/ FALSE)
      BY <1>4, <3>1 DEF CheckPasses, Check
    <3>3. lcd \in BOOLEAN
      BY <1>0 DEF TypeOK
    <3>4. lcd' = lcd
      BY <3>2, <3>3
    <3> QED BY <1>3, <2>1, <3>4
  <2> QED BY <1>1, <2>2, <2>3
<1>5. ASSUME NEW b \in Board, LoadSucceeds(b) PROVE BlankAtBoot' /\ ScreenAgrees'
  <2>1. "READY" \in Phases /\ 0 \in ErrorCodes
    BY DEF Phases, ErrorCodes
  <2>2. Shown(b, "READY", 0) /\ at' = [at EXCEPT ![b] = "loop"]
    BY <1>0, <1>5, <2>1, UiShows DEF LoadSucceeds
  <2>3. CASE b = "H743"
    BY <1>1, <1>2, <2>1, <2>2, <2>3
  <2>4. CASE b = "G431"
    BY <1>0, <1>1, <1>3, <2>1, <2>2, <2>4, ShownSets
  <2> QED BY <1>1, <2>3, <2>4
<1>6. ASSUME NEW b \in Board, Fatal(b) PROVE BlankAtBoot' /\ ScreenAgrees'
  <2>1. /\ at[b] = "fatal" /\ at' = [at EXCEPT ![b] = "halted"]
        /\ code[b] # 0 /\ phase' = [phase EXCEPT ![b] = "ERROR"]
    BY <1>0, <1>1, <1>6 DEF Fatal, FatalKnowsCause
  <2>2. code' = code
    BY <1>1, <1>6, <2>1 DEF Fatal
  <2>3. CASE b = "H743"
    <3>1. Draw("H743", Own("ERROR", code["H743"]))
      BY <1>6, <2>2, <2>3 DEF Fatal
    <3>2. lcd' => screen' = Own("ERROR", code["H743"])
      BY <3>1 DEF Draw
    <3>3. phase'["H743"] = "ERROR" /\ at'["H743"] = "halted"
      BY <1>1, <2>1, <2>3
    <3>4. BlankAtBoot'
      BY <3>3
    <3>5. ScreenAgrees'
      BY <1>own, <2>2, <3>2, <3>3
    <3> QED BY <3>4, <3>5
  <2>4. CASE b = "G431"
    <3>1. UNCHANGED display
      BY <1>6, <2>4 DEF Fatal, Draw
    <3> QED BY <1>1, <1>3, <2>1, <2>2, <2>4, <3>1
  <2> QED BY <1>1, <2>3, <2>4
<1>7. ASSUME NEW b \in Board, Reset(b) PROVE BlankAtBoot' /\ ScreenAgrees'
  <2>1. CASE b = "H743"
    BY <1>1, <1>7, <2>1 DEF Reset
  <2>2. CASE b = "G431"
    BY <1>1, <1>3, <1>7, <2>2 DEF Reset
  <2> QED BY <1>1, <2>1, <2>2
<1>8. ASSUME NEW b \in Board, NEW ph \in Phases, NEW error \in ErrorCodes, GoesOn(b, ph, error)
      PROVE  BlankAtBoot' /\ ScreenAgrees'
  <2>1. at'[b] # "boot" /\ \A c \in Board \ {b} : at'[c] = at[c]
    BY <1>1, <1>8 DEF GoesOn
  <2>2. CASE b = "H743"
    BY <1>2, <1>8, <2>1, <2>2 DEF GoesOn
  <2>3. CASE b = "G431"
    BY <1>0, <1>1, <1>3, <1>8, <2>1, <2>3, ShownSets DEF GoesOn
  <2> QED BY <1>1, <2>2, <2>3
<1>9. ASSUME NEW b \in Board, NEW error \in ErrorCodes \ {0}, Stops(b, error)
      PROVE  BlankAtBoot' /\ ScreenAgrees'
  <2>1. at'[b] # "boot" /\ \A c \in Board \ {b} : at'[c] = at[c]
    BY <1>1, <1>9 DEF Stops
  <2>2. CASE b = "H743"
    BY <1>1, <1>2, <1>9, <2>1, <2>2 DEF Stops
  <2>3. CASE b = "G431"
    BY <1>0, <1>1, <1>3, <1>9, <2>1, <2>3, ShownSets DEF Stops
  <2> QED BY <1>1, <2>2, <2>3
<1>10. ASSUME PeerShown PROVE BlankAtBoot' /\ ScreenAgrees'
  <2>1. PICK error \in ErrorCodes : Draw("H743", [title |-> "VERIFIER", phase |-> "ERROR", code |-> error])
    BY <1>10 DEF PeerShown
  <2>2. ASSUME lcd' PROVE screen'.title = "VERIFIER"
    <3> DEFINE picture == [title |-> "VERIFIER", phase |-> "ERROR", code |-> error]
    <3>1. picture.title = "VERIFIER"
      OBVIOUS
    <3> HIDE DEF picture
    <3>2. Draw("H743", picture)
      BY <2>1 DEF picture
    <3>3. screen' = picture \/ ~ lcd
      BY <2>2, <3>2 DEF Draw
    <3>4. lcd
      BY <2>2, <3>2 DEF Draw
    <3> QED BY <3>1, <3>3, <3>4
  <2>3. phase'["H743"] = "ERROR" /\ at'["H743"] # "boot"
    BY <1>1, <1>10 DEF PeerShown
  <2>4. BlankAtBoot'
    BY <2>3
  <2>5. ScreenAgrees'
    BY <2>2, <2>3
  <2> QED BY <2>4, <2>5
<1>moves. ASSUME NEW b \in Board, MovesOn(b) PROVE BlankAtBoot' /\ ScreenAgrees'
  <2>1. /\ UNCHANGED <<phase, code, display>> /\ at[b] # "boot" /\ at'[b] # "boot"
        /\ \A c \in Board \ {b} : at'[c] = at[c]
    BY <1>1, <1>moves DEF MovesOn
  <2> QED BY <1>0, <1>1, <2>1
<1>11. ASSUME LinkOnly PROVE BlankAtBoot' /\ ScreenAgrees'
  BY <1>3, <1>11 DEF LinkOnly
<1> QED BY <1>4, <1>5, <1>6, <1>7, <1>8, <1>9, <1>10, <1>11, <1>moves, Kinds DEF Kind, IInv

LEMMA StepKeeps == IInv /\ [Next]_vars => IInv'
BY TypeStep, ChecksStep, StopStep, ScreenStep DEF IInv

\* The inductive invariant of the two boards.
THEOREM IInvHolds == Spec => []IInv
BY InitHolds, StepKeeps, PTL DEF Spec

\* The types of the boards' variables, the frame on the line among them.
THEOREM TypeCorrect == Spec => []TypeOK
<1>1. IInv => TypeOK
  BY DEF IInv
<1> QED BY IInvHolds, <1>1, PTL

\* A board takes part in the protocol only if everything it requires is in order.
THEOREM OnlySoundTakePart == Spec => []DefectiveStaysOut
<1>1. IInv => DefectiveStaysOut
  BY DEF IInv
<1> QED BY IInvHolds, <1>1, PTL

\* A board that has stopped names the failure it stopped for, with its LED, or on its
\* LCD unless a transfer to it has failed.
THEOREM StopsForCause == Spec => []StoppedNamesCause
<1>1. IInv => StoppedNamesCause
  BY DEF IInv
<1> QED BY IInvHolds, <1>1, PTL

\* Until a transfer to it fails, the LCD agrees with the H743, whatever the G431 and
\* the line do.
THEOREM ScreenTrue == Spec => []ScreenAgrees
<1>1. IInv => ScreenAgrees
  BY DEF IInv
<1> QED BY IInvHolds, <1>1, PTL
=============================================================================
