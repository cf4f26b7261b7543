---------------------------- MODULE FrameStream ----------------------------
(***************************************************************************)
(* What a receiver promises of a stream of bytes (docs/protocol.md, UART   *)
(* framing): between two delimiters there is a frame exactly when the      *)
(* bytes are the encoding of one, all of them arrived without an error and *)
(* the delimiter came before the deadline of the first.                    *)
(***************************************************************************)
EXTENDS Naturals, Sequences

CONSTANTS
  Byte,            \* the bytes there are
  Frame,           \* the frames there are
  Encoding(_),     \* the bytes of a frame
  Longest,         \* more bytes than any frame has need not be remembered
  Deadline         \* of a frame, in ms

VARIABLES
  arrived,  \* the bytes since the last delimiter
  age,      \* ms since the first of them
  spoilt,   \* they are known not to make a frame
  outcome   \* what the last byte brought: nothing, an error, or a frame

Nothing == [type |-> "none", payload |-> <<>>]
Failed == [type |-> "error", payload |-> <<>>]

stream == <<arrived, age, spoilt, outcome>>

Init == arrived = <<>> /\ age = 0 /\ spoilt = FALSE /\ outcome = Nothing

Late == arrived # <<>> /\ age >= Deadline

Pass ==
  /\ age' = IF arrived = <<>> THEN 0 ELSE age + 1
  /\ outcome' = Nothing
  /\ UNCHANGED <<arrived, spoilt>>

Data ==
  /\ ~ spoilt
  /\ \E byte \in Byte \ {0} : arrived' = Append(arrived, byte)
  /\ outcome' = Nothing
  /\ UNCHANGED <<age, spoilt>>

Spoil(result) ==
  /\ arrived' = <<>> /\ age' = 0 /\ spoilt' = TRUE
  /\ outcome' = result

\* Only bytes that can no longer make a frame are given up without an error.
DataLost == (spoilt \/ Late \/ Len(arrived) >= Longest) /\ Spoil(Nothing)
LinkError == Spoil(Failed)

DelimiterError ==
  /\ \/ spoilt
     \/ Late
     \/ arrived # <<>> /\ \A f \in Frame : Encoding(f) # arrived
  /\ outcome' = Failed

DelimiterNothing == ~ spoilt /\ arrived = <<>> /\ outcome' = Nothing

DelimiterFrame ==
  /\ ~ spoilt /\ ~ Late
  /\ \E f \in Frame : Encoding(f) = arrived /\ outcome' = f

Delimiter ==
  /\ DelimiterError \/ DelimiterNothing \/ DelimiterFrame
  /\ arrived' = <<>> /\ age' = 0 /\ spoilt' = FALSE

Next == Pass \/ Data \/ DataLost \/ LinkError \/ Delimiter

Spec == Init /\ [][Next]_stream
=============================================================================
