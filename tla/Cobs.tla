-------------------------------- MODULE Cobs --------------------------------
(***************************************************************************)
(* The coding of a frame (core/transport/auth_transport.c): a type byte, a *)
(* length byte and the payload, without zeros, so that a zero can end it.  *)
(*                                                                         *)
(* Encode says what the encoder writes, place by place; Decode follows the *)
(* decoder from code to code.  The zero that ends a frame is left out.     *)
(***************************************************************************)
EXTENDS Naturals, Sequences

CONSTANTS
  RequestLen,  \* SIMPLE_REQUEST_LEN
  ReportLen    \* SIMPLE_REPORT_LEN

\* A code is one more than the bytes it counts, and none of them reaches 255.
ASSUME LengthAssumption ==
  /\ ReportLen \in Nat \ {0} /\ RequestLen \in Nat
  /\ ReportLen <= RequestLen /\ RequestLen + 3 < 255

PayloadLen == [request |-> RequestLen, response |-> ReportLen, diagnostic |-> 1]
TypeByte == [request |-> 1, response |-> 2, diagnostic |-> 3]
Types == DOMAIN TypeByte

\* The frames whose payloads consist of the given bytes.
Frames(Byte) ==
  UNION { [type: {t}, payload: [1 .. PayloadLen[t] -> Byte]] : t \in Types }

RawSize == RequestLen + 2
EncodedSize == RequestLen + 4

\* Each zero, and one put in front, becomes the distance to the next one.
Encode(frame) ==
  LET raw == <<TypeByte[frame.type], PayloadLen[frame.type]>> \o frame.payload
      delimited == <<0>> \o raw \o <<0>>
      Distance(i) == CHOOSE d \in 1 .. Len(delimited) - i :
                       /\ delimited[i + d] = 0
                       /\ \A e \in 1 .. d - 1 : delimited[i + e] # 0
  IN [i \in 1 .. Len(raw) + 1 |->
        IF delimited[i] = 0 THEN Distance(i) ELSE delimited[i]]

\* Faulty: every block is followed by a zero, the last one, too.
UnstuffLast(encoded) ==
  LET From[i \in 1 .. Len(encoded) + 1] ==
        LET last == i + encoded[i] - 1
        IN IF i > Len(encoded) THEN {<<>>}
           ELSE IF last > Len(encoded) THEN {}
           ELSE {SubSeq(encoded, i + 1, last) \o <<0>> \o rest : rest \in From[last + 1]}
  IN From[1]
\* The one sequence of raw bytes that is encoded, or none: a code may point past
\* the end.
Unstuff(encoded) ==
  LET From[i \in 1 .. Len(encoded) + 1] ==
        LET last == i + encoded[i] - 1
            zero == IF last < Len(encoded) THEN <<0>> ELSE <<>>
        IN IF i > Len(encoded) THEN {<<>>}
           ELSE IF last > Len(encoded) THEN {}
           ELSE {SubSeq(encoded, i + 1, last) \o zero \o rest : rest \in From[last + 1]}
  IN From[1]

\* The one frame that is encoded, or none.
Decode(encoded) ==
  LET Whole == {raw \in Unstuff(encoded) :
                  2 <= Len(raw) /\ Len(raw) <= RawSize /\ raw[2] = Len(raw) - 2}
      TypeOf(raw) == {t \in Types : raw[1] = TypeByte[t] /\ raw[2] = PayloadLen[t]}
  IN UNION { { [type |-> t, payload |-> SubSeq(raw, 3, Len(raw))] : t \in TypeOf(raw) }
               : raw \in Whole }
=============================================================================
