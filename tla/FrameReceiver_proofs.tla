------------------------ MODULE FrameReceiver_proofs ------------------------
(***************************************************************************)
(* Theorems about the coding of frames and about the receiver, for any     *)
(* lengths, any bytes and any timer.                                       *)
(*                                                                         *)
(* The raw bytes behind the encoded ones from place i on are described     *)
(* without recursion (Stuffed): the decoder's recursion has exactly them   *)
(* as its only solution, and the encoder is an instance of them.           *)
(***************************************************************************)
EXTENDS FrameReceiver, Integers, SequenceTheorems, WellFoundedInduction, TLAPS

\* The encoded bytes a receiver can hold, as far as the coding goes.
NonZero == Nat \ {0}

-----------------------------------------------------------------------------
(* The least number of a set.                                              *)

LEMMA Least ==
  ASSUME NEW T \in SUBSET Nat, T # {}
  PROVE  \E n \in T : \A m \in T : n <= m
<1> DEFINE R == {ss \in Nat \X Nat : ss[1] < ss[2]}
<1>1. IsWellFoundedOn(R, Nat)
  BY NatLessThanWellFounded DEF OpToRel
<1>2. \A x, y \in Nat : <<y, x>> \in R <=> y < x
  OBVIOUS
<1> HIDE DEF R
<1>3. PICK x \in T : \A y \in T : ~ (<<y, x>> \in R)
  BY <1>1, WFMin
<1>4. \A m \in T : ~ m < x
  BY <1>2, <1>3
<1> QED BY <1>4

\* Two sets that agree wherever they agree on everything behind agree.
LEMMA Backwards ==
  ASSUME NEW n \in Nat, NEW same \in SUBSET (1 .. n),
         \A i \in 1 .. n : (\A j \in i + 1 .. n : j \in same) => i \in same
  PROVE  \A i \in 1 .. n : i \in same
<1> DEFINE T == {d \in 0 .. n - 1 : n - d \notin same}
<1>1. CASE T = {}
  <2>1. ASSUME NEW i \in 1 .. n PROVE i \in same
    <3>1. n - i \in 0 .. n - 1 /\ n - (n - i) = i
      OBVIOUS
    <3> QED BY <1>1, <3>1
  <2> QED BY <2>1
<1>2. CASE T # {}
  <2>1. T \in SUBSET Nat
    OBVIOUS
  <2>2. PICK d \in T : \A m \in T : d <= m
    BY <1>2, <2>1, Least
  <2>3. d \in 0 .. n - 1 /\ n - d \notin same /\ n - d \in 1 .. n
    BY <2>2
  <2>4. ASSUME NEW j \in (n - d) + 1 .. n PROVE j \in same
    <3>1. n - j \in 0 .. n - 1 /\ n - j < d /\ n - (n - j) = j
      BY <2>3
    <3>2. n - j \notin T
      BY <2>2, <2>3, <3>1
    <3> QED BY <3>1, <3>2
  <2> QED BY <2>3, <2>4
<1> QED BY <1>1, <1>2

-----------------------------------------------------------------------------
(* The raw bytes behind the codes.                                         *)

\* What stands at place j, the raw bytes starting behind place i, zeros around them.
At(raw, i, j) == IF j - i \in 1 .. Len(raw) THEN raw[j - i] ELSE 0

\* The bytes of e from place i on, where a code stands, are these raw bytes: each
\* zero is the distance to the next.
Stuffed(raw, e, i) ==
  /\ Len(raw) = Len(e) - i
  /\ \A j \in i .. Len(e) :
       IF At(raw, i, j) = 0
       THEN /\ j + e[j] <= Len(e) + 1
            /\ At(raw, i, j + e[j]) = 0
            /\ \A k \in j + 1 .. j + e[j] - 1 : At(raw, i, k) # 0
       ELSE e[j] = At(raw, i, j)

Raws(e, i) == {raw \in Seq(Nat) : Stuffed(raw, e, i)}

\* A block, a zero, and what there is from place m on.
Joined(e, i, m) == {SubSeq(e, i + 1, m - 1) \o <<0>> \o rest : rest \in Raws(e, m)}

\* All there are from every place on.
Solution(e) == [i \in 1 .. Len(e) + 1 |-> IF i > Len(e) THEN {<<>>} ELSE Raws(e, i)]

\* The decoder's recursion.
FromPlace(e, from, i) ==
  LET last == i + e[i] - 1
      zero == IF last < Len(e) THEN <<0>> ELSE <<>>
  IN IF i > Len(e) THEN {<<>>}
     ELSE IF last > Len(e) THEN {}
     ELSE {SubSeq(e, i + 1, last) \o zero \o rest : rest \in from[last + 1]}
Body(e, from) == [i \in 1 .. Len(e) + 1 |-> FromPlace(e, from, i)]
From(e) == CHOOSE from : from = Body(e, from)

LEMMA UnstuffIsFrom == ASSUME NEW e PROVE Unstuff(e) = From(e)[1]
BY DEF Unstuff, From, Body, FromPlace

LEMMA EncodedTypes ==
  ASSUME NEW e \in Seq(NonZero)
  PROVE  /\ Len(e) \in Nat
         /\ \A i \in 1 .. Len(e) : e[i] \in Nat /\ 1 <= e[i]
<1>1. \A i \in 1 .. Len(e) : e[i] \in NonZero
  BY ElementOfSeq
<1>2. \A n \in NonZero : n \in Nat /\ 1 <= n
  BY DEF NonZero
<1> QED BY <1>1, <1>2, LenProperties

\* The bytes up to the end of a block, the zero behind it, and the rest.
LEMMA BlockThenRest ==
  ASSUME NEW e \in Seq(NonZero), NEW i \in 1 .. Len(e), NEW last \in i .. Len(e) - 1,
         NEW rest \in Seq(Nat)
  PROVE  LET raw == SubSeq(e, i + 1, last) \o <<0>> \o rest
         IN /\ raw \in Seq(Nat) /\ Len(raw) = (last - i) + 1 + Len(rest)
            /\ \A k \in 1 .. Len(raw) :
                 raw[k] = IF k <= last - i THEN e[i + k]
                          ELSE IF k = last - i + 1 THEN 0 ELSE rest[k - (last - i + 1)]
<1> DEFINE block == SubSeq(e, i + 1, last)
           front == block \o <<0>>
           raw == front \o rest
<1>1. Len(e) \in Nat /\ i \in Nat /\ last \in Nat /\ \A k \in 1 .. Len(e) : e[k] \in Nat
  BY EncodedTypes
<1>2. /\ block \in Seq(Nat)
      /\ Len(block) = last - i
      /\ \A k \in 1 .. last - i : block[k] = e[i + k]
  <2>1. \A k \in i + 1 .. last : e[k] \in Nat
    BY <1>1
  <2>2. /\ block \in Seq(Nat)
        /\ Len(block) = IF i + 1 <= last THEN last - (i + 1) + 1 ELSE 0
        /\ \A k \in 1 .. last - (i + 1) + 1 : block[k] = e[(i + 1) + k - 1]
    BY <1>1, <2>1, SubSeqProperties
  <2>3. last - (i + 1) + 1 = last - i /\ \A k \in Int : (i + 1) + k - 1 = i + k
    BY <1>1
  <2> QED BY <1>1, <2>2, <2>3
<1> HIDE DEF block
<1>3. /\ front \in Seq(Nat) /\ Len(front) = (last - i) + 1
      /\ \A k \in 1 .. (last - i) + 1 : front[k] = IF k <= last - i THEN e[i + k] ELSE 0
  <2> DEFINE zero == <<0>>
  <2>1. zero \in Seq(Nat) /\ Len(zero) = 1 /\ zero[1] = 0
    OBVIOUS
  <2> HIDE DEF zero
  <2>2. /\ block \o zero \in Seq(Nat) /\ Len(block \o zero) = (last - i) + 1
        /\ \A k \in 1 .. (last - i) + 1 :
             (block \o zero)[k] = IF k <= last - i THEN block[k] ELSE zero[k - (last - i)]
    <3>1. /\ block \o zero \in Seq(Nat) /\ Len(block \o zero) = Len(block) + Len(zero)
          /\ \A k \in 1 .. Len(block) + Len(zero) :
               (block \o zero)[k] = IF k <= Len(block) THEN block[k] ELSE zero[k - Len(block)]
      BY <1>2, <2>1, ConcatProperties
    <3> QED BY <1>2, <2>1, <3>1
  <2>3. last - i \in Nat
    BY <1>1
  <2>4. ASSUME NEW k \in 1 .. (last - i) + 1
        PROVE  (block \o zero)[k] = IF k <= last - i THEN e[i + k] ELSE 0
    <3>1. CASE k <= last - i
      BY <1>2, <2>2, <2>3, <3>1
    <3>2. CASE ~ k <= last - i
      <4>1. k - (last - i) = 1
        BY <2>3, <3>2
      <4> QED BY <2>1, <2>2, <3>2, <4>1
    <3> QED BY <3>1, <3>2
  <2> QED BY <2>2, <2>4 DEF zero
<1> HIDE DEF front
<1>4. /\ raw \in Seq(Nat) /\ Len(raw) = Len(front) + Len(rest)
      /\ \A k \in 1 .. Len(front) + Len(rest) :
           raw[k] = IF k <= Len(front) THEN front[k] ELSE rest[k - Len(front)]
  BY <1>3, ConcatProperties
<1>5. Len(rest) \in Nat
  BY LenProperties
<1>6. ASSUME NEW k \in 1 .. Len(raw)
      PROVE  raw[k] = IF k <= last - i THEN e[i + k]
                      ELSE IF k = last - i + 1 THEN 0 ELSE rest[k - (last - i + 1)]
  <2> HIDE DEF raw
  <2>1. k \in 1 .. Len(front) + Len(rest) /\ Len(front) = last - i + 1
    BY <1>3, <1>4
  <2>2. raw[k] = IF k <= last - i + 1 THEN front[k] ELSE rest[k - (last - i + 1)]
    BY <1>4, <2>1
  <2>3. last - i \in Nat /\ k \in Nat /\ 1 <= k
    BY <1>1, <2>1
  <2>4. CASE k <= last - i + 1
    <3>1. front[k] = IF k <= last - i THEN e[i + k] ELSE 0
      BY <1>3, <2>3, <2>4
    <3>2. ~ k <= last - i => k = last - i + 1
      BY <2>3, <2>4
    <3> QED BY <2>2, <2>4, <3>1, <3>2
  <2>5. CASE ~ k <= last - i + 1
    <3>1. ~ k <= last - i /\ k # last - i + 1
      BY <2>3, <2>5
    <3> QED BY <2>2, <2>5, <3>1
  <2> QED BY <2>4, <2>5
<1> QED BY <1>3, <1>4, <1>6 DEF block, front

\* Codes and bytes, none of them zero.
Codes(e, n) == n \in Nat /\ Len(e) = n /\ \A k \in 1 .. n : e[k] \in Nat /\ 1 <= e[k]

LEMMA AtIs ==
  ASSUME NEW raw, NEW n \in Nat, NEW i \in 1 .. n, Len(raw) = n - i, NEW j \in i .. n + 1
  PROVE  At(raw, i, j) = IF i < j /\ j <= n THEN raw[j - i] ELSE 0
<1>1. j - i \in 1 .. n - i <=> i < j /\ j <= n
  OBVIOUS
<1> QED BY <1>1 DEF At

\* The first code leads to the first zero, and the bytes before it are themselves.
LEMMA FirstBlock ==
  ASSUME NEW e, NEW n, Codes(e, n), NEW i \in 1 .. n, NEW c, e[i] = c,
         NEW raw, Stuffed(raw, e, i)
  PROVE  /\ Len(raw) = n - i /\ i + c <= n + 1
         /\ \A k \in 1 .. c - 1 : raw[k] = e[i + k]
         /\ i + c <= n => raw[c] = 0
<1>1. n \in Nat /\ i \in 1 .. n /\ c \in Nat /\ 1 <= c
  BY DEF Codes
<1>2. Len(raw) = n - i
  BY DEF Stuffed, Codes
<1>3. \A j \in i .. n + 1 : At(raw, i, j) = IF i < j /\ j <= n THEN raw[j - i] ELSE 0
  BY <1>1, <1>2, AtIs
<1>4. At(raw, i, i) = 0
  BY <1>1, <1>3
<1>5. \A j \in i .. n :
        IF At(raw, i, j) = 0
        THEN /\ j + e[j] <= n + 1
             /\ At(raw, i, j + e[j]) = 0
             /\ \A k \in j + 1 .. j + e[j] - 1 : At(raw, i, k) # 0
        ELSE e[j] = At(raw, i, j)
  BY DEF Stuffed, Codes
<1>6. /\ i + c <= n + 1 /\ At(raw, i, i + c) = 0
      /\ \A k \in i + 1 .. i + c - 1 : At(raw, i, k) # 0
  BY <1>1, <1>4, <1>5
<1>7. \A j \in i .. n : At(raw, i, j) # 0 => e[j] = At(raw, i, j)
  BY <1>5
<1>8. ASSUME NEW k \in 1 .. c - 1 PROVE raw[k] = e[i + k]
  <2>1. /\ i + k \in i + 1 .. i + c - 1 /\ i + k \in i .. n /\ i + k \in i .. n + 1
        /\ i < i + k /\ i + k <= n /\ (i + k) - i = k
    BY <1>1, <1>6
  <2> QED BY <1>3, <1>6, <1>7, <2>1
<1>9. ASSUME i + c <= n PROVE raw[c] = 0
  <2>1. i + c \in i .. n + 1 /\ i < i + c /\ (i + c) - i = c
    BY <1>1, <1>6
  <2> QED BY <1>3, <1>6, <1>9, <2>1
<1> QED BY <1>2, <1>6, <1>8, <1>9

\* Where raw bytes begin with a block and a zero, they are right when the rest is.
LEMMA BehindBlock ==
  ASSUME NEW e, NEW n, Codes(e, n), NEW i \in 1 .. n, NEW m \in 1 .. n, e[i] = m - i,
         NEW raw, Len(raw) = n - i, NEW rest, Len(rest) = n - m,
         \A k \in 1 .. m - i - 1 : raw[k] = e[i + k],
         raw[m - i] = 0,
         \A k \in 1 .. n - m : raw[m - i + k] = rest[k]
  PROVE  Stuffed(raw, e, i) <=> Stuffed(rest, e, m)
<1>1. n \in Nat /\ i \in Nat /\ m \in Nat /\ 1 <= i /\ i < m /\ m <= n
  BY DEF Codes
<1>2. \A k \in 1 .. n : e[k] \in Nat /\ e[k] # 0
  BY <1>1 DEF Codes
<1>3. \A j \in i .. n + 1 : At(raw, i, j) = IF i < j /\ j <= n THEN raw[j - i] ELSE 0
  BY <1>1, AtIs
<1>4. \A j \in m .. n + 1 : At(rest, m, j) = IF m < j /\ j <= n THEN rest[j - m] ELSE 0
  BY <1>1, AtIs
<1>5. ASSUME NEW j \in i + 1 .. m - 1 PROVE At(raw, i, j) = e[j] /\ e[j] # 0
  <2>1. /\ j \in i .. n + 1 /\ i < j /\ j <= n /\ j \in 1 .. n
        /\ j - i \in 1 .. m - i - 1 /\ i + (j - i) = j
    BY <1>1
  <2> QED BY <1>2, <1>3, <2>1
<1>6. ASSUME NEW j \in m .. n + 1 PROVE At(raw, i, j) = At(rest, m, j)
  <2>1. j \in i .. n + 1 /\ i < j
    BY <1>1
  <2>2. CASE j = n + 1
    <3>1. ~ j <= n
      BY <1>1, <2>2
    <3> QED BY <1>3, <1>4, <2>1, <3>1
  <2>3. CASE j = m
    <3>1. j <= n /\ ~ m < j /\ j - i = m - i
      BY <1>1, <2>3
    <3> QED BY <1>3, <1>4, <2>1, <3>1
  <2>4. CASE m < j /\ j <= n
    <3>1. j - m \in 1 .. n - m /\ m - i + (j - m) = j - i
      BY <1>1, <2>4
    <3>2. raw[j - i] = rest[j - m]
      BY <3>1
    <3> QED BY <1>3, <1>4, <2>1, <2>4, <3>2
  <2>5. j = n + 1 \/ j = m \/ (m < j /\ j <= n)
    BY <1>1
  <2> QED BY <2>2, <2>3, <2>4, <2>5
<1>7. At(raw, i, i) = 0 /\ At(raw, i, m) = 0
  <2>1. At(raw, i, i) = 0
    BY <1>1, <1>3
  <2>2. At(raw, i, m) = At(rest, m, m)
    BY <1>1, <1>6
  <2>3. At(rest, m, m) = 0
    BY <1>1, <1>4
  <2> QED BY <2>1, <2>2, <2>3
<1> DEFINE Right(r, b, j) ==
             IF At(r, b, j) = 0
             THEN /\ j + e[j] <= n + 1
                  /\ At(r, b, j + e[j]) = 0
                  /\ \A k \in j + 1 .. j + e[j] - 1 : At(r, b, k) # 0
             ELSE e[j] = At(r, b, j)
<1>8. Right(raw, i, i)
  <2>1. i + 1 .. i + e[i] - 1 = i + 1 .. m - 1 /\ i + e[i] <= n + 1
    BY <1>1
  <2> QED BY <1>5, <1>7, <2>1
<1>9. ASSUME NEW j \in i + 1 .. m - 1 PROVE Right(raw, i, j)
  BY <1>5, <1>9
<1>10. ASSUME NEW j \in m .. n PROVE Right(raw, i, j) <=> Right(rest, m, j)
  <2> DEFINE d == e[j]
  <2>1. /\ j \in 1 .. n /\ j \in m .. n + 1 /\ d \in Nat
        /\ j \in Nat /\ m <= j
    BY <1>1, <1>2
  <2>2. At(raw, i, j) = At(rest, m, j)
    BY <1>6, <2>1
  <2>3. CASE j + d <= n + 1
    <3> HIDE DEF d
    <3>1. j + d \in m .. n + 1
      BY <1>1, <2>1, <2>3
    <3>2. \A k \in j + 1 .. j + d - 1 : k \in m .. n + 1
      BY <1>1, <2>1, <2>3
    <3>3. At(raw, i, j + d) = At(rest, m, j + d)
      BY <1>6, <3>1
    <3>4. \A k \in j + 1 .. j + d - 1 : At(raw, i, k) = At(rest, m, k)
      BY <1>6, <3>2
    <3> QED BY <2>2, <3>3, <3>4 DEF d
  <2>4. CASE ~ j + d <= n + 1
    BY <2>2, <2>4
  <2> QED BY <2>3, <2>4
<1>11. i .. n = {i} \cup (i + 1 .. m - 1) \cup (m .. n)
  BY <1>1
<1> HIDE DEF Right
<1>12. (\A j \in i .. n : Right(raw, i, j)) <=> (\A j \in m .. n : Right(rest, m, j))
  BY <1>8, <1>9, <1>10, <1>11
<1> QED BY <1>12 DEF Right, Stuffed, Codes

LEMMA EncodedCodes == ASSUME NEW e \in Seq(NonZero) PROVE Codes(e, Len(e))
BY EncodedTypes DEF Codes

\* What is left of a sequence without its first numbers.
LEMMA Behind ==
  ASSUME NEW s, NEW n \in Nat, \A k \in 1 .. n : s[k] \in Nat, NEW d \in 0 .. n
  PROVE  /\ SubSeq(s, d + 1, n) \in Seq(Nat) /\ Len(SubSeq(s, d + 1, n)) = n - d
         /\ \A k \in 1 .. n - d : SubSeq(s, d + 1, n)[k] = s[d + k]
<1>1. d \in Nat /\ d <= n /\ \A k \in d + 1 .. n : s[k] \in Nat
  OBVIOUS
<1>2. /\ SubSeq(s, d + 1, n) \in Seq(Nat)
      /\ Len(SubSeq(s, d + 1, n)) = IF d + 1 <= n THEN n - (d + 1) + 1 ELSE 0
      /\ \A k \in 1 .. n - (d + 1) + 1 : SubSeq(s, d + 1, n)[k] = s[(d + 1) + k - 1]
  BY <1>1, SubSeqProperties
<1>3. n - (d + 1) + 1 = n - d /\ \A k \in Int : (d + 1) + k - 1 = d + k
  BY <1>1
<1>4. (IF d + 1 <= n THEN n - (d + 1) + 1 ELSE 0) = n - d
  BY <1>1
<1> QED BY <1>2, <1>3, <1>4

\* The last block has these raw bytes, and no others.
LEMMA LastBlock ==
  ASSUME NEW e, NEW n, Codes(e, n), NEW i \in 1 .. n, e[i] = n + 1 - i
  PROVE  Raws(e, i) = {SubSeq(e, i + 1, n)}
<1> DEFINE block == SubSeq(e, i + 1, n)
<1>1. n \in Nat /\ i \in Nat /\ i <= n /\ \A k \in 1 .. n : e[k] \in Nat /\ e[k] # 0
  BY DEF Codes
<1>2. /\ block \in Seq(Nat) /\ Len(block) = n - i
      /\ \A k \in 1 .. n - i : block[k] = e[i + k]
  BY <1>1, Behind
<1> HIDE DEF block
<1>3. ASSUME NEW raw \in Seq(Nat), Stuffed(raw, e, i) PROVE raw = block
  <2>1. Len(raw) = n - i /\ \A k \in 1 .. (n + 1 - i) - 1 : raw[k] = e[i + k]
    BY <1>3, FirstBlock
  <2>2. (n + 1 - i) - 1 = n - i
    BY <1>1
  <2> QED BY <1>2, <2>1, <2>2, SeqEqual
<1>4. \A j \in i .. n + 1 : At(block, i, j) = IF i < j /\ j <= n THEN block[j - i] ELSE 0
  BY <1>1, <1>2, AtIs
<1>5. ASSUME NEW j \in i + 1 .. n PROVE At(block, i, j) = e[j] /\ e[j] # 0
  <2>1. j - i \in 1 .. n - i /\ i + (j - i) = j /\ j \in i .. n + 1 /\ i < j /\ j \in 1 .. n /\ j <= n
    BY <1>1
  <2> QED BY <1>1, <1>2, <1>4, <2>1
<1>6. At(block, i, i) = 0 /\ At(block, i, n + 1) = 0
  BY <1>1, <1>4
<1>7. ASSUME NEW j \in i .. n
      PROVE  IF At(block, i, j) = 0
             THEN /\ j + e[j] <= n + 1
                  /\ At(block, i, j + e[j]) = 0
                  /\ \A k \in j + 1 .. j + e[j] - 1 : At(block, i, k) # 0
             ELSE e[j] = At(block, i, j)
  <2>1. CASE j = i
    <3>1. i + e[i] = n + 1 /\ i + 1 .. i + e[i] - 1 = i + 1 .. n
      BY <1>1
    <3>2. n + 1 <= n + 1
      BY <1>1
    <3> QED BY <1>5, <1>6, <2>1, <3>1, <3>2
  <2>2. CASE j # i
    <3>1. j \in i + 1 .. n
      BY <1>1, <2>2
    <3> QED BY <1>5, <3>1
  <2> QED BY <2>1, <2>2
<1>8. Stuffed(block, e, i)
  BY <1>2, <1>7 DEF Stuffed, Codes
<1> QED BY <1>2, <1>3, <1>8 DEF block, Raws

\* Every other block has a zero and the raw bytes of the rest behind it.
LEMMA InnerBlock ==
  ASSUME NEW e \in Seq(NonZero), NEW n, Codes(e, n), NEW i \in 1 .. n, NEW m \in 1 .. n,
         e[i] = m - i
  PROVE  Raws(e, i) = Joined(e, i, m)
<1>1. Codes(e, n) /\ Len(e) = n
  BY DEF Codes
<1>2. /\ n \in Nat /\ i \in Nat /\ m \in Nat /\ i < m /\ m <= n
      /\ m - 1 \in i .. n - 1 /\ (m - 1) - i = m - i - 1 /\ (m - 1) - i + 1 = m - i
  BY <1>1 DEF Codes
<1> DEFINE Join(rest) == SubSeq(e, i + 1, m - 1) \o <<0>> \o rest
<1>3. ASSUME NEW rest \in Seq(Nat)
      PROVE  /\ Join(rest) \in Seq(Nat) /\ Len(Join(rest)) = (m - i) + Len(rest)
             /\ \A k \in 1 .. Len(Join(rest)) :
                  Join(rest)[k] = IF k <= m - i - 1 THEN e[i + k]
                                  ELSE IF k = m - i THEN 0 ELSE rest[k - (m - i)]
  <2>1. /\ Join(rest) \in Seq(Nat) /\ Len(Join(rest)) = ((m - 1) - i) + 1 + Len(rest)
        /\ \A k \in 1 .. Len(Join(rest)) :
             Join(rest)[k] = IF k <= (m - 1) - i THEN e[i + k]
                             ELSE IF k = (m - 1) - i + 1 THEN 0 ELSE rest[k - ((m - 1) - i + 1)]
    <3>1. i \in 1 .. Len(e) /\ m - 1 \in i .. Len(e) - 1
      BY <1>1, <1>2
    <3> QED BY <3>1, BlockThenRest
  <2> HIDE DEF Join
  <2> QED BY <1>2, <2>1
<1> HIDE DEF Join
<1>4. ASSUME NEW rest \in Seq(Nat), Len(rest) = n - m
      PROVE  /\ Join(rest) \in Seq(Nat) /\ Len(Join(rest)) = n - i
             /\ Stuffed(Join(rest), e, i) <=> Stuffed(rest, e, m)
  <2>1. Len(Join(rest)) = n - i
    <3>1. Len(Join(rest)) = (m - i) + Len(rest)
      BY <1>3
    <3>2. (m - i) + (n - m) = n - i
      BY <1>2
    <3> QED BY <1>4, <3>1, <3>2
  <2>2. ASSUME NEW k \in 1 .. m - i - 1 PROVE Join(rest)[k] = e[i + k]
    <3>1. k \in 1 .. n - i /\ k <= m - i - 1
      BY <1>2
    <3> QED BY <1>3, <2>1, <3>1
  <2>3. Join(rest)[m - i] = 0
    <3>1. m - i \in 1 .. n - i /\ ~ m - i <= m - i - 1
      BY <1>2
    <3> QED BY <1>3, <2>1, <3>1
  <2>4. ASSUME NEW k \in 1 .. n - m PROVE Join(rest)[m - i + k] = rest[k]
    <3>1. /\ m - i + k \in 1 .. n - i /\ ~ m - i + k <= m - i - 1 /\ m - i + k # m - i
          /\ (m - i + k) - (m - i) = k
      BY <1>2
    <3> QED BY <1>3, <2>1, <3>1
  <2>5. Stuffed(Join(rest), e, i) <=> Stuffed(rest, e, m)
    BY <1>1, <1>4, <2>1, <2>2, <2>3, <2>4, BehindBlock
  <2> QED BY <1>3, <2>1, <2>5
<1>5. ASSUME NEW rest \in Seq(Nat), Stuffed(rest, e, m)
      PROVE  Join(rest) \in Seq(Nat) /\ Stuffed(Join(rest), e, i)
  <2>1. Len(rest) = n - m
    BY <1>1, <1>5 DEF Stuffed
  <2> QED BY <1>4, <1>5, <2>1
<1>6. ASSUME NEW raw \in Seq(Nat), Stuffed(raw, e, i)
      PROVE  \E rest \in Seq(Nat) : Stuffed(rest, e, m) /\ raw = Join(rest)
  <2> DEFINE rest == SubSeq(raw, m - i + 1, n - i)
  <2>1. /\ Len(raw) = n - i
        /\ \A k \in 1 .. m - i - 1 : raw[k] = e[i + k]
        /\ raw[m - i] = 0
    <3>1. /\ Len(raw) = n - i
          /\ \A k \in 1 .. (m - i) - 1 : raw[k] = e[i + k]
          /\ i + (m - i) <= n => raw[m - i] = 0
      <4>1. ASSUME NEW c, e[i] = c
            PROVE  /\ Len(raw) = n - i
                   /\ \A k \in 1 .. c - 1 : raw[k] = e[i + k]
                   /\ i + c <= n => raw[c] = 0
        BY <1>1, <1>6, <4>1, FirstBlock
      <4> QED BY <4>1
    <3>2. i + (m - i) <= n
      BY <1>2
    <3> QED BY <3>1, <3>2
  <2>2. \A k \in 1 .. n - i : raw[k] \in Nat
    BY <2>1, ElementOfSeq
  <2>3. m - i \in 0 .. n - i /\ n - i \in Nat /\ (n - i) - (m - i) = n - m
    BY <1>2
  <2>4. /\ rest \in Seq(Nat) /\ Len(rest) = (n - i) - (m - i)
        /\ \A k \in 1 .. (n - i) - (m - i) : rest[k] = raw[m - i + k]
    BY <2>2, <2>3, Behind
  <2> HIDE DEF rest
  <2>5. /\ rest \in Seq(Nat) /\ Len(rest) = n - m
        /\ \A k \in 1 .. n - m : raw[m - i + k] = rest[k]
    BY <2>3, <2>4
  <2>6. Stuffed(rest, e, m)
    BY <1>1, <1>6, <2>1, <2>5, BehindBlock
  <2>7. Join(rest) \in Seq(Nat) /\ Len(Join(rest)) = n - i
    BY <1>4, <2>5
  <2>8. ASSUME NEW k \in 1 .. n - i PROVE raw[k] = Join(rest)[k]
    <3>1. CASE k <= m - i - 1
      <4>1. k \in 1 .. m - i - 1
        BY <1>2, <3>1
      <4> QED BY <1>3, <2>1, <2>5, <2>7, <3>1, <4>1
    <3>2. CASE k = m - i
      <4>1. ~ k <= m - i - 1
        BY <1>2, <3>2
      <4> QED BY <1>3, <2>1, <2>5, <2>7, <3>2, <4>1
    <3>3. CASE ~ k <= m - i - 1 /\ k # m - i
      <4>1. k - (m - i) \in 1 .. n - m /\ m - i + (k - (m - i)) = k
        BY <1>2, <3>3
      <4>2. raw[k] = rest[k - (m - i)]
        BY <2>5, <4>1
      <4> QED BY <1>3, <2>5, <2>7, <3>3, <4>2
    <3> QED BY <3>1, <3>2, <3>3
  <2>9. raw = Join(rest)
    BY <2>1, <2>7, <2>8, SeqEqual
  <2> QED BY <2>5, <2>6, <2>9
<1>7. Raws(e, i) = {Join(rest) : rest \in Raws(e, m)}
  BY <1>5, <1>6 DEF Raws
<1> QED BY <1>7 DEF Join, Joined

\* The description without recursion solves the decoder's recursion ...
LEMMA SolutionSolves ==
  ASSUME NEW e \in Seq(NonZero), NEW i \in 1 .. Len(e) + 1
  PROVE  FromPlace(e, Solution(e), i) = Solution(e)[i]
<1> DEFINE n == Len(e)
<1>1. Codes(e, n) /\ n \in Nat /\ Len(e) = n /\ i \in 1 .. n + 1
  BY EncodedCodes DEF Codes
<1>2. Solution(e) = [k \in 1 .. n + 1 |->
                       IF k > n THEN {<<>>} ELSE Raws(e, k)]
  BY DEF Solution
<1> HIDE DEF n
<1>3. CASE i = n + 1
  <2>1. i > Len(e) /\ i > n
    BY <1>1, <1>3
  <2> QED BY <1>1, <1>2, <2>1 DEF FromPlace
<1>4. ASSUME i \in 1 .. n, NEW m \in 1 .. n, e[i] = m - i
          PROVE  Raws(e, i) = Joined(e, i, m)
  BY <1>1, <1>4, InnerBlock
<1>5. ASSUME i <= n, NEW c, e[i] = c, NEW m, m = i + c
      PROVE  FromPlace(e, Solution(e), i) = Solution(e)[i]
  <2>1. /\ c \in Nat /\ 1 <= c /\ i \in 1 .. n /\ ~ i > n
        /\ m \in Nat /\ i + c - 1 = m - 1 /\ (m - 1) + 1 = m /\ i < m /\ c = m - i
    BY <1>1, <1>5 DEF Codes
  <2>2. Solution(e)[i] = Raws(e, i)
    BY <1>1, <1>2, <2>1
  <2>3. FromPlace(e, Solution(e), i)
          = IF m - 1 > n THEN {}
            ELSE {SubSeq(e, i + 1, m - 1) \o (IF m - 1 < n THEN <<0>> ELSE <<>>) \o rest :
                    rest \in Solution(e)[m]}
    <3>1. i + e[i] - 1 = m - 1
      BY <1>5, <2>1
    <3> QED BY <1>1, <2>1, <3>1 DEF FromPlace
  <2>4. CASE m - 1 > n
    <3>1. ASSUME NEW raw, Stuffed(raw, e, i) PROVE FALSE
      <4>1. i + c <= n + 1
        BY <1>1, <1>5, <2>1, <3>1, FirstBlock
      <4> QED BY <1>1, <1>5, <2>1, <2>4, <4>1
    <3> QED BY <2>2, <2>3, <2>4, <3>1 DEF Raws
  <2>5. CASE m - 1 = n
    <3>1. m = n + 1 /\ e[i] = n + 1 - i /\ ~ m - 1 > n /\ ~ m - 1 < n
      BY <1>1, <1>5, <2>1, <2>5
    <3>2. Solution(e)[m] = {<<>>}
      <4>1. m \in 1 .. n + 1 /\ m > n
        BY <1>1, <3>1
      <4> QED BY <1>2, <4>1
    <3>3. FromPlace(e, Solution(e), i) = {SubSeq(e, i + 1, n) \o <<>> \o <<>>}
      BY <2>3, <2>5, <3>1, <3>2
    <3>4. SubSeq(e, i + 1, n) \in Seq(Nat)
      <4>1. i \in 0 .. n /\ n \in Nat /\ \A k \in 1 .. n : e[k] \in Nat
        BY <1>1, <2>1 DEF Codes
      <4> QED BY <4>1, Behind
    <3>5. SubSeq(e, i + 1, n) \o <<>> \o <<>> = SubSeq(e, i + 1, n)
      BY <3>4, ConcatEmptySeq
    <3>6. Raws(e, i) = {SubSeq(e, i + 1, n)}
      BY <1>1, <2>1, <3>1, LastBlock
    <3> QED BY <2>2, <3>3, <3>5, <3>6
  <2>6. CASE m - 1 < n
    <3>1. m \in 1 .. n /\ m \in 1 .. n + 1 /\ ~ m > n /\ ~ m - 1 > n
      BY <1>1, <2>1, <2>6
    <3>2. Solution(e)[m] = Raws(e, m)
      BY <1>2, <3>1
    <3>3. e[i] = m - i
      BY <1>5, <2>1
    <3>4. Raws(e, i) = Joined(e, i, m)
      BY <1>4, <2>1, <3>1, <3>3
    <3> QED BY <2>2, <2>3, <2>6, <3>1, <3>2, <3>4 DEF Joined
  <2> QED BY <1>1, <2>1, <2>4, <2>5, <2>6
<1>6. i = n + 1 \/ i <= n
  BY <1>1
<1> QED BY <1>3, <1>5, <1>6

\* ... and nothing else does.
LEMMA OneSolution ==
  ASSUME NEW e \in Seq(NonZero), NEW f, f = Body(e, f), NEW g, g = Body(e, g)
  PROVE  f = g
<1> DEFINE n == Len(e)
           same == {i \in 1 .. n + 1 : f[i] = g[i]}
<1>1. n \in Nat /\ \A i \in 1 .. n : e[i] \in Nat /\ 1 <= e[i]
  BY EncodedTypes
<1>2. /\ f = [i \in 1 .. n + 1 |-> FromPlace(e, f, i)]
      /\ g = [i \in 1 .. n + 1 |-> FromPlace(e, g, i)]
  BY DEF Body
<1>3. n = Len(e)
  OBVIOUS
<1> HIDE DEF n
<1>4. ASSUME NEW i \in 1 .. n + 1, \A j \in i + 1 .. n + 1 : f[j] = g[j]
      PROVE  f[i] = g[i]
  <2>1. f[i] = FromPlace(e, f, i) /\ g[i] = FromPlace(e, g, i)
    BY <1>2
  <2>2. CASE i > n
    BY <1>3, <2>1, <2>2 DEF FromPlace
  <2>3. ASSUME i <= n, NEW m, m = i + e[i] - 1 PROVE f[i] = g[i]
    <3>1. i \in 1 .. n /\ ~ i > n
      BY <1>1, <2>3
    <3>2. e[i] \in Nat /\ 1 <= e[i]
      BY <1>1, <3>1
    <3>3. m \in Nat /\ i <= m
      BY <2>3, <3>1, <3>2
    <3>4. CASE m > n
      BY <1>3, <2>1, <2>3, <3>1, <3>4 DEF FromPlace
    <3>5. CASE ~ m > n
      <4>1. m + 1 \in i + 1 .. n + 1
        BY <1>1, <3>1, <3>3, <3>5
      <4>2. f[m + 1] = g[m + 1]
        BY <1>4, <4>1
      <4> QED BY <1>3, <2>1, <2>3, <3>1, <3>5, <4>2 DEF FromPlace
    <3> QED BY <3>4, <3>5
  <2> QED BY <1>1, <2>2, <2>3
<1>5. n + 1 \in Nat /\ same \in SUBSET (1 .. n + 1)
  BY <1>1
<1>6. \A i \in 1 .. n + 1 : (\A j \in i + 1 .. n + 1 : j \in same) => i \in same
  BY <1>4
<1> HIDE DEF same
<1>7. \A i \in 1 .. n + 1 : i \in same
  BY <1>5, <1>6, Backwards
<1>8. \A i \in 1 .. n + 1 : f[i] = g[i]
  BY <1>7 DEF same
<1> QED BY <1>2, <1>8

\* What the decoder takes encoded bytes for.
LEMMA UnstuffIs ==
  ASSUME NEW e \in Seq(NonZero)
  PROVE  Unstuff(e) = IF e = <<>> THEN {<<>>} ELSE Raws(e, 1)
<1>1. Solution(e) = Body(e, Solution(e))
  <2>1. Body(e, Solution(e)) = [i \in 1 .. Len(e) + 1 |-> Solution(e)[i]]
    BY SolutionSolves DEF Body
  <2>2. Solution(e) = [i \in 1 .. Len(e) + 1 |-> Solution(e)[i]]
    BY DEF Solution
  <2> QED BY <2>1, <2>2
<1>2. From(e) = Body(e, From(e))
  BY <1>1 DEF From
<1>3. From(e) = Solution(e)
  BY <1>1, <1>2, OneSolution
<1>4. Len(e) \in Nat /\ (e = <<>> <=> 1 > Len(e))
  BY EmptySeq, LenProperties
<1>5. 1 \in 1 .. Len(e) + 1
  BY <1>4
<1>6. Solution(e)[1] = IF 1 > Len(e) THEN {<<>>} ELSE Raws(e, 1)
  BY <1>5 DEF Solution
<1> QED BY <1>3, <1>4, <1>6, UnstuffIsFrom

-----------------------------------------------------------------------------
(* The encoder, and that the decoder undoes it.                            *)

Delimited(raw) == <<0>> \o raw \o <<0>>
Distance(raw, i) ==
  CHOOSE d \in 1 .. Len(Delimited(raw)) - i :
    /\ Delimited(raw)[i + d] = 0
    /\ \A k \in 1 .. d - 1 : Delimited(raw)[i + k] # 0
Stuff(raw) == [i \in 1 .. Len(raw) + 1 |->
                 IF Delimited(raw)[i] = 0 THEN Distance(raw, i) ELSE Delimited(raw)[i]]
Raw(frame) == <<TypeByte[frame.type], PayloadLen[frame.type]>> \o frame.payload

LEMMA EncodeIsStuff == ASSUME NEW f PROVE Encode(f) = Stuff(Raw(f))
BY DEF Encode, Stuff, Distance, Delimited, Raw

LEMMA DelimitedIs ==
  ASSUME NEW raw \in Seq(Nat), NEW n, n = Len(raw) + 1
  PROVE  /\ n \in Nat /\ Len(Delimited(raw)) = n + 1
         /\ \A j \in 1 .. n + 1 : Delimited(raw)[j] = At(raw, 1, j) /\ At(raw, 1, j) \in Nat
<1> DEFINE zero == <<0>>
<1>1. zero \in Seq(Nat) /\ Len(zero) = 1 /\ zero[1] = 0
  OBVIOUS
<1>2. Delimited(raw) = zero \o raw \o zero
  BY DEF Delimited
<1> HIDE DEF zero
<1>3. Len(raw) \in Nat /\ \A k \in 1 .. Len(raw) : raw[k] \in Nat
  BY LenProperties, ElementOfSeq
<1> DEFINE l == Len(raw)
<1>4. n = l + 1 /\ l \in Nat /\ Len(raw) = l
  BY <1>3
<1> HIDE DEF l
<1>5. /\ zero \o raw \in Seq(Nat) /\ Len(zero \o raw) = l + 1
      /\ \A k \in 1 .. l + 1 : (zero \o raw)[k] = IF k <= 1 THEN zero[k] ELSE raw[k - 1]
  <2>1. /\ zero \o raw \in Seq(Nat) /\ Len(zero \o raw) = Len(zero) + Len(raw)
        /\ \A k \in 1 .. Len(zero) + Len(raw) :
             (zero \o raw)[k] = IF k <= Len(zero) THEN zero[k] ELSE raw[k - Len(zero)]
    BY <1>1, ConcatProperties
  <2>2. 1 + l = l + 1
    BY <1>4
  <2> QED BY <1>1, <1>4, <2>1, <2>2
<1> DEFINE front == zero \o raw
<1>6. front \in Seq(Nat) /\ Len(front) = l + 1
  BY <1>5
<1>7. /\ front \o zero \in Seq(Nat) /\ Len(front \o zero) = l + 2
      /\ \A k \in 1 .. l + 2 : (front \o zero)[k] = IF k <= l + 1 THEN front[k] ELSE zero[k - (l + 1)]
  <2> HIDE DEF front
  <2>1. /\ front \o zero \in Seq(Nat) /\ Len(front \o zero) = Len(front) + Len(zero)
        /\ \A k \in 1 .. Len(front) + Len(zero) :
             (front \o zero)[k] = IF k <= Len(front) THEN front[k] ELSE zero[k - Len(front)]
    BY <1>1, <1>6, ConcatProperties
  <2>2. (l + 1) + 1 = l + 2
    BY <1>4
  <2> QED BY <1>1, <1>6, <2>1, <2>2
<1>8. l + 2 = n + 1 /\ n \in Nat
  BY <1>4
<1>9. ASSUME NEW j \in 1 .. n + 1 PROVE Delimited(raw)[j] = At(raw, 1, j) /\ At(raw, 1, j) \in Nat
  <2>1. j \in 1 .. l + 2 /\ j \in Nat
    BY <1>4, <1>8
  <2>2. CASE j = 1
    <3>1. j \in 1 .. l + 1 /\ j <= l + 1 /\ j <= 1 /\ ~ j - 1 \in 1 .. l
      BY <1>4, <2>2
    <3>2. Delimited(raw)[j] = 0
      BY <1>1, <1>2, <1>5, <1>7, <2>1, <2>2, <3>1
    <3>3. At(raw, 1, j) = 0
      BY <1>4, <3>1 DEF At
    <3> QED BY <3>2, <3>3
  <2>3. CASE j # 1 /\ j <= l + 1
    <3>1. j \in 1 .. l + 1 /\ ~ j <= 1 /\ j - 1 \in 1 .. l
      BY <1>4, <2>1, <2>3
    <3>2. Delimited(raw)[j] = raw[j - 1]
      BY <1>2, <1>5, <1>7, <2>1, <2>3, <3>1
    <3>3. At(raw, 1, j) = raw[j - 1]
      BY <1>4, <3>1 DEF At
    <3>4. raw[j - 1] \in Nat
      BY <1>3, <1>4, <3>1
    <3> QED BY <3>2, <3>3, <3>4
  <2>4. CASE ~ j <= l + 1
    <3>1. j - (l + 1) = 1 /\ ~ j - 1 \in 1 .. l
      BY <1>4, <2>1, <2>4
    <3>2. Delimited(raw)[j] = 0
      BY <1>1, <1>2, <1>7, <2>1, <2>4, <3>1
    <3>3. At(raw, 1, j) = 0
      BY <1>4, <3>1 DEF At
    <3> QED BY <3>2, <3>3
  <2> QED BY <2>2, <2>3, <2>4
<1> QED BY <1>2, <1>7, <1>8, <1>9

\* There is one distance from a place to the next zero, and it is found.
LEMMA DistanceIs ==
  ASSUME NEW raw \in Seq(Nat), NEW n, n = Len(raw) + 1, NEW i \in 1 .. n, NEW d
  PROVE  d = Distance(raw, i) <=> /\ d \in Nat /\ 1 <= d /\ i + d <= n + 1
                                  /\ At(raw, 1, i + d) = 0
                                  /\ \A k \in i + 1 .. i + d - 1 : At(raw, 1, k) # 0
<1> DEFINE Next0(x) == /\ Delimited(raw)[i + x] = 0
                       /\ \A k \in 1 .. x - 1 : Delimited(raw)[i + k] # 0
<1>1. /\ n \in Nat /\ Len(Delimited(raw)) = n + 1
      /\ \A j \in 1 .. n + 1 : Delimited(raw)[j] = At(raw, 1, j)
  BY DelimitedIs
<1>2. i \in 1 .. n
  OBVIOUS
<1>3. Distance(raw, i) = CHOOSE x \in 1 .. n + 1 - i : Next0(x)
  <2>1. Len(Delimited(raw)) - i = n + 1 - i
    BY <1>1
  <2> QED BY <2>1 DEF Distance
<1>4. \E x \in 1 .. n + 1 - i : Next0(x)
  <2> DEFINE zeros == {x \in 1 .. n + 1 - i : Delimited(raw)[i + x] = 0}
  <2>1. n + 1 - i \in 1 .. n + 1 - i /\ i + (n + 1 - i) = n + 1 /\ n + 1 \in 1 .. n + 1
    BY <1>1, <1>2
  <2>2. At(raw, 1, n + 1) = 0
    <3>1. ~ (n + 1) - 1 \in 1 .. n - 1 /\ Len(raw) = n - 1
      BY <1>1, LenProperties
    <3> QED BY <3>1 DEF At
  <2>3. n + 1 - i \in zeros
    BY <1>1, <2>1, <2>2
  <2>4. zeros \in SUBSET Nat /\ zeros # {}
    <3>1. zeros # {}
      BY <2>3
    <3>2. \A x \in 1 .. n + 1 - i : x \in Nat
      BY <1>1, <1>2
    <3> QED BY <3>1, <3>2
  <2>5. PICK x \in zeros : \A m \in zeros : x <= m
    BY <2>4, Least
  <2>6. x \in 1 .. n + 1 - i /\ Delimited(raw)[i + x] = 0
    BY <2>5
  <2>7. ASSUME NEW k \in 1 .. x - 1 PROVE Delimited(raw)[i + k] # 0
    <3>1. k \in 1 .. n + 1 - i /\ ~ x <= k
      BY <1>1, <1>2, <2>6
    <3>2. k \notin zeros
      BY <2>5, <3>1
    <3> QED BY <3>1, <3>2
  <2> QED BY <2>6, <2>7
<1>5. ASSUME NEW x \in 1 .. n + 1 - i, Next0(x), NEW y \in 1 .. n + 1 - i, Next0(y)
      PROVE  x = y
  <2>1. /\ x \in Nat /\ y \in Nat /\ 1 <= x /\ 1 <= y
    BY <1>1, <1>2
  <2>2. ~ x < y
    <3>1. x < y => x \in 1 .. y - 1
      BY <2>1
    <3> QED BY <1>5, <3>1
  <2>3. ~ y < x
    <3>1. y < x => y \in 1 .. x - 1
      BY <2>1
    <3> QED BY <1>5, <3>1
  <2> QED BY <2>1, <2>2, <2>3
<1>6. ASSUME NEW x \in 1 .. n + 1 - i
      PROVE  Next0(x) <=> /\ At(raw, 1, i + x) = 0
                          /\ \A k \in i + 1 .. i + x - 1 : At(raw, 1, k) # 0
  <2>1. x \in Nat /\ i + x \in 1 .. n + 1
    BY <1>1, <1>2
  <2>2. \A k \in 1 .. x - 1 : i + k \in i + 1 .. i + x - 1 /\ i + k \in 1 .. n + 1
    BY <1>1, <1>2, <2>1
  <2>3. \A k \in i + 1 .. i + x - 1 : k - i \in 1 .. x - 1 /\ i + (k - i) = k /\ k \in 1 .. n + 1
    BY <1>1, <1>2, <2>1
  <2>4. (\A k \in 1 .. x - 1 : Delimited(raw)[i + k] # 0)
          <=> (\A k \in i + 1 .. i + x - 1 : At(raw, 1, k) # 0)
    BY <1>1, <2>2, <2>3
  <2> QED BY <1>1, <2>1, <2>4
<1> HIDE DEF Next0
<1>7. Distance(raw, i) \in 1 .. n + 1 - i /\ Next0(Distance(raw, i))
  BY <1>3, <1>4
<1>8. d = Distance(raw, i) <=> d \in 1 .. n + 1 - i /\ Next0(d)
  BY <1>5, <1>7
<1>9. d \in 1 .. n + 1 - i <=> d \in Nat /\ 1 <= d /\ i + d <= n + 1
  BY <1>1, <1>2
<1> QED BY <1>6, <1>8, <1>9

\* The encoder writes the bytes that have these raw bytes behind them.
LEMMA StuffIs ==
  ASSUME NEW raw \in Seq(Nat), NEW e \in Seq(NonZero)
  PROVE  Stuff(raw) = e <=> Stuffed(raw, e, 1)
<1> DEFINE n == Len(raw) + 1
<1>1. /\ n \in Nat /\ 1 <= n
      /\ \A j \in 1 .. n + 1 : Delimited(raw)[j] = At(raw, 1, j)
  <2>1. Len(raw) \in Nat
    BY LenProperties
  <2> QED BY <2>1, DelimitedIs
<1>2. /\ Stuff(raw) = [i \in 1 .. n |-> Stuff(raw)[i]]
      /\ \A i \in 1 .. n :
           Stuff(raw)[i] = IF Delimited(raw)[i] = 0 THEN Distance(raw, i) ELSE Delimited(raw)[i]
  BY DEF Stuff
<1>3. \A i \in 1 .. n : \A d :
        d = Distance(raw, i) <=> /\ d \in Nat /\ 1 <= d /\ i + d <= n + 1
                                 /\ At(raw, 1, i + d) = 0
                                 /\ \A k \in i + 1 .. i + d - 1 : At(raw, 1, k) # 0
  BY DistanceIs
<1>4. Codes(e, Len(e)) /\ e \in [1 .. Len(e) -> NonZero]
  BY EncodedCodes, LenProperties
<1>5. Len(raw) = n - 1 /\ Len(raw) \in Nat
  BY LenProperties
<1> HIDE DEF n
<1>6. ASSUME NEW i \in 1 .. n, e[i] \in Nat, 1 <= e[i]
      PROVE  Stuff(raw)[i] = e[i]
               <=> IF At(raw, 1, i) = 0
                   THEN /\ i + e[i] <= n + 1
                        /\ At(raw, 1, i + e[i]) = 0
                        /\ \A k \in i + 1 .. i + e[i] - 1 : At(raw, 1, k) # 0
                   ELSE e[i] = At(raw, 1, i)
  <2>1. Delimited(raw)[i] = At(raw, 1, i)
    <3>1. i \in 1 .. n + 1
      BY <1>1
    <3> QED BY <1>1, <3>1
  <2>2. CASE At(raw, 1, i) = 0
    <3>1. Stuff(raw)[i] = Distance(raw, i)
      BY <1>2, <2>1, <2>2
    <3>2. e[i] = Distance(raw, i) <=> /\ i + e[i] <= n + 1
                                      /\ At(raw, 1, i + e[i]) = 0
                                      /\ \A k \in i + 1 .. i + e[i] - 1 : At(raw, 1, k) # 0
      BY <1>3, <1>6
    <3> QED BY <2>2, <3>1, <3>2
  <2>3. CASE At(raw, 1, i) # 0
    BY <1>2, <2>1, <2>3
  <2> QED BY <2>2, <2>3
<1>7. ASSUME Stuff(raw) = e PROVE Stuffed(raw, e, 1)
  <2>1. Len(e) = n
    <3>1. DOMAIN e = 1 .. n
      BY <1>2, <1>7
    <3>2. Len(e) \in Nat /\ DOMAIN e = 1 .. Len(e)
      BY LenProperties
    <3> DEFINE l == Len(e)
    <3>3. l \in Nat /\ 1 .. l = 1 .. n
      BY <3>1, <3>2
    <3> HIDE DEF l
    <3>4. n \in 1 .. l
      BY <1>1, <3>3
    <3>5. l \in 1 .. n
      BY <3>3, <3>4
    <3>6. l = n
      BY <1>1, <3>3, <3>4, <3>5
    <3> QED BY <3>6 DEF l
  <2>2. \A i \in 1 .. n : e[i] \in Nat /\ 1 <= e[i]
    BY <1>4, <2>1 DEF Codes
  <2>3. \A i \in 1 .. n : Stuff(raw)[i] = e[i]
    BY <1>7
  <2> QED BY <1>5, <1>6, <2>1, <2>2, <2>3 DEF Stuffed
<1>8. ASSUME Stuffed(raw, e, 1) PROVE Stuff(raw) = e
  <2>1. Len(e) = n
    <3>1. Len(raw) = Len(e) - 1 /\ Len(e) \in Nat
      BY <1>4, <1>8 DEF Stuffed, Codes
    <3> QED BY <1>1, <1>5, <3>1
  <2>2. \A i \in 1 .. n : e[i] \in Nat /\ 1 <= e[i]
    BY <1>4, <2>1 DEF Codes
  <2>3. \A i \in 1 .. n : Stuff(raw)[i] = e[i]
    BY <1>6, <1>8, <2>1, <2>2 DEF Stuffed
  <2>4. e = [i \in 1 .. n |-> e[i]]
    BY <1>4, <2>1
  <2> QED BY <1>2, <2>3, <2>4
<1> QED BY <1>7, <1>8

\* The lengths there are.
LEMMA Lengths ==
  ASSUME NEW t \in Types
  PROVE  /\ PayloadLen[t] \in Nat /\ 1 <= PayloadLen[t] /\ PayloadLen[t] <= RequestLen
         /\ TypeByte[t] \in Nat /\ 1 <= TypeByte[t] /\ TypeByte[t] <= 3
<1>1. t \in {"request", "response", "diagnostic"}
  BY DEF Types, TypeByte
<1>2. ReportLen \in Nat /\ RequestLen \in Nat /\ 1 <= ReportLen /\ ReportLen <= RequestLen
  BY LengthAssumption
<1>3. CASE t = "request"
  BY <1>2, <1>3 DEF PayloadLen, TypeByte
<1>4. CASE t = "response"
  BY <1>2, <1>4 DEF PayloadLen, TypeByte
<1>5. CASE t = "diagnostic"
  BY <1>2, <1>5 DEF PayloadLen, TypeByte
<1> QED BY <1>1, <1>3, <1>4, <1>5

LEMMA FrameIs ==
  ASSUME NEW f
  PROVE  f \in Frame <=> \E t \in Types : \E p \in [1 .. PayloadLen[t] -> Byte] :
                           f = [type |-> t, payload |-> p]
<1>1. f \in Frame <=> \E t \in Types : f \in [type : {t}, payload : [1 .. PayloadLen[t] -> Byte]]
  BY Zenon DEF Frame, Frames
<1>2. ASSUME NEW t, NEW P
      PROVE  f \in [type : {t}, payload : P] <=> \E p \in P : f = [type |-> t, payload |-> p]
  OBVIOUS
<1> QED BY <1>1, <1>2

LEMMA Bytes == \A b \in Byte : b \in Nat /\ b <= 255
<1>1. Byte \subseteq 0 .. 255
  BY ByteAssumption
<1> QED BY <1>1

\* A frame and its raw bytes.
LEMMA RawIs ==
  ASSUME NEW f \in Frame, NEW n, n = PayloadLen[f.type]
  PROVE  /\ f.type \in Types /\ n \in Nat
         /\ f.payload \in [1 .. n -> Byte] /\ f.payload \in Seq(Nat) /\ Len(f.payload) = n
         /\ f = [type |-> f.type, payload |-> f.payload]
         /\ Raw(f) \in Seq(Nat) /\ Len(Raw(f)) = n + 2
         /\ Raw(f)[1] = TypeByte[f.type] /\ Raw(f)[2] = n
         /\ \A k \in 1 .. n : Raw(f)[k + 2] = f.payload[k]
<1>1. /\ f.type \in Types /\ f.payload \in [1 .. n -> Byte]
      /\ f = [type |-> f.type, payload |-> f.payload]
  <2>1. PICK t \in Types : \E p \in [1 .. PayloadLen[t] -> Byte] : f = [type |-> t, payload |-> p]
    BY FrameIs
  <2>2. PICK p \in [1 .. PayloadLen[t] -> Byte] : f = [type |-> t, payload |-> p]
    BY <2>1
  <2> QED BY <2>2
<1>2. PICK t \in Types, p \in [1 .. n -> Byte] : t = f.type /\ p = f.payload
  BY <1>1
<1>3. n \in Nat /\ n = PayloadLen[t]
  BY <1>2, Lengths
<1> DEFINE head == <<TypeByte[t], PayloadLen[t]>>
<1>4. p \in Seq(Nat) /\ Len(p) = n
  <2>1. p \in [1 .. n -> Nat]
    BY Bytes
  <2> QED BY <1>3, <2>1
<1>5. /\ head \in Seq(Nat) /\ Len(head) = 2
      /\ head[1] = TypeByte[t] /\ head[2] = PayloadLen[t]
  BY Lengths
<1>6. Raw(f) = head \o p
  BY <1>2 DEF Raw
<1> HIDE DEF head
<1>7. /\ head \o p \in Seq(Nat) /\ Len(head \o p) = Len(head) + Len(p)
      /\ \A k \in 1 .. Len(head) + Len(p) :
           (head \o p)[k] = IF k <= Len(head) THEN head[k] ELSE p[k - Len(head)]
  BY <1>4, <1>5, ConcatProperties
<1>8. 2 + n = n + 2 /\ 1 \in 1 .. 2 + n /\ 2 \in 1 .. 2 + n
  BY <1>3
<1>9. ASSUME NEW k \in 1 .. n PROVE (head \o p)[k + 2] = p[k]
  <2>1. k + 2 \in 1 .. 2 + n /\ ~ k + 2 <= 2 /\ (k + 2) - 2 = k
    BY <1>3
  <2> QED BY <1>4, <1>5, <1>7, <2>1
<1>10. (head \o p)[1] = head[1] /\ (head \o p)[2] = head[2]
  BY <1>4, <1>5, <1>7, <1>8
<1>11. /\ Raw(f) \in Seq(Nat) /\ Len(Raw(f)) = n + 2
       /\ Raw(f)[1] = TypeByte[t] /\ Raw(f)[2] = n
       /\ \A k \in 1 .. n : Raw(f)[k + 2] = p[k]
  BY <1>3, <1>4, <1>5, <1>6, <1>7, <1>8, <1>9, <1>10
<1> QED BY <1>1, <1>2, <1>3, <1>4, <1>11

\* Raw bytes are bytes.
LEMMA RawBytes ==
  ASSUME NEW e \in Seq(Byte \ {0}), e \in Seq(NonZero), NEW raw \in Seq(Nat), Stuffed(raw, e, 1)
  PROVE  \A k \in 1 .. Len(raw) : raw[k] \in Byte
<1> DEFINE n == Len(e)
<1>1. Codes(e, n) /\ \A k \in 1 .. n : e[k] \in Byte
  BY EncodedCodes, ElementOfSeq
<1>2. Len(raw) = n - 1 /\ Len(raw) \in Nat /\ n \in Nat
  BY <1>1, LenProperties DEF Stuffed, Codes
<1>3. \A j \in 1 .. n : At(raw, 1, j) # 0 => e[j] = At(raw, 1, j)
  BY DEF Stuffed
<1> HIDE DEF n
<1>4. ASSUME NEW k \in 1 .. Len(raw) PROVE raw[k] \in Byte
  <2>1. k + 1 \in 1 .. n /\ (k + 1) - 1 = k
    BY <1>2
  <2>2. At(raw, 1, k + 1) = raw[k]
    BY <2>1 DEF At
  <2>3. raw[k] # 0 => e[k + 1] = raw[k]
    BY <1>3, <2>1, <2>2
  <2> QED BY <1>1, <2>1, <2>3, ByteAssumption
<1> QED BY <1>4

LEMMA DecodeIs ==
  ASSUME NEW e, NEW f
  PROVE  f \in Decode(e)
           <=> \E raw \in Unstuff(e) :
                 /\ 2 <= Len(raw) /\ Len(raw) <= RawSize /\ raw[2] = Len(raw) - 2
                 /\ \E t \in Types : /\ raw[1] = TypeByte[t] /\ raw[2] = PayloadLen[t]
                                     /\ f = [type |-> t, payload |-> SubSeq(raw, 3, Len(raw))]
<1> DEFINE Whole == {raw \in Unstuff(e) :
                       2 <= Len(raw) /\ Len(raw) <= RawSize /\ raw[2] = Len(raw) - 2}
           TypeOf(raw) == {t \in Types : raw[1] = TypeByte[t] /\ raw[2] = PayloadLen[t]}
           Made(raw) == { [type |-> t, payload |-> SubSeq(raw, 3, Len(raw))] : t \in TypeOf(raw) }
<1>1. Decode(e) = UNION { Made(raw) : raw \in Whole }
  BY DEF Decode
<1>2. f \in Decode(e) <=> \E raw \in Whole : f \in Made(raw)
  <2> HIDE DEF Made, Whole
  <2> QED BY <1>1
<1>3. ASSUME NEW raw
      PROVE  f \in Made(raw)
               <=> \E t \in Types : /\ raw[1] = TypeByte[t] /\ raw[2] = PayloadLen[t]
                                   /\ f = [type |-> t, payload |-> SubSeq(raw, 3, Len(raw))]
  BY Zenon
<1> HIDE DEF Made
<1> QED BY <1>2, <1>3, Zenon

LEMMA NonZeroBytes == ASSUME NEW e \in Seq(Byte \ {0}) PROVE e \in Seq(NonZero)
<1>1. Byte \ {0} \subseteq NonZero
  BY Bytes DEF NonZero
<1> QED BY <1>1, SeqMonotonic

\* Whatever non-zero bytes there are between two delimiters: auth_receiver_decode
\* accepts them exactly when auth_frame_encode writes them for some frame, and
\* then hands out that frame and no other.
THEOREM DecodesEncoded ==
  \A e \in Seq(Byte \ {0}) : \A f : f \in Decode(e) <=> f \in Frame /\ Encode(f) = e
<1> SUFFICES ASSUME NEW e \in Seq(Byte \ {0}), NEW f
             PROVE  f \in Decode(e) <=> f \in Frame /\ Encode(f) = e
  OBVIOUS
<1>1. e \in Seq(NonZero)
  BY NonZeroBytes
<1>2. ASSUME f \in Decode(e) PROVE f \in Frame /\ Encode(f) = e
  <2>1. PICK raw \in Unstuff(e) :
          /\ 2 <= Len(raw) /\ raw[2] = Len(raw) - 2
          /\ \E t \in Types : /\ raw[1] = TypeByte[t] /\ raw[2] = PayloadLen[t]
                              /\ f = [type |-> t, payload |-> SubSeq(raw, 3, Len(raw))]
    BY <1>2, DecodeIs
  <2>2. raw \in Seq(Nat) /\ Stuffed(raw, e, 1)
    <3>1. CASE e = <<>>
      <4>1. raw = <<>>
        BY <1>1, <3>1, UnstuffIs
      <4> QED BY <2>1, <4>1
    <3>2. CASE e # <<>>
      BY <1>1, <3>2, UnstuffIs DEF Raws
    <3> QED BY <3>1, <3>2
  <2>3. PICK t \in Types : /\ raw[1] = TypeByte[t] /\ raw[2] = PayloadLen[t]
                           /\ f = [type |-> t, payload |-> SubSeq(raw, 3, Len(raw))]
    BY <2>1
  <2> DEFINE n == PayloadLen[t]
             p == SubSeq(raw, 3, Len(raw))
  <2>4. n \in Nat /\ Len(raw) = n + 2
    <3>1. n \in Nat /\ Len(raw) \in Nat /\ n = Len(raw) - 2
      BY <2>1, <2>2, <2>3, Lengths, LenProperties
    <3> HIDE DEF n
    <3> QED BY <3>1
  <2>5. \A k \in 1 .. n + 2 : raw[k] \in Byte /\ raw[k] \in Nat
    BY <1>1, <2>2, <2>4, RawBytes, ElementOfSeq
  <2>6. /\ p \in Seq(Nat) /\ Len(p) = n
        /\ \A k \in 1 .. n : p[k] = raw[k + 2]
    <3> HIDE DEF n
    <3>1. /\ SubSeq(raw, 2 + 1, n + 2) \in Seq(Nat) /\ Len(SubSeq(raw, 2 + 1, n + 2)) = (n + 2) - 2
          /\ \A k \in 1 .. (n + 2) - 2 : SubSeq(raw, 2 + 1, n + 2)[k] = raw[2 + k]
      <4>1. n + 2 \in Nat /\ 2 \in 0 .. n + 2
        BY <2>4
      <4> QED BY <2>5, <4>1, Behind
    <3>2. 2 + 1 = 3 /\ (n + 2) - 2 = n /\ \A k \in 1 .. n : 2 + k = k + 2
      BY <2>4
    <3> QED BY <2>4, <3>1, <3>2
  <2>7. p \in [1 .. n -> Byte]
    <3> HIDE DEF n, p
    <3>1. \A k \in 1 .. n : k + 2 \in 1 .. n + 2
      BY <2>4
    <3>2. \A k \in 1 .. n : p[k] \in Byte
      BY <2>5, <2>6, <3>1
    <3>3. p = [k \in 1 .. n |-> p[k]]
      BY <2>6
    <3> QED BY <3>2, <3>3
  <2>8. f \in Frame
    BY <2>3, <2>7, FrameIs
  <2> HIDE DEF p
  <2>9. f.type = t /\ f.payload = p
    BY <2>3 DEF p
  <2>10. /\ Raw(f) \in Seq(Nat) /\ Len(Raw(f)) = n + 2
         /\ Raw(f)[1] = TypeByte[t] /\ Raw(f)[2] = PayloadLen[t]
         /\ \A k \in 1 .. n : Raw(f)[k + 2] = p[k]
    <3>1. /\ Raw(f) \in Seq(Nat) /\ Len(Raw(f)) = PayloadLen[f.type] + 2
          /\ Raw(f)[1] = TypeByte[f.type] /\ Raw(f)[2] = PayloadLen[f.type]
          /\ \A k \in 1 .. PayloadLen[f.type] : Raw(f)[k + 2] = f.payload[k]
      BY <2>8, RawIs
    <3> QED BY <2>9, <3>1
  <2>11. Raw(f) = raw
    <3>1. ASSUME NEW k \in 1 .. n + 2 PROVE Raw(f)[k] = raw[k]
      <4>1. CASE k = 1
        BY <2>3, <2>10, <4>1
      <4>2. CASE k = 2
        BY <2>3, <2>10, <4>2
      <4>3. CASE k # 1 /\ k # 2
        <5> HIDE DEF n
        <5>1. k - 2 \in 1 .. n /\ (k - 2) + 2 = k
          BY <2>4, <4>3
        <5> QED BY <2>6, <2>10, <5>1
      <4> QED BY <4>1, <4>2, <4>3
    <3> HIDE DEF n
    <3> QED BY <2>2, <2>4, <2>10, <3>1, SeqEqual
  <2>12. Encode(f) = e
    BY <1>1, <2>2, <2>11, EncodeIsStuff, StuffIs
  <2> QED BY <2>8, <2>12
<1>3. ASSUME f \in Frame, Encode(f) = e PROVE f \in Decode(e)
  <2> DEFINE t == f.type
             p == f.payload
             n == PayloadLen[f.type]
  <2>1. /\ t \in Types /\ f = [type |-> t, payload |-> p]
        /\ Raw(f) \in Seq(Nat) /\ Len(Raw(f)) = n + 2
        /\ Raw(f)[1] = TypeByte[t] /\ Raw(f)[2] = n
        /\ \A k \in 1 .. n : Raw(f)[k + 2] = p[k]
        /\ p \in Seq(Nat) /\ Len(p) = n
    BY <1>3, RawIs
  <2>2. n \in Nat /\ 1 <= n /\ n <= RequestLen
    BY <2>1, Lengths
  <2>3. Stuffed(Raw(f), e, 1)
    BY <1>1, <1>3, <2>1, EncodeIsStuff, StuffIs
  <2> HIDE DEF n
  <2>4. e # <<>>
    <3>1. Len(e) = n + 3
      <4>1. n + 2 = Len(e) - 1 /\ Len(e) \in Nat
        BY <1>1, <2>1, <2>3, LenProperties DEF Stuffed
      <4> QED BY <2>2, <4>1
    <3> QED BY <2>2, <3>1
  <2>5. Raw(f) \in Unstuff(e)
    BY <1>1, <2>1, <2>3, <2>4, UnstuffIs DEF Raws
  <2>6. 2 <= n + 2 /\ n + 2 <= RawSize /\ n = (n + 2) - 2
    BY <2>2, LengthAssumption DEF RawSize
  <2>7. SubSeq(Raw(f), 3, n + 2) = p
    <3> DEFINE rest == SubSeq(Raw(f), 3, n + 2)
    <3>1. \A k \in 1 .. n + 2 : Raw(f)[k] \in Nat
      BY <2>1, ElementOfSeq
    <3>2. n + 2 \in Nat /\ 2 \in 0 .. n + 2 /\ 2 + 1 = 3 /\ (n + 2) - 2 = n
      BY <2>2
    <3>3. /\ SubSeq(Raw(f), 2 + 1, n + 2) \in Seq(Nat)
          /\ Len(SubSeq(Raw(f), 2 + 1, n + 2)) = (n + 2) - 2
          /\ \A k \in 1 .. (n + 2) - 2 : SubSeq(Raw(f), 2 + 1, n + 2)[k] = Raw(f)[2 + k]
      BY <3>1, <3>2, Behind
    <3>4. /\ rest \in Seq(Nat) /\ Len(rest) = n
          /\ \A k \in 1 .. n : rest[k] = Raw(f)[2 + k]
      BY <3>2, <3>3
    <3>5. \A k \in 1 .. n : Raw(f)[2 + k] = p[k]
      <4>1. \A k \in 1 .. n : 2 + k = k + 2
        BY <2>2
      <4> QED BY <2>1, <4>1
    <3> HIDE DEF rest, p
    <3>6. rest = p
      BY <2>1, <3>4, <3>5, SeqEqual
    <3> QED BY <3>6 DEF rest
  <2>8. f = [type |-> t, payload |-> SubSeq(Raw(f), 3, Len(Raw(f)))]
    BY <2>1, <2>7
  <2> QED BY <2>1, <2>5, <2>6, <2>8, DecodeIs DEF n
<1> QED BY <1>2, <1>3

\* auth_frame_encode writes no zero and nothing above a byte: no code reaches 255,
\* and the frame with its delimiter fits the buffers of auth_transport.c.
THEOREM EncodesToBytes ==
  \A f \in Frame : /\ Encode(f) \in Seq(1 .. 255)
                   /\ Len(Encode(f)) + 1 <= EncodedSize
<1> SUFFICES ASSUME NEW f \in Frame
             PROVE  Encode(f) \in Seq(1 .. 255) /\ Len(Encode(f)) + 1 <= EncodedSize
  OBVIOUS
<1> DEFINE t == f.type
           p == f.payload
           l == PayloadLen[f.type]
<1>1. /\ t \in Types /\ p \in [1 .. l -> Byte]
      /\ Raw(f) \in Seq(Nat) /\ Len(Raw(f)) = l + 2
      /\ Raw(f)[1] = TypeByte[t] /\ Raw(f)[2] = l
      /\ \A k \in 1 .. l : Raw(f)[k + 2] = p[k]
  BY RawIs
<1>2. l \in Nat /\ 1 <= l /\ l <= RequestLen /\ RequestLen \in Nat /\ RequestLen + 3 < 255
  BY <1>1, Lengths, LengthAssumption
<1> DEFINE n == Len(Raw(f)) + 1
<1>3. /\ n \in Nat /\ Len(Delimited(Raw(f))) = n + 1
      /\ \A j \in 1 .. n + 1 : /\ Delimited(Raw(f))[j] = At(Raw(f), 1, j)
                               /\ At(Raw(f), 1, j) \in Nat
  BY <1>1, DelimitedIs
<1>4. /\ Stuff(Raw(f)) = [i \in 1 .. n |-> Stuff(Raw(f))[i]]
      /\ \A i \in 1 .. n :
           Stuff(Raw(f))[i] = IF Delimited(Raw(f))[i] = 0 THEN Distance(Raw(f), i)
                              ELSE Delimited(Raw(f))[i]
  BY DEF Stuff
<1>5. \A i \in 1 .. n : \A d :
        d = Distance(Raw(f), i) => d \in Nat /\ 1 <= d /\ i + d <= n + 1
  BY <1>1, DistanceIs
<1>6. n = l + 3
  <2> HIDE DEF l
  <2> QED BY <1>2, <1>1
<1> HIDE DEF n
<1>7. ASSUME NEW k \in 1 .. l + 2 PROVE Raw(f)[k] \in Nat /\ Raw(f)[k] <= 255
  <2>1. CASE k = 1
    BY <1>1, <2>1, Lengths
  <2>2. CASE k = 2
    <3> HIDE DEF l
    <3> QED BY <1>2, <1>1, <2>2
  <2>3. CASE k # 1 /\ k # 2
    <3>1. k - 2 \in 1 .. l /\ (k - 2) + 2 = k
      <4> HIDE DEF l
      <4> QED BY <1>2, <2>3
    <3>2. p[k - 2] \in Byte
      BY <1>1, <3>1
    <3> QED BY <1>1, <3>1, <3>2, Bytes
  <2> QED BY <2>1, <2>2, <2>3
<1> HIDE DEF l
<1>8. ASSUME NEW i \in 1 .. n PROVE Stuff(Raw(f))[i] \in 1 .. 255
  <2>1. i \in 1 .. n + 1 /\ i \in Nat /\ 1 <= i
    BY <1>3
  <2>2. CASE Delimited(Raw(f))[i] = 0
    <3>1. PICK d : d = Distance(Raw(f), i)
      OBVIOUS
    <3>2. d \in Nat /\ 1 <= d /\ i + d <= n + 1
      BY <1>5, <3>1
    <3>3. d \in 1 .. 255
      BY <1>2, <1>6, <2>1, <3>2
    <3> QED BY <1>4, <2>2, <3>1, <3>3
  <2>3. CASE Delimited(Raw(f))[i] # 0
    <3>1. At(Raw(f), 1, i) # 0 /\ At(Raw(f), 1, i) \in Nat /\ Stuff(Raw(f))[i] = At(Raw(f), 1, i)
      BY <1>3, <1>4, <2>1, <2>3
    <3>2. i - 1 \in 1 .. l + 2 /\ At(Raw(f), 1, i) = Raw(f)[i - 1]
      BY <1>1, <3>1 DEF At
    <3>3. At(Raw(f), 1, i) <= 255
      BY <1>7, <3>2
    <3>4. \A b \in Nat : b # 0 /\ b <= 255 => b \in 1 .. 255
      OBVIOUS
    <3> QED BY <3>1, <3>3, <3>4
  <2> QED BY <2>2, <2>3
<1>9. Stuff(Raw(f)) \in [1 .. n -> 1 .. 255]
  BY <1>4, <1>8
<1>10. Encode(f) \in Seq(1 .. 255) /\ Len(Encode(f)) = n
  <2>1. Encode(f) \in [1 .. n -> 1 .. 255]
    BY <1>9, EncodeIsStuff
  <2> QED BY <1>3, <2>1
<1> QED BY <1>2, <1>6, <1>10 DEF EncodedSize

-----------------------------------------------------------------------------
(* The arithmetic of the timer.                                            *)

LEMMA Numbers == TimerMod \in Nat /\ FrameTimeout \in Nat /\ 0 < FrameTimeout /\ FrameTimeout < TimerMod
BY TimeoutAssumption

\* A number near zero, reduced to the timer's range.
LEMMA Reduced ==
  ASSUME NEW x \in Int
  PROVE  /\ x % TimerMod \in Times
         /\ x \in Times => x % TimerMod = x
         /\ - TimerMod <= x /\ x < 0 => x % TimerMod = x + TimerMod
         /\ TimerMod <= x /\ x < 2 * TimerMod => x % TimerMod = x - TimerMod
BY Numbers DEF Times

\* The two ways a difference comes about.
LEMMA MinusIs ==
  ASSUME NEW a \in Times, NEW b \in Times
  PROVE  (a - b) % TimerMod = IF b <= a THEN a - b ELSE a - b + TimerMod
<1>1. a \in Int /\ b \in Int /\ a - b \in Int /\ - TimerMod <= a - b
  BY Numbers DEF Times
<1>2. CASE b <= a
  <2>1. a - b \in Times
    BY <1>2, Numbers DEF Times
  <2> QED BY <1>1, <1>2, <2>1, Reduced
<1>3. CASE ~ b <= a
  <2>1. a - b < 0
    BY <1>3, Numbers DEF Times
  <2> QED BY <1>1, <1>3, <2>1, Reduced
<1> QED BY <1>2, <1>3

LEMMA MinusSelf == ASSUME NEW a \in Times PROVE (a - a) % TimerMod = 0
BY MinusIs, Numbers DEF Times

LEMMA NextTime ==
  ASSUME NEW a \in Times
  PROVE  (a + 1) % TimerMod \in Times /\ (a + 1) % TimerMod = IF a = TimerMod - 1 THEN 0 ELSE a + 1
<1>1. a + 1 \in Int /\ a \in Int
  BY Numbers DEF Times
<1>2. CASE a = TimerMod - 1
  BY <1>1, <1>2, Reduced, Numbers
<1>3. CASE a # TimerMod - 1
  <2>1. a + 1 \in Times
    BY <1>3, Numbers DEF Times
  <2> QED BY <1>1, <1>3, <2>1, Reduced
<1> QED BY <1>2, <1>3

\* A tick makes an age one larger, unless the timer comes round to it.
LEMMA Later ==
  ASSUME NEW a \in Times, NEW b \in Times, (a - b) % TimerMod < TimerMod - 1
  PROVE  (((a + 1) % TimerMod) - b) % TimerMod = ((a - b) % TimerMod) + 1
<1> DEFINE next == (a + 1) % TimerMod
<1>1. next \in Times /\ next = IF a = TimerMod - 1 THEN 0 ELSE a + 1
  BY NextTime
<1> HIDE DEF next
<1>2. (next - b) % TimerMod = IF b <= next THEN next - b ELSE next - b + TimerMod
  BY <1>1, MinusIs
<1>3. (a - b) % TimerMod = IF b <= a THEN a - b ELSE a - b + TimerMod
  BY MinusIs
<1>4. (IF b <= a THEN a - b ELSE a - b + TimerMod) < TimerMod - 1
  BY <1>3
<1>5. (IF b <= next THEN next - b ELSE next - b + TimerMod)
        = (IF b <= a THEN a - b ELSE a - b + TimerMod) + 1
  BY <1>1, <1>4, Numbers DEF Times
<1>6. (next - b) % TimerMod = ((a - b) % TimerMod) + 1
  BY <1>2, <1>3, <1>5
<1> QED BY <1>6 DEF next

-----------------------------------------------------------------------------
(* The receiver.                                                           *)

LEMMA DecodesToFrames ==
  ASSUME TypeOK
  PROVE  \A f : f \in Decode(encoded) <=> f \in Frame /\ Encode(f) = encoded
<1>1. encoded \in Seq(Byte \ {0})
  BY DEF TypeOK
<1> QED BY <1>1, DecodesEncoded

LEMMA TypesKept == TypeOK /\ [Next]_vars => TypeOK'
<1> SUFFICES ASSUME TypeOK, [Next]_vars PROVE TypeOK'
  OBVIOUS
<1>1. /\ now \in Times /\ started \in Times
      /\ encoded \in Seq(Byte \ {0}) /\ Len(encoded) \in Nat /\ Len(encoded) <= EncodedSize
      /\ discard \in BOOLEAN /\ outcome \in {Nothing, Failed} \cup Frame
  BY LenProperties DEF TypeOK
<1>2. EncodedSize \in Nat
  BY LengthAssumption DEF EncodedSize
<1>3. <<>> \in Seq(Byte \ {0}) /\ Len(<<>>) <= EncodedSize
  BY <1>2
<1>4. ASSUME NEW byte \in Byte, FeedData(byte) PROVE TypeOK'
  <2>1. encoded' = Append(encoded, byte) /\ byte \in Byte \ {0} /\ Len(encoded) < EncodedSize
    BY <1>1, <1>2, <1>4 DEF FeedData, Full
  <2>2. encoded' \in Seq(Byte \ {0}) /\ Len(encoded') <= EncodedSize
    BY <1>1, <1>2, <2>1
  <2>3. now' \in Times /\ started' \in Times
    BY <1>1, <1>4 DEF FeedData
  <2> QED BY <1>1, <1>4, <2>2, <2>3 DEF FeedData, TypeOK
<1>5. ASSUME NEW byte \in Byte, FeedDataDiscarded(byte) PROVE TypeOK'
  BY <1>1, <1>5 DEF FeedDataDiscarded, TypeOK
<1>6. CASE FeedDelimiter
  <2>1. outcome' \in {Nothing, Failed} \cup Frame
    BY <1>6, DecodesToFrames DEF FeedDelimiter
  <2> QED BY <1>1, <1>3, <1>6, <2>1 DEF FeedDelimiter, TypeOK
<1>7. CASE LinkError
  BY <1>1, <1>7 DEF LinkError, TypeOK
<1>8. CASE Tick
  <2>1. now' \in Times
    BY <1>1, <1>8, NextTime DEF Tick
  <2> QED BY <1>1, <1>8, <2>1 DEF Tick, TypeOK, receiver
<1>9. CASE UNCHANGED vars
  BY <1>1, <1>9 DEF vars, receiver, TypeOK
<1> QED BY <1>4, <1>5, <1>6, <1>7, <1>8, <1>9 DEF Next

\* Whatever bytes come: auth_receiver_t never holds more than its buffer or a zero,
\* and what auth_frame_feed hands out is nothing, an error or a frame.
THEOREM TypeCorrect == Spec => []TypeOK
<1>1. Init => TypeOK
  <2>1. 0 \in Times
    BY Numbers DEF Times
  <2>2. EncodedSize \in Nat
    BY LengthAssumption DEF EncodedSize
  <2>3. <<>> \in Seq(Byte \ {0}) /\ Len(<<>>) <= EncodedSize
    BY <2>2
  <2> QED BY <2>1, <2>3 DEF Init, TypeOK
<1> QED BY <1>1, TypesKept, PTL DEF Spec

LEMMA Results == Stream!Nothing = Nothing /\ Stream!Failed = Failed
BY DEF Nothing, Failed, Stream!Nothing, Stream!Failed

LEMMA InitImplements == Init => Stream!Init
BY Results DEF Init, Stream!Init, Arrived, Kept

\* The receiver's deadline is that of the bytes it keeps.
LEMMA LateMeansLate == ASSUME ~ discard PROVE Arrived = encoded /\ (Stream!Late <=> Late)
BY DEF Arrived, Kept, Late, Stream!Late

LEMMA StepImplements ==
  ASSUME TypeOK, TypeOK', [Next]_vars
  PROVE  [Stream!Next]_(Stream!stream)
<1>1. /\ now \in Times /\ started \in Times /\ discard \in BOOLEAN
      /\ encoded \in Seq(Byte \ {0})
  BY DEF TypeOK
<1>2. ASSUME NEW byte \in Byte, FeedData(byte) PROVE Stream!Next
  <2>1. /\ ~ discard /\ ~ discard' /\ byte \in Byte \ {0}
        /\ encoded' = Append(encoded, byte) /\ outcome' = Nothing
        /\ started' = (IF encoded = <<>> THEN now ELSE started) /\ now' = now
    BY <1>2 DEF FeedData, Discarding
  <2>2. Arrived = encoded /\ Arrived' = Append(Arrived, byte) /\ Arrived' # <<>>
    BY <1>1, <2>1 DEF Arrived
  <2>3. Kept' = Kept
    <3>1. CASE encoded = <<>>
      BY <1>1, <2>1, <2>2, <3>1, MinusSelf DEF Kept, Age
    <3>2. CASE encoded # <<>>
      BY <2>1, <2>2, <3>2 DEF Kept, Age
    <3> QED BY <3>1, <3>2
  <2>4. Stream!Data
    <3>1. \E b \in Byte \ {0} : Arrived' = Append(Arrived, b)
      BY <2>1, <2>2
    <3>2. discard' = discard
      BY <1>2 DEF FeedData
    <3> QED BY <2>1, <2>3, <3>1, <3>2, Results DEF Stream!Data
  <2> QED BY <2>4 DEF Stream!Next
<1>3. ASSUME NEW byte \in Byte, FeedDataDiscarded(byte) PROVE Stream!Next
  <2>1. (Discarding \/ Full) /\ discard' = TRUE /\ outcome' = Nothing
    BY <1>3 DEF FeedDataDiscarded
  <2>2. Arrived' = <<>> /\ Kept' = 0
    BY <2>1 DEF Arrived, Kept
  <2>3. discard \/ Stream!Late \/ Len(Arrived) >= EncodedSize
    BY <2>1, LateMeansLate DEF Discarding, Full
  <2>4. Stream!DataLost
    BY <2>1, <2>2, <2>3, Results DEF Stream!DataLost, Stream!Spoil
  <2> QED BY <2>4 DEF Stream!Next
<1>4. CASE FeedDelimiter
  <2>1. encoded' = <<>> /\ discard' = FALSE
    BY <1>4 DEF FeedDelimiter
  <2>2. Arrived' = <<>> /\ Kept' = 0
    BY <2>1 DEF Arrived, Kept
  <2>3. \A f : f \in Decode(encoded) <=> f \in Frame /\ Encode(f) = encoded
    BY DecodesToFrames
  <2>4. Stream!DelimiterError \/ Stream!DelimiterNothing \/ Stream!DelimiterFrame
    <3>1. CASE outcome' = Failed /\ (Discarding \/ (encoded # <<>> /\ Decode(encoded) = {}))
      <4>1. discard \/ Stream!Late \/ (Arrived # <<>> /\ \A f \in Frame : Encode(f) # Arrived)
        <5>1. CASE discard
          BY <5>1
        <5>2. CASE ~ discard
          BY <2>3, <3>1, <5>2, LateMeansLate DEF Discarding
        <5> QED BY <5>1, <5>2
      <4> QED BY <3>1, <4>1, Results DEF Stream!DelimiterError
    <3>2. CASE ~ Discarding /\ encoded = <<>> /\ outcome' = Nothing
      BY <3>2, Results DEF Discarding, Arrived, Stream!DelimiterNothing
    <3>3. CASE ~ Discarding /\ outcome' \in Decode(encoded)
      <4>1. ~ discard /\ ~ Stream!Late /\ Arrived = encoded
        BY <3>3, LateMeansLate DEF Discarding
      <4>2. outcome' \in Frame /\ Encode(outcome') = Arrived
        BY <2>3, <3>3, <4>1
      <4> QED BY <4>1, <4>2 DEF Stream!DelimiterFrame
    <3> QED BY <1>4, <3>1, <3>2, <3>3 DEF FeedDelimiter
  <2>5. Stream!Delimiter
    BY <2>1, <2>2, <2>4 DEF Stream!Delimiter
  <2> QED BY <2>5 DEF Stream!Next
<1>5. CASE LinkError
  <2>1. discard' = TRUE /\ outcome' = Failed
    BY <1>5 DEF LinkError
  <2>2. Arrived' = <<>> /\ Kept' = 0
    BY <2>1 DEF Arrived, Kept
  <2>3. Stream!LinkError
    BY <2>1, <2>2, Results DEF Stream!LinkError, Stream!Spoil
  <2> QED BY <2>3 DEF Stream!Next
<1>6. CASE Tick
  <2>1. /\ UNCHANGED <<encoded, started, discard>> /\ outcome' = Nothing
        /\ now' = (now + 1) % TimerMod
        /\ encoded # <<>> /\ ~ discard => Age < TimerMod - 1
    BY <1>6 DEF Tick, receiver
  <2>2. Arrived' = Arrived
    BY <2>1 DEF Arrived
  <2>3. Kept' = IF Arrived = <<>> THEN 0 ELSE Kept + 1
    <3>1. CASE Arrived = <<>>
      BY <2>2, <3>1 DEF Kept
    <3>2. CASE Arrived # <<>>
      <4>1. encoded # <<>> /\ ~ discard
        BY <3>2 DEF Arrived
      <4>2. Age' = Age + 1
        BY <1>1, <2>1, <4>1, Later DEF Age
      <4> QED BY <2>2, <3>2, <4>2 DEF Kept
    <3> QED BY <3>1, <3>2
  <2>4. Stream!Pass
    BY <2>1, <2>2, <2>3, Results DEF Stream!Pass
  <2> QED BY <2>4 DEF Stream!Next
<1>7. CASE UNCHANGED vars
  BY <1>7 DEF vars, receiver, Stream!stream, Arrived, Kept, Age
<1> QED BY <1>2, <1>3, <1>4, <1>5, <1>6, <1>7 DEF Next

\* The receiver implements FrameStream, for frames of any lengths, any bytes and a
\* timer of any width: it hands out exactly the frames that were encoded, each when
\* all its bytes came without an error and in time, and recovers at every delimiter.
THEOREM FramesDelivered == Spec => DeliversFrames
<1>1. TypeOK /\ TypeOK' /\ [Next]_vars => [Stream!Next]_(Stream!stream)
  BY StepImplements
<1> QED BY InitImplements, <1>1, TypeCorrect, PTL DEF Spec, DeliversFrames, Stream!Spec
=============================================================================
