------------------------- MODULE JournalScan_proofs -------------------------
(***************************************************************************)
(* Theorems about the loop of auth_journal_load, for blocks of any size,   *)
(* counters of any width and any contents.                                 *)
(*                                                                         *)
(* IInv is inductive (IInvHolds): what the loop's locals say of the slots  *)
(* it has been through.                                                    *)
(***************************************************************************)
EXTENDS JournalScan, TLAPS

LEMMA RecordIsNat ==
  ASSUME NEW cell, IsRecord(cell)
  PROVE  cell \in Nat /\ cell > 0 /\ cell <= CounterMax /\ ~ ReadsErased(cell)
BY CellAssumption, CounterAssumption DEF IsRecord, ReadsErased, Counters

LEMMA CellType ==
  ASSUME TypeOK, b \in Blocks
  PROVE  i \in Slots /\ flash[b][i] \in Cells
BY DEF TypeOK, Rows

LEMMA WholeBlock ==
  ASSUME NEW row PROVE Ordered(row) <=> OrderedUpTo(row, BlockSlots)
BY DEF Ordered, OrderedUpTo, Slots

LEMMA InitHolds == Init => IInv
<1> SUFFICES ASSUME Init PROVE IInv
  OBVIOUS
<1>1. 0 \in Slots /\ 0 \in 0 .. BlockSlots /\ 0 \in 0 .. CounterMax /\ Seed \in Counters
  BY GeometryAssumption, CounterAssumption DEF Slots, Counters
<1>2. TypeOK
  <2>1. b \in 0 .. 2 /\ active \in Blocks
    BY DEF Init, Blocks
  <2> QED BY <1>1, <2>1 DEF Init, TypeOK
<1>3. BlocksSoFar
  BY DEF Init, BlocksSoFar, OrderedUpTo, Blocks
<1>4. NewestSoFar
  BY DEF Init, NewestSoFar, Scanned, Blocks, Slots
<1> QED BY <1>2, <1>3, <1>4 DEF Init, IInv

\* The slots scanned after a step are those before and the current one.
LEMMA ScanGrows ==
  ASSUME TypeOK, b \in Blocks, NEW g, NEW l, Advance(g, l),
         NEW d \in Blocks, NEW k \in Slots
  PROVE  Scanned(d, k)' <=> Scanned(d, k) \/ (d = b /\ k = i)
<1>1. i \in 0 .. BlockSlots - 1 /\ k \in 0 .. BlockSlots - 1 /\ BlockSlots \in Nat
  BY GeometryAssumption DEF TypeOK, Slots
<1>2. b \in {0, 1} /\ d \in {0, 1}
  BY DEF Blocks
<1>3. CASE MoreSlots
  BY <1>1, <1>2, <1>3 DEF Advance, Scanned
<1>4. CASE ~ MoreSlots
  BY <1>1, <1>2, <1>4 DEF Advance, Scanned, MoreSlots
<1> QED BY <1>3, <1>4

\* A step on to the next slot, from a slot that fits what went before.
LEMMA BlocksStep ==
  ASSUME IInv, b \in Blocks, flash' = flash, NEW g \in BOOLEAN, NEW l, Advance(g, l),
         OrderedUpTo(flash[b], i + 1),
         g <=> \E k \in 0 .. i : ReadsErased(flash[b][k]),
         ~ g => l = flash[b][i]
  PROVE  BlocksSoFar'
<1>1. i \in 0 .. BlockSlots - 1 /\ BlockSlots \in Nat /\ b \in {0, 1}
  BY GeometryAssumption DEF IInv, TypeOK, Slots, Blocks
<1>2. CASE MoreSlots
  <2>1. b' = b /\ i' = i + 1 /\ gap' = g /\ last' = l
    BY <1>2 DEF Advance
  <2>2. b' # 2 /\ i' - 1 = i /\ i' # 0
    BY <1>1, <2>1
  <2>3. OrderedUpTo(flash[b], i)'
    BY <2>1
  <2> QED BY <1>1, <2>1, <2>2, <2>3 DEF IInv, BlocksSoFar
<1>3. CASE ~ MoreSlots
  <2>1. b' = b + 1 /\ i' = 0 /\ ~ gap' /\ last' = 0 /\ i + 1 = BlockSlots
    BY <1>1, <1>3 DEF Advance, MoreSlots
  <2>2. Ordered(flash[b])
    BY <2>1, WholeBlock
  <2>3. \A d \in Blocks : d < b' => Ordered(flash[d])
    BY <1>1, <2>1, <2>2 DEF IInv, BlocksSoFar, Blocks
  <2> QED BY <2>1, <2>3 DEF BlocksSoFar, OrderedUpTo, Ordered
<1> QED BY <1>2, <1>3

LEMMA AdvanceType ==
  ASSUME TypeOK, b \in Blocks, NEW g \in BOOLEAN, NEW l \in 0 .. CounterMax, Advance(g, l)
  PROVE  b' \in 0 .. 2 /\ i' \in Slots /\ gap' \in BOOLEAN /\ last' \in 0 .. CounterMax
<1>1. i \in 0 .. BlockSlots - 1 /\ BlockSlots \in Nat \ {0} /\ b \in {0, 1}
  BY GeometryAssumption DEF TypeOK, Slots, Blocks
<1>2. CASE MoreSlots
  BY <1>1, <1>2 DEF Advance, MoreSlots, Slots
<1>3. CASE ~ MoreSlots
  <2>1. b' = b + 1 /\ i' = 0 /\ gap' = FALSE /\ last' = 0
    BY <1>3 DEF Advance
  <2>2. b' \in 0 .. 2 /\ i' \in Slots
    BY <1>1, <2>1 DEF Slots
  <2>3. last' \in 0 .. CounterMax
    BY <2>1, CounterAssumption
  <2> QED BY <2>1, <2>2, <2>3
<1> QED BY <1>2, <1>3

LEMMA SkipErasedHolds == ASSUME IInv, SkipErased PROVE IInv'
<1> DEFINE cell == flash[b][i]
<1>1. TypeOK /\ b \in Blocks /\ result = "scanning"
  BY DEF IInv, SkipErased, Scanning
<1>2. i \in 0 .. BlockSlots - 1 /\ BlockSlots \in Nat
  BY <1>1, GeometryAssumption DEF TypeOK, Slots
<1>3. Advance(TRUE, last) /\ ReadsErased(cell)
  BY DEF SkipErased
<1>4. UNCHANGED <<flash, found, counter, active, next, result>>
  BY DEF SkipErased
<1>5. TypeOK'
  BY <1>1, <1>3, <1>4, AdvanceType DEF TypeOK
<1>6. BlocksSoFar'
  <2>1. OrderedUpTo(flash[b], i + 1)
    BY <1>1, <1>2, <1>3 DEF IInv, BlocksSoFar, OrderedUpTo
  <2>2. \E k \in 0 .. i : ReadsErased(flash[b][k])
    BY <1>2, <1>3
  <2> QED BY <1>1, <1>3, <1>4, <2>1, <2>2, BlocksStep
<1>7. NewestSoFar'
  <2>1. ~ IsRecord(cell) /\ ~ Qualifies(cell)
    BY <1>3, RecordIsNat DEF Qualifies
  <2>2. \A d \in Blocks, k \in Slots :
          Scanned(d, k)' <=> Scanned(d, k) \/ (d = b /\ k = i)
    BY <1>1, <1>3, ScanGrows
  <2>3. CASE found
    <3>1. next > 0 /\ active \in Blocks /\ next - 1 \in Slots
      BY <1>1, <1>2, <2>3 DEF IInv, NewestSoFar, TypeOK, Slots
    <3>2. Scanned(active, next - 1)'
      BY <1>4, <2>2, <2>3, <3>1 DEF IInv, NewestSoFar, Scanned
    <3> QED BY <1>4, <2>1, <2>2, <2>3, <3>1, <3>2 DEF IInv, NewestSoFar
  <2>4. CASE ~ found
    BY <1>4, <2>1, <2>2, <2>4 DEF IInv, NewestSoFar
  <2> QED BY <2>3, <2>4
<1> QED BY <1>1, <1>4, <1>5, <1>6, <1>7 DEF IInv

LEMMA TakeRecordHolds == ASSUME IInv, TakeRecord PROVE IInv'
<1> DEFINE cell == flash[b][i]
<1>1. TypeOK /\ b \in Blocks /\ i \in Slots /\ result = "scanning"
  BY DEF IInv, TypeOK, TakeRecord, Scanning
<1>2. i \in 0 .. BlockSlots - 1 /\ BlockSlots \in Nat
  BY <1>1, GeometryAssumption DEF TypeOK, Slots
<1>3. Advance(gap, cell) /\ ~ gap /\ IsRecord(cell) /\ cell > last
  BY DEF TakeRecord, AcceptableHere
<1>4. UNCHANGED <<flash, result>>
  BY DEF TakeRecord
<1>5. cell \in Nat /\ cell <= CounterMax /\ cell \in Counters /\ ~ ReadsErased(cell)
  BY <1>3, RecordIsNat DEF IsRecord
<1>6. gap = FALSE
  BY <1>1, <1>3 DEF TypeOK
<1>7. TypeOK'
  <2>1. b' \in 0 .. 2 /\ i' \in Slots /\ gap' \in BOOLEAN /\ last' \in 0 .. CounterMax
    <3>1. cell \in 0 .. CounterMax /\ gap \in BOOLEAN
      BY <1>1, <1>5, CounterAssumption DEF TypeOK
    <3> QED BY <1>1, <1>3, <3>1, AdvanceType
  <2>2. i + 1 \in 0 .. BlockSlots
    BY <1>2
  <2>3. CASE LargestWins(cell)
    BY <1>1, <1>4, <1>5, <2>1, <2>2, <2>3 DEF TakeRecord, TypeOK
  <2>4. CASE ~ LargestWins(cell)
    BY <1>1, <1>4, <2>1, <2>4 DEF TakeRecord, TypeOK
  <2> QED BY <2>3, <2>4
<1>8. BlocksSoFar'
  <2>1. OrderedUpTo(flash[b], i) /\ \A k \in 0 .. i - 1 : ~ ReadsErased(flash[b][k])
    BY <1>1, <1>3 DEF IInv, BlocksSoFar
  <2>2. \A k \in 0 .. i - 1 : IsRecord(flash[b][k]) /\ flash[b][k] < cell
    <3> SUFFICES ASSUME NEW k \in 0 .. i - 1
                 PROVE  IsRecord(flash[b][k]) /\ flash[b][k] < cell
      OBVIOUS
    <3>1. IsRecord(flash[b][k]) /\ flash[b][k] \in Nat
      BY <2>1, RecordIsNat DEF OrderedUpTo
    <3>2. last = flash[b][i - 1] /\ i - 1 \in 0 .. i - 1
      BY <1>1, <1>2, <1>3 DEF IInv, BlocksSoFar
    <3>3. k = i - 1 \/ k \in 0 .. (i - 1) - 1
      BY <1>2
    <3>4. IsRecord(flash[b][i - 1]) /\ flash[b][i - 1] \in Nat
      BY <2>1, <3>2, RecordIsNat DEF OrderedUpTo
    <3>5. flash[b][k] <= flash[b][i - 1]
      BY <2>1, <3>1, <3>2, <3>3, <3>4 DEF OrderedUpTo
    <3> QED BY <1>3, <1>5, <3>1, <3>2, <3>4, <3>5
  <2>3. OrderedUpTo(flash[b], i + 1)
    BY <1>2, <1>3, <2>1, <2>2 DEF OrderedUpTo
  <2>4. ~ \E k \in 0 .. i : ReadsErased(flash[b][k])
    BY <1>2, <1>5, <2>1
  <2> QED BY <1>1, <1>3, <1>4, <1>6, <2>3, <2>4, BlocksStep
<1>9. NewestSoFar'
  <2>1. \A d \in Blocks, k \in Slots :
          Scanned(d, k)' <=> Scanned(d, k) \/ (d = b /\ k = i)
    BY <1>1, <1>3, ScanGrows
  <2>2. counter \in Nat /\ counter >= Seed /\ Seed \in Nat
    BY <1>1, CounterAssumption DEF IInv, NewestSoFar, TypeOK, Counters, Qualifies
  <2>3. \A d \in Blocks, k \in Slots : Scanned(d, k) => d <= b
    BY <1>1 DEF Scanned, Blocks
  <2>4. CASE LargestWins(cell)
    <3>1. counter' = cell /\ active' = b /\ next' = i + 1 /\ found' = TRUE /\ cell >= counter
      BY <2>4 DEF TakeRecord, LargestWins
    <3>2. next' > 0 /\ next' - 1 = i
      BY <1>2, <3>1
    <3>3. Scanned(active, next - 1)'
      BY <1>1, <2>1, <3>1, <3>2 DEF Scanned
    <3>4. Qualifies(cell)
      BY <1>3, <1>5, <2>2, <3>1 DEF Qualifies
    <3>5. ASSUME NEW d \in Blocks, NEW k \in Slots, Scanned(d, k), IsRecord(flash[d][k])
          PROVE  flash[d][k] < cell \/ (flash[d][k] = cell /\ d <= b)
      <4>1. flash[d][k] \in Nat
        BY <3>5, RecordIsNat
      <4>2. CASE found
        BY <1>5, <2>2, <2>3, <3>1, <3>5, <4>1, <4>2 DEF IInv, NewestSoFar
      <4>3. CASE ~ found
        <5>1. ~ flash[d][k] >= Seed
          BY <3>5, <4>3 DEF IInv, NewestSoFar, Qualifies
        <5> QED BY <1>5, <2>2, <3>1, <4>1, <5>1
      <4> QED BY <4>2, <4>3
    <3> QED BY <1>1, <1>4, <1>5, <2>1, <3>1, <3>2, <3>3, <3>4, <3>5
            DEF NewestSoFar, Blocks
  <2>5. CASE ~ LargestWins(cell)
    <3>1. UNCHANGED <<counter, active, next, found>> /\ cell < counter
      BY <1>5, <2>2, <2>5 DEF TakeRecord, LargestWins
    <3>2. CASE found
      <4>1. next > 0 /\ active \in Blocks /\ next - 1 \in Slots
        BY <1>1, <1>2, <3>2 DEF IInv, NewestSoFar, TypeOK, Slots
      <4>2. Scanned(active, next - 1)'
        BY <2>1, <3>1, <3>2, <4>1 DEF IInv, NewestSoFar, Scanned
      <4> QED BY <1>4, <2>1, <3>1, <3>2, <4>1, <4>2 DEF IInv, NewestSoFar
    <3>3. CASE ~ found
      <4>1. counter = Seed /\ ~ Qualifies(cell)
        BY <1>5, <2>2, <3>1, <3>3 DEF IInv, NewestSoFar, Qualifies
      <4> QED BY <1>4, <2>1, <3>1, <3>3, <4>1 DEF IInv, NewestSoFar
    <3> QED BY <3>2, <3>3
  <2> QED BY <2>4, <2>5
<1> QED BY <1>1, <1>4, <1>7, <1>8, <1>9 DEF IInv

\* Nothing but the result changes.
LEMMA ResultHolds ==
  ASSUME IInv, UNCHANGED <<flash, b, i, gap, last, found, counter, active, next>>,
         result' \in {"scanning", "loaded", "refused"},
         result' = "loaded" => b = 2 /\ found,
         result' = "refused" => ~ Loadable(flash)
  PROVE  IInv'
<1>1. TypeOK'
  BY DEF IInv, TypeOK
<1>2. BlocksSoFar' /\ NewestSoFar'
  BY DEF IInv, BlocksSoFar, NewestSoFar, Scanned
<1> QED BY <1>1, <1>2 DEF IInv

\* A slot the loop refuses is one no loadable journal has there.
LEMMA RefuseSlotHolds == ASSUME IInv, RefuseSlot PROVE IInv'
<1> DEFINE cell == flash[b][i]
<1>1. TypeOK /\ b \in Blocks /\ i \in Slots
  BY DEF IInv, TypeOK, RefuseSlot, Scanning
<1>2. ~ ReadsErased(cell) /\ ~ AcceptableHere(cell)
  BY DEF RefuseSlot
<1>3. SUFFICES ASSUME Loadable(flash) PROVE FALSE
  BY ResultHolds DEF RefuseSlot
<1>4. IsRecord(cell) /\ \A k \in 0 .. i - 1 : IsRecord(flash[b][k]) /\ flash[b][k] < cell
  BY <1>1, <1>2, <1>3 DEF Loadable, Ordered
<1>5. ~ gap
  BY <1>1, <1>4, RecordIsNat DEF IInv, BlocksSoFar
<1>6. cell > last
  <2>1. i \in Nat /\ last = IF i = 0 THEN 0 ELSE flash[b][i - 1]
    BY <1>1, <1>5 DEF IInv, BlocksSoFar, Slots
  <2>2. CASE i = 0
    BY <1>4, <2>1, <2>2, RecordIsNat
  <2>3. CASE i # 0
    <3>1. i - 1 \in 0 .. i - 1 /\ last = flash[b][i - 1]
      BY <2>1, <2>3
    <3> QED BY <1>4, <3>1, RecordIsNat
  <2> QED BY <2>2, <2>3
<1> QED BY <1>2, <1>4, <1>5, <1>6 DEF AcceptableHere

LEMMA FinishHolds == ASSUME IInv, Finish PROVE IInv'
<1>1. b = 2
  BY DEF Finish
<1>2. CASE found
  BY <1>1, <1>2, ResultHolds DEF Finish
<1>3. CASE ~ found
  <2>1. \A d \in Blocks, k \in Slots : ~ Qualifies(flash[d][k])
    BY <1>1, <1>3 DEF IInv, NewestSoFar, Scanned, Blocks
  <2> QED BY <1>3, <2>1, ResultHolds DEF Finish, Loadable
<1> QED BY <1>2, <1>3

-----------------------------------------------------------------------------
\* The inductive invariant holds throughout.
THEOREM IInvHolds == Spec => []IInv
<1>1. IInv /\ [Next]_vars => IInv'
  <2> SUFFICES ASSUME IInv, [Next]_vars PROVE IInv'
    OBVIOUS
  <2>1. CASE UNCHANGED vars
    BY <2>1, ResultHolds DEF IInv, TypeOK, vars
  <2> QED BY <2>1, SkipErasedHolds, TakeRecordHolds, RefuseSlotHolds, FinishHolds DEF Next
<1> QED BY <1>1, InitHolds, PTL DEF Spec

\* Every variable of auth_journal_load keeps its type: the loop never leaves its
\* blocks, and next never its block.
THEOREM TypeCorrect == Spec => []TypeOK
<1>1. IInv => TypeOK
  BY DEF IInv
<1> QED BY <1>1, IInvHolds, PTL

\* A journal that was loaded has all blocks in order and a newest record.
LEMMA LoadedIsLoadable ==
  ASSUME IInv, result = "loaded"
  PROVE  /\ Loadable(flash) /\ active \in Blocks /\ next - 1 \in Slots
         /\ NewestAt(flash, active, next - 1)
<1>1. b = 2 /\ found
  BY DEF IInv
<1>2. next > 0 /\ active \in Blocks /\ next - 1 \in Slots
  BY <1>1, GeometryAssumption DEF IInv, NewestSoFar, TypeOK, Slots
<1>3. \A d \in Blocks : Ordered(flash[d])
  BY <1>1 DEF IInv, BlocksSoFar, Blocks
<1>4. \A d \in Blocks, k \in Slots : Scanned(d, k)
  BY <1>1 DEF Scanned, Blocks
<1> QED BY <1>1, <1>2, <1>3, <1>4 DEF IInv, NewestSoFar, Loadable, NewestAt

\* auth_journal_load accepts exactly the loadable contents.
THEOREM AcceptsLoadable == Spec => []AcceptsExactlyLoadable
<1>1. IInv => AcceptsExactlyLoadable
  BY LoadedIsLoadable DEF AcceptsExactlyLoadable, IInv
<1> QED BY <1>1, IInvHolds, PTL

\* auth_journal_load ends at the newest record, right before the next free slot.
THEOREM StopsAtNewest == Spec => []EndsAtNewest
<1>1. ASSUME IInv, result = "loaded", next < BlockSlots
      PROVE  ReadsErased(flash[active][next])
  <2> DEFINE cell == flash[active][next]
             new == flash[active][next - 1]
  <2>1. next \in Slots /\ active \in Blocks /\ next - 1 \in 0 .. next - 1
    BY <1>1, LoadedIsLoadable, GeometryAssumption DEF IInv, TypeOK, Slots
  <2>2. Ordered(flash[active]) /\ NewestAt(flash, active, next - 1)
    BY <1>1, <2>1, LoadedIsLoadable DEF Loadable
  <2>3. SUFFICES ASSUME IsRecord(cell) PROVE FALSE
    BY <2>1, <2>2 DEF Ordered
  <2>4. new < cell
    BY <2>1, <2>2, <2>3, RecordIsNat DEF Ordered
  <2>5. cell < new \/ cell = new
    BY <2>1, <2>2, <2>3 DEF NewestAt
  <2>6. cell \in Nat /\ new \in Nat
    BY <2>2, <2>3, RecordIsNat DEF NewestAt, Qualifies
  <2> QED BY ONLY <2>4, <2>5, <2>6
<1>2. ASSUME IInv, result = "loaded"
      PROVE  next > 0 /\ counter = flash[active][next - 1]
  BY <1>2 DEF IInv, NewestSoFar
<1>3. IInv => EndsAtNewest
  BY <1>1, <1>2, LoadedIsLoadable DEF EndsAtNewest
<1> QED BY <1>3, IInvHolds, PTL
=============================================================================
