--------------------------- MODULE Journal_proofs ---------------------------
(***************************************************************************)
(* Theorems about the counter journal, for blocks of any size, counters of *)
(* any width and any seed.                                                 *)
(*                                                                         *)
(* IInv is inductive (IInvHolds) and implies the safety properties of      *)
(* Journal.  Each step of the journal has a lemma about what it does to a  *)
(* flash that matches the RAM.                                             *)
(***************************************************************************)
EXTENDS Journal, TLAPS

\* Records are numbers, in the slots of a block as anywhere.
LEMMA RecordIsNat ==
  ASSUME NEW cell, IsRecord(cell)
  PROVE  cell \in Nat /\ cell > 0 /\ cell # Erased /\ cell # Blank /\ ~ ReadsErased(cell)
BY CellAssumption, CounterAssumption DEF IsRecord, ReadsErased, Counters

\* No record is larger than the newest one.
LEMMA NewestIsLargest ==
  ASSUME NEW f, NEW b \in Blocks, NEW i \in Slots, NewestAt(f, b, i),
         NEW d \in Blocks, NEW k \in Slots, IsRecord(f[d][k])
  PROVE  f[d][k] <= f[b][i]
<1> DEFINE new == f[b][i]
           cell == f[d][k]
<1>1. new \in Nat /\ cell \in Nat
  BY RecordIsNat DEF NewestAt, Qualifies
<1>2. cell < new \/ cell = new
  BY DEF NewestAt
<1> QED BY ONLY <1>1, <1>2

\* In a block the load accepts, every slot before a record holds a record.
LEMMA RecordsComeFirst ==
  ASSUME NEW row, Ordered(row), NEW i \in Slots, IsRecord(row[i])
  PROVE  \A k \in 0 .. i - 1 : IsRecord(row[k]) /\ row[k] < row[i]
BY RecordIsNat DEF Ordered

\* Behind the newest record the active block is free (auth_journal_t.next).
LEMMA FreeBehindNewest ==
  ASSUME TypeOK, RamMatches(flash), NEW k \in next .. BlockSlots - 1
  PROVE  ReadsErased(flash[active][k])
<1>1. k \in Slots /\ next - 1 \in Slots /\ next - 1 \in 0 .. k - 1
  BY GeometryAssumption DEF TypeOK, RamMatches, Slots
<1>2. active \in Blocks /\ Ordered(flash[active]) /\ NewestAt(flash, active, next - 1)
  BY DEF TypeOK, RamMatches, Loadable
<1>3. SUFFICES ASSUME IsRecord(flash[active][k]) PROVE FALSE
  BY <1>1, <1>2 DEF Ordered
<1> DEFINE new == flash[active][next - 1]
           cell == flash[active][k]
<1>4. new < cell
  BY <1>1, <1>2, <1>3, RecordsComeFirst
<1>5. cell <= new
  BY <1>1, <1>2, <1>3, NewestIsLargest
<1>6. new \in Nat /\ cell \in Nat
  BY <1>2, <1>3, RecordIsNat DEF NewestAt, Qualifies
<1> QED BY ONLY <1>4, <1>5, <1>6

\* A flash that matches the RAM still does when the other block is erased.
LEMMA MatchesWithOtherErased ==
  ASSUME TypeOK, RamMatches(flash), NEW g, g[active] = flash[active],
         \A i \in Slots : ReadsErased(g[1 - active][i])
  PROVE  RamMatches(g)
<1>1. active \in Blocks /\ next - 1 \in Slots /\ next > 0
  BY GeometryAssumption DEF TypeOK, RamMatches, Slots
<1>2. \A b \in Blocks : b = active \/ b = 1 - active
  BY <1>1 DEF Blocks
<1>3. \A b \in Blocks : Ordered(g[b])
  BY <1>1, <1>2 DEF RamMatches, Loadable, Ordered
<1>4. NewestAt(g, active, next - 1)
  BY <1>1, <1>2, RecordIsNat DEF RamMatches, NewestAt
<1> QED BY <1>1, <1>3, <1>4 DEF RamMatches, Loadable, NewestAt

\* The record that holds the counter is in the active block, right before next.
LEMMA CounterInFlash ==
  ASSUME TypeOK, RamMatches(flash)
  PROVE  /\ active \in Blocks /\ next - 1 \in Slots /\ next > 0
         /\ IsRecord(flash[active][next - 1])
         /\ flash[active][next - 1] = counter
         /\ counter \in Nat /\ counter >= Seed
BY GeometryAssumption, CounterAssumption
   DEF TypeOK, RamMatches, NewestAt, Qualifies, Slots, Counters

\* A record larger than all others, written right behind the records of its block,
\* leaves a journal that is loadable and ends there.
LEMMA Appended ==
  ASSUME NEW f \in [Blocks -> Rows], NEW b \in Blocks, NEW i \in Slots,
         Qualifies(f[b][i]),
         \A d \in Blocks : d # b => Ordered(f[d]),
         \A k \in 0 .. i - 1, l \in 0 .. i - 1 :
           IsRecord(f[b][k]) /\ (l < k => f[b][l] < f[b][k]),
         \A k \in i + 1 .. BlockSlots - 1 : ReadsErased(f[b][k]),
         \A d \in Blocks, k \in Slots :
           IsRecord(f[d][k]) /\ <<d, k>> # <<b, i>> => f[d][k] < f[b][i]
  PROVE  Loadable(f) /\ NewestAt(f, b, i)
<1>1. Ordered(f[b])
  <2> SUFFICES ASSUME NEW k \in Slots, ~ ReadsErased(f[b][k])
               PROVE  /\ IsRecord(f[b][k])
                      /\ \A l \in 0 .. k - 1 : IsRecord(f[b][l]) /\ f[b][l] < f[b][k]
    BY DEF Ordered
  <2>1. k \in 0 .. i
    BY GeometryAssumption DEF Slots
  <2>2. CASE k = i
    BY <2>2, GeometryAssumption DEF Slots, Qualifies
  <2>3. CASE k \in 0 .. i - 1
    BY <2>3, GeometryAssumption DEF Slots
  <2> QED BY <2>1, <2>2, <2>3 DEF Slots
<1>2. Loadable(f)
  BY <1>1 DEF Loadable
<1>3. NewestAt(f, b, i)
  BY DEF NewestAt, Blocks
<1> QED BY <1>2, <1>3

-----------------------------------------------------------------------------
(* Each step of the journal keeps IInv.                                    *)

\* The slot a save writes is not the one that holds the counter.
LEMMA TargetIsNotNewest ==
  ASSUME IInv, pc \in Saving, pc # "verify"
  PROVE  /\ RamMatches(flash)
         /\ block \in Blocks /\ off \in Slots
         /\ <<block, off>> # <<active, next - 1>>
         /\ pc = "erase" => block # active
<1>1. RamMatches(flash)
  BY DEF IInv, FlashMatches, Saving
<1>2. TypeOK
  BY DEF IInv
<1> QED
  BY <1>1, <1>2 DEF IInv, TargetChosen, TypeOK, Blocks, RamMatches

\* Flash contents that keep the record of the counter keep NewestKept.
LEMMA StillKept ==
  ASSUME TypeOK, RamMatches(flash), flash'[active][next - 1] = flash[active][next - 1],
         counter' = counter
  PROVE  NewestKept'
BY CounterInFlash DEF NewestKept

LEMMA InitHolds ==
  ASSUME Init PROVE IInv
<1> USE GeometryAssumption, CounterAssumption DEF Init
<1>1. TypeOK
  BY DEF TypeOK, ProvisionedRow, Blocks, Slots, Rows, Cells, Counters, Saving
<1>2. NewestKept
  <2>1. 0 \in Blocks /\ 0 \in Slots /\ flash[0][0] = Seed
    BY DEF Blocks, Slots, ProvisionedRow
  <2> QED BY <2>1 DEF NewestKept, IsRecord, Counters
<1> QED BY <1>1, <1>2 DEF IInv, FlashMatches, TargetChosen, TargetFree, Saving

LEMMA LoadHolds ==
  ASSUME IInv, Load PROVE IInv' /\ counter' >= counter
<1>1. PICK b \in Blocks, i \in Slots :
        NewestAt(flash, b, i) /\ counter' = flash[b][i] /\ active' = b /\ next' = i + 1
  BY DEF Load, ResumeBehind
<1>2. IsRecord(flash[b][i])
  BY <1>1 DEF NewestAt, Qualifies
<1>3. TypeOK'
  BY <1>1, <1>2, GeometryAssumption
     DEF IInv, TypeOK, Load, ResumeBehind, locals, IsRecord, Slots
<1>4. RamMatches(flash)'
  BY <1>1, GeometryAssumption DEF Load, ResumeBehind, RamMatches, Slots
<1>5. NewestKept'
  BY <1>1, <1>2, RecordIsNat DEF NewestKept, Load, ResumeBehind
<1>6. counter' >= counter
  <2>1. PICK d \in Blocks, k \in Slots : IsRecord(flash[d][k]) /\ flash[d][k] >= counter
    BY DEF IInv, NewestKept
  <2> DEFINE cell == flash[d][k]
  <2>2. cell <= counter'
    BY <1>1, <2>1, NewestIsLargest
  <2>3. cell \in Nat /\ counter' \in Nat /\ counter \in Nat /\ cell >= counter
    BY <1>1, <1>2, <2>1, RecordIsNat, CounterAssumption DEF IInv, TypeOK, Counters
  <2> QED BY ONLY <2>2, <2>3
<1> QED BY <1>3, <1>4, <1>5, <1>6
        DEF IInv, Load, ResumeBehind, FlashMatches, TargetChosen, TargetFree, Saving

LEMMA SaveStartHolds ==
  ASSUME IInv, NEW c \in Counters, SaveStart(c) PROVE IInv'
<1>1. TypeOK /\ RamMatches(flash) /\ NewestKept
  BY DEF IInv, SaveStart, HasRoom, IsLarger, OtherBlock, FlashMatches
<1>2. TypeOK'
  BY <1>1, CounterAssumption, GeometryAssumption
     DEF TypeOK, SaveStart, HasRoom, IsLarger, OtherBlock, ram, Blocks, Slots, Counters, Saving
<1>3. RamMatches(flash)' /\ NewestKept'
  BY <1>1 DEF SaveStart, HasRoom, IsLarger, OtherBlock, ram, RamMatches, NewestKept
<1>4. TargetChosen'
  BY <1>1 DEF TargetChosen, SaveStart, HasRoom, IsLarger, OtherBlock, ram
<1>5. TargetFree'
  BY <1>1, FreeBehindNewest DEF TargetFree, SaveStart, HasRoom, IsLarger, OtherBlock, ram
<1> QED BY <1>2, <1>3, <1>4, <1>5 DEF IInv, FlashMatches, SaveStart, HasRoom, IsLarger, OtherBlock

\* An erase, complete or not, gives the target block another row of cells.
LEMMA RowWritten ==
  ASSUME IInv, pc = "erase", NEW row \in Rows, PutRow(row), UNCHANGED counter
  PROVE  /\ flash' \in [Blocks -> Rows]
         /\ flash'[block] = row /\ flash'[active] = flash[active]
         /\ NewestKept'
<1>1. RamMatches(flash) /\ block \in Blocks /\ block # active
  BY TargetIsNotNewest DEF Saving
<1>2. TypeOK
  BY DEF IInv
<1>3. /\ flash' \in [Blocks -> Rows]
      /\ flash'[block] = row /\ flash'[active] = flash[active]
  BY <1>1, <1>2 DEF TypeOK, PutRow
<1> QED BY <1>1, <1>2, <1>3, StillKept

\* A program, complete or not, puts a cell in the target slot.
LEMMA CellWritten ==
  ASSUME IInv, pc = "program", NEW cell \in Cells, Put(cell), UNCHANGED counter
  PROVE  /\ flash' \in [Blocks -> Rows]
         /\ flash'[block][off] = cell
         /\ \A b \in Blocks, i \in Slots :
              <<b, i>> # <<block, off>> => flash'[b][i] = flash[b][i]
         /\ NewestKept'
<1>1. RamMatches(flash) /\ block \in Blocks /\ off \in Slots
      /\ <<block, off>> # <<active, next - 1>>
  BY TargetIsNotNewest DEF Saving
<1>2. TypeOK
  BY DEF IInv
<1>3. /\ flash' \in [Blocks -> Rows]
      /\ flash'[block][off] = cell
      /\ \A b \in Blocks, i \in Slots :
           <<b, i>> # <<block, off>> => flash'[b][i] = flash[b][i]
  BY <1>1, <1>2 DEF TypeOK, Put, Rows
<1>4. active \in Blocks /\ next - 1 \in Slots
  BY <1>1, <1>2, CounterInFlash
<1> QED BY <1>1, <1>2, <1>3, <1>4, StillKept

LEMMA EraseDoneHolds ==
  ASSUME IInv, EraseDone PROVE IInv'
<1> DEFINE row == [i \in Slots |-> Erased]
<1>1. row \in Rows /\ PutRow(row) /\ pc = "erase" /\ pc' = "program"
      /\ UNCHANGED <<ram, locals>>
  BY DEF EraseDone, Rows, Cells
<1>2. /\ flash' \in [Blocks -> Rows]
      /\ flash'[block] = row /\ flash'[active] = flash[active]
      /\ NewestKept'
  BY <1>1, RowWritten DEF ram
<1>3. TypeOK /\ RamMatches(flash) /\ block = 1 - active /\ off = 0 /\ wanted > counter
  BY <1>1 DEF IInv, FlashMatches, TargetChosen, Saving
<1>4. TypeOK'
  BY <1>1, <1>2, <1>3 DEF TypeOK, ram, locals, Saving
<1>5. RamMatches(flash')
  BY <1>2, <1>3, MatchesWithOtherErased DEF ReadsErased
<1>6. RamMatches(flash)'
  BY <1>1, <1>5 DEF RamMatches, ram
<1>7. TargetChosen' /\ TargetFree'
  BY <1>1, <1>2, <1>3 DEF IInv, TargetChosen, TargetFree, ram, locals, Saving, ReadsErased, Slots
<1> QED BY <1>1, <1>2, <1>4, <1>6, <1>7 DEF IInv, FlashMatches

\* After an erase that did not complete there is no save, and no RAM, to match.
LEMMA EraseFailsHolds ==
  ASSUME IInv, EraseFails PROVE IInv'
<1>1. PICK row \in HalfErased(flash[block]) : PutRow(row)
  BY DEF EraseFails, SaveFailed
<1>2. flash' \in [Blocks -> Rows] /\ NewestKept'
  BY <1>1, RowWritten DEF HalfErased, EraseFails, SaveFailed, ram
<1>3. TypeOK'
  BY <1>2, GeometryAssumption, CounterAssumption
     DEF IInv, TypeOK, EraseFails, SaveFailed, LocalsGone, ram, Blocks, Slots
<1> QED BY <1>2, <1>3
        DEF IInv, FlashMatches, TargetChosen, TargetFree, EraseFails, SaveFailed, Saving

LEMMA ProgramDoneHolds ==
  ASSUME IInv, ProgramDone PROVE IInv'
<1>1. PICK cell \in {wanted, Torn} : Put(cell)
  BY DEF ProgramDone
<1>2. /\ TypeOK /\ RamMatches(flash) /\ wanted > counter
      /\ TargetChosen /\ TargetFree
      /\ pc = "program" /\ pc' = "verify" /\ UNCHANGED <<ram, locals>>
      /\ flash[block][off] = Erased
  BY DEF IInv, FlashMatches, TargetChosen, Saving, ProgramDone
<1>3. cell \in Cells
  BY <1>1, <1>2, CounterAssumption DEF Cells, TypeOK, Counters
<1>4. /\ flash' \in [Blocks -> Rows]
      /\ \A b \in Blocks, i \in Slots :
           <<b, i>> # <<block, off>> => flash'[b][i] = flash[b][i]
      /\ NewestKept'
  BY <1>1, <1>2, <1>3, CellWritten DEF IInv, ram
<1>5. TypeOK'
  BY <1>2, <1>4 DEF TypeOK, ram, locals, Saving
<1>6. [flash' EXCEPT ![block][off] = Erased] = flash
  <2>1. flash' = [flash EXCEPT ![block][off] = cell]
    BY <1>1 DEF Put
  <2>2. flash \in [Blocks -> [Slots -> Cells]] /\ block \in Blocks /\ off \in Slots
    BY <1>2 DEF TypeOK, Rows
  <2> QED BY <1>2, <2>1, <2>2
<1>7. FlashMatches'
  BY <1>2, <1>6 DEF FlashMatches, RamMatches, ram, locals
<1>8. TargetChosen'
  BY <1>2 DEF TargetChosen, ram, locals, Saving
<1>9. TargetFree'
  BY <1>2, <1>4, GeometryAssumption DEF TargetFree, ram, locals, TypeOK, Slots
<1> QED BY <1>4, <1>5, <1>7, <1>8, <1>9 DEF IInv

\* What a program that was cut short leaves is a cell.
LEMMA HalfProgrammedIsCell ==
  ASSUME IInv, pc = "program", NEW cell \in HalfProgrammed(flash[block][off])
  PROVE  cell \in Cells
<1>1. flash[block][off] \in Cells /\ wanted \in Counters
  BY CounterAssumption DEF IInv, TypeOK, TargetChosen, Saving, Rows, Counters
<1> QED BY <1>1 DEF HalfProgrammed, Cells

LEMMA ProgramFailsHolds ==
  ASSUME IInv, ProgramFails PROVE IInv'
<1>1. PICK cell \in HalfProgrammed(flash[block][off]) : Put(cell)
  BY DEF ProgramFails, SaveFailed
<1>2. flash' \in [Blocks -> Rows] /\ NewestKept'
  BY <1>1, CellWritten, HalfProgrammedIsCell DEF ProgramFails, SaveFailed, ram
<1>3. TypeOK'
  BY <1>2, GeometryAssumption, CounterAssumption
     DEF IInv, TypeOK, ProgramFails, SaveFailed, LocalsGone, ram, Blocks, Slots
<1> QED BY <1>2, <1>3
        DEF IInv, FlashMatches, TargetChosen, TargetFree, ProgramFails, SaveFailed, Saving

LEMMA CommitHolds ==
  ASSUME IInv, Commit PROVE IInv' /\ counter' >= counter
<1> DEFINE before == [flash EXCEPT ![block][off] = Erased]
<1>1. /\ TypeOK /\ RamMatches(before) /\ TargetFree
      /\ wanted > counter
      /\ \/ block = active /\ off = next
         \/ block = 1 - active /\ off = 0
      /\ pc = "verify" /\ pc' = "ready" /\ flash[block][off] = wanted
      /\ active' = block /\ next' = off + 1 /\ counter' = wanted /\ flash' = flash
  BY DEF IInv, FlashMatches, TargetChosen, Saving, Commit, ReadsBack, Adopt
<1>2. /\ active \in Blocks /\ next - 1 \in Slots /\ block \in Blocks /\ off \in Slots
      /\ wanted \in Counters /\ wanted \in Nat /\ counter \in Nat /\ next \in Nat
      /\ flash \in [Blocks -> Rows]
  BY <1>1, GeometryAssumption, CounterAssumption DEF TypeOK, RamMatches, Slots, Counters
<1>3. /\ \A b \in Blocks : b # block => before[b] = flash[b]
      /\ \A b \in Blocks, i \in Slots :
           <<b, i>> # <<block, off>> => before[b][i] = flash[b][i]
  BY <1>2 DEF Rows
<1>4. /\ Loadable(before) /\ NewestAt(before, active, next - 1)
      /\ before[active][next - 1] = counter
  BY <1>1 DEF RamMatches
<1> HIDE DEF before
<1>5. \A d \in Blocks, k \in Slots :
        IsRecord(flash[d][k]) /\ <<d, k>> # <<block, off>> => flash[d][k] < wanted
  <2> SUFFICES ASSUME NEW d \in Blocks, NEW k \in Slots,
                      IsRecord(flash[d][k]), <<d, k>> # <<block, off>>
               PROVE  flash[d][k] < wanted
    OBVIOUS
  <2>1. flash[d][k] \in Nat /\ flash[d][k] = before[d][k]
    BY <1>3, RecordIsNat
  <2>2. before[d][k] <= counter
    BY <1>2, <1>4, <2>1, NewestIsLargest
  <2> QED BY <1>1, <1>2, <2>1, <2>2
<1>6. Qualifies(flash[block][off])
  <2>1. counter >= Seed /\ Seed \in Nat
    BY <1>4, CounterAssumption DEF NewestAt, Qualifies
  <2> QED BY <1>1, <1>2, <2>1 DEF Qualifies, IsRecord
<1>7. \A k \in 0 .. off - 1, l \in 0 .. off - 1 :
        IsRecord(flash[block][k]) /\ (l < k => flash[block][l] < flash[block][k])
  <2>1. CASE block = active /\ off = next
    <3>1. Ordered(before[block])
      BY <1>2, <1>4 DEF Loadable
    <3>2. IsRecord(before[block][next - 1])
      BY <1>4, <2>1 DEF NewestAt, Qualifies
    <3>3. \A k \in 0 .. off - 1 : k \in Slots /\ IsRecord(before[block][k])
      <4>1. \A k \in 0 .. (next - 1) - 1 : IsRecord(before[block][k])
        BY <1>2, <3>1, <3>2, RecordsComeFirst
      <4>2. \A k \in 0 .. off - 1 : k \in Slots /\ (k = next - 1 \/ k \in 0 .. (next - 1) - 1)
        BY <1>2, <2>1, GeometryAssumption DEF Slots
      <4> QED BY <3>2, <4>1, <4>2
    <3>4. ASSUME NEW k \in 0 .. off - 1, NEW l \in 0 .. off - 1, l < k
          PROVE  before[block][l] < before[block][k]
      <4>1. k \in Slots /\ l \in 0 .. k - 1
        BY <3>3, <3>4
      <4> QED BY <3>1, <3>3, <4>1, RecordsComeFirst
    <3>5. \A k \in 0 .. off - 1 : before[block][k] = flash[block][k]
      BY <1>2, <1>3, <3>3 DEF Slots
    <3> QED BY <3>3, <3>4, <3>5
  <2>2. CASE off = 0
    BY <2>2
  <2> QED BY <1>1, <2>1, <2>2
<1>8. Loadable(flash) /\ NewestAt(flash, block, off)
  <2>1. \A d \in Blocks : d # block => Ordered(flash[d])
    BY <1>3, <1>4 DEF Loadable
  <2>2. \A k \in off + 1 .. BlockSlots - 1 : ReadsErased(flash[block][k])
    BY <1>1 DEF TargetFree
  <2> QED BY <1>1, <1>2, <1>5, <1>6, <1>7, <2>1, <2>2, Appended
<1>9. RamMatches(flash)'
  BY <1>1, <1>2, <1>8 DEF RamMatches, Slots
<1>10. TypeOK'
  BY <1>1, <1>2, GeometryAssumption, CounterAssumption
     DEF TypeOK, Commit, ReadsBack, Adopt, LocalsGone, Blocks, Slots
<1>11. NewestKept'
  BY <1>1, <1>2 DEF NewestKept, IsRecord
<1> QED BY <1>1, <1>2, <1>9, <1>10, <1>11
        DEF IInv, FlashMatches, TargetChosen, TargetFree, Saving

\* A step after which the journal is not in use, and that leaves the flash alone.
LEMMA StoppedHolds ==
  ASSUME IInv, pc' \in {"off", "failed"}, UNCHANGED <<flash, counter>>, TypeOK'
  PROVE  IInv'
BY DEF IInv, FlashMatches, TargetChosen, TargetFree, NewestKept, Saving

LEMMA PowerLossHolds ==
  ASSUME IInv, PowerLoss \/ PowerLossInErase \/ PowerLossInProgram PROVE IInv'
<1>1. pc' = "off" /\ counter' = counter /\ PowerGoes
  BY DEF PowerLoss, PowerLossInErase, PowerLossInProgram, PowerGoes
<1>2. ASSUME flash' \in [Blocks -> Rows] PROVE TypeOK'
  BY <1>1, <1>2, GeometryAssumption, CounterAssumption
     DEF IInv, TypeOK, PowerGoes, LocalsGone, Blocks, Slots
<1>3. CASE PowerLoss
  BY <1>1, <1>2, <1>3, StoppedHolds DEF PowerLoss, IInv, TypeOK
<1>4. CASE PowerLossInErase
  <2>1. PICK row \in HalfErased(flash[block]) : PutRow(row)
    BY <1>4 DEF PowerLossInErase
  <2>2. flash' \in [Blocks -> Rows] /\ NewestKept'
    BY <1>1, <1>4, <2>1, RowWritten DEF HalfErased, PowerLossInErase
  <2> QED BY <1>1, <1>2, <2>2 DEF IInv, FlashMatches, TargetChosen, TargetFree, Saving
<1>5. CASE PowerLossInProgram
  <2>1. PICK cell \in HalfProgrammed(flash[block][off]) : Put(cell)
    BY <1>5 DEF PowerLossInProgram
  <2>2. flash' \in [Blocks -> Rows] /\ NewestKept'
    BY <1>1, <1>5, <2>1, CellWritten, HalfProgrammedIsCell DEF PowerLossInProgram
  <2> QED BY <1>1, <1>2, <2>2 DEF IInv, FlashMatches, TargetChosen, TargetFree, Saving
<1> QED BY <1>3, <1>4, <1>5

-----------------------------------------------------------------------------
\* Every step keeps IInv, and none takes the counter back.
LEMMA StepHolds ==
  ASSUME IInv, [Next]_vars PROVE IInv' /\ counter' >= counter
<1>1. counter \in Nat
  BY CounterAssumption DEF IInv, TypeOK, Counters
<1>2. CASE Load
  BY <1>2, LoadHolds
<1>3. CASE RefuseLoad
  BY <1>1, <1>3, StoppedHolds DEF RefuseLoad, ram, locals, IInv, TypeOK
<1>4. ASSUME NEW c \in Counters, SaveStart(c) PROVE IInv' /\ counter' >= counter
  BY <1>1, <1>4, SaveStartHolds DEF SaveStart, HasRoom, IsLarger, OtherBlock, ram
<1>5. CASE EraseDone
  BY <1>1, <1>5, EraseDoneHolds DEF EraseDone, ram
<1>6. CASE EraseFails
  BY <1>1, <1>6, EraseFailsHolds DEF EraseFails, SaveFailed, ram
<1>7. CASE ProgramDone
  BY <1>1, <1>7, ProgramDoneHolds DEF ProgramDone, ram
<1>8. CASE ProgramFails
  BY <1>1, <1>8, ProgramFailsHolds DEF ProgramFails, SaveFailed, ram
<1>9. CASE Commit
  BY <1>9, CommitHolds
<1>10. CASE ReadBackFails
  <2>1. TypeOK'
    BY <1>10, GeometryAssumption, CounterAssumption
       DEF ReadBackFails, SaveFailed, ram, LocalsGone, IInv, TypeOK, Blocks, Slots
  <2> QED BY <1>1, <1>10, <2>1, StoppedHolds DEF ReadBackFails, SaveFailed, ram
<1>11. CASE PowerLoss \/ PowerLossInErase \/ PowerLossInProgram
  BY <1>1, <1>11, PowerLossHolds
     DEF PowerLoss, PowerLossInErase, PowerLossInProgram, PowerGoes
<1>12. CASE UNCHANGED vars
  BY <1>1, <1>12
     DEF vars, IInv, TypeOK, FlashMatches, RamMatches, TargetChosen, TargetFree, NewestKept
<1> QED BY <1>2, <1>3, <1>4, <1>5, <1>6, <1>7, <1>8, <1>9, <1>10, <1>11, <1>12
        DEF Next, Save

\* The inductive invariant holds throughout.
THEOREM IInvHolds == Spec => []IInv
<1>1. Init => IInv
  BY InitHolds
<1>2. IInv /\ [Next]_vars => IInv'
  BY StepHolds
<1> QED BY <1>1, <1>2, PTL DEF Spec

\* Every variable keeps its type.
THEOREM TypeCorrect == Spec => []TypeOK
<1>1. IInv => TypeOK
  BY DEF IInv
<1> QED BY <1>1, IInvHolds, PTL

\* auth_journal_save only ever programs a slot that reads erased.
THEOREM ProgramsOnlyErased == Spec => []ProgramsOnlyErasedSlots
<1>1. IInv => ProgramsOnlyErasedSlots
  BY DEF IInv, TypeOK, TargetFree, ProgramsOnlyErasedSlots, Slots
<1> QED BY <1>1, IInvHolds, PTL

\* A counter reported durable stays in flash, whatever fails afterwards.
THEOREM NewestIsKept == Spec => []NewestKept
<1>1. IInv => NewestKept
  BY DEF IInv
<1> QED BY <1>1, IInvHolds, PTL

\* A reset between two saves recovers the counter and the place of the next record.
THEOREM ResetRecovers == Spec => []ResetFindsRam
<1>1. IInv => ResetFindsRam
  BY DEF IInv, FlashMatches, ResetFindsRam
<1> QED BY <1>1, IInvHolds, PTL

\* The counter the owner is told never decreases, across saves, failures and resets.
THEOREM CounterNeverRollsBack == Spec => NoRollback
<1>1. IInv /\ [Next]_vars => [counter' >= counter]_vars
  BY StepHolds
<1> QED BY <1>1, IInvHolds, PTL DEF Spec, NoRollback

-----------------------------------------------------------------------------
(* Journal implements CounterStore, with the largest record in flash as    *)
(* the durable counter.                                                    *)

StoreStep == [Store!Next]_(Store!storeVars)

LEMMA LargestIs ==
  ASSUME NEW f, NEW n \in RecordsIn(f), \A d \in RecordsIn(f) : d <= n
  PROVE  LargestIn(f) = n
<1>1. \A d \in RecordsIn(f) : d \in Nat
  BY CounterAssumption DEF RecordsIn, Counters
<1>2. \A m \in RecordsIn(f) : (\A d \in RecordsIn(f) : d <= m) => m = n
  BY <1>1
<1> QED BY <1>2 DEF LargestIn

\* The newest record is the largest one.
LEMMA NewestIsDurable ==
  ASSUME NEW f, NEW b \in Blocks, NEW i \in Slots, NewestAt(f, b, i)
  PROVE  LargestIn(f) = f[b][i] /\ f[b][i] \in RecordsIn(f)
         /\ \A d \in RecordsIn(f) : d <= f[b][i]
<1>1. f[b][i] \in RecordsIn(f)
  BY DEF NewestAt, Qualifies, IsRecord, RecordsIn
<1>2. \A d \in RecordsIn(f) : d <= f[b][i]
  BY NewestIsLargest DEF RecordsIn, IsRecord
<1> QED BY <1>1, <1>2, LargestIs

\* While the flash matches the RAM, a write that adds at most the wanted record and
\* spares the one of the counter makes no other counter durable.
LEMMA DurableAfterWrite ==
  ASSUME TypeOK, RamMatches(flash), wanted > counter,
         NEW g, g[active][next - 1] = flash[active][next - 1],
         RecordsIn(g) \subseteq RecordsIn(flash) \cup {wanted}
  PROVE  /\ LargestIn(flash) = counter
         /\ LargestIn(g) = IF wanted \in RecordsIn(g) THEN wanted ELSE counter
<1>1. /\ active \in Blocks /\ next - 1 \in Slots /\ IsRecord(flash[active][next - 1])
      /\ flash[active][next - 1] = counter
      /\ NewestAt(flash, active, next - 1)
  BY CounterInFlash DEF RamMatches
<1>2. LargestIn(flash) = counter /\ \A d \in RecordsIn(flash) : d <= counter
  BY <1>1, NewestIsDurable
<1>3. counter \in RecordsIn(g)
  BY <1>1 DEF RecordsIn, IsRecord
<1>4. counter \in Nat /\ wanted \in Nat
  BY CounterAssumption DEF TypeOK, Counters
<1>5. CASE wanted \in RecordsIn(g)
  <2>1. \A d \in RecordsIn(g) : d <= wanted
    <3> SUFFICES ASSUME NEW d \in RecordsIn(g) PROVE d <= wanted
      OBVIOUS
    <3>1. d \in Nat /\ (d <= counter \/ d = wanted)
      BY <1>2, CounterAssumption DEF RecordsIn, Counters
    <3> QED BY <1>4, <3>1
  <2> QED BY <1>2, <1>5, <2>1, LargestIs
<1>6. CASE wanted \notin RecordsIn(g)
  BY <1>2, <1>3, <1>6, LargestIs
<1> QED BY <1>5, <1>6

\* An erase that does not complete adds no record.
LEMMA HalfErasedDurable ==
  ASSUME IInv, pc = "erase", NEW row \in HalfErased(flash[block]), PutRow(row)
  PROVE  LargestIn(flash') = LargestIn(flash)
<1>1. /\ TypeOK /\ RamMatches(flash) /\ wanted > counter
      /\ block \in Blocks /\ block # active
  BY TargetIsNotNewest DEF IInv, TargetChosen, Saving
<1>2. row \in Rows /\ \A i \in Slots : row[i] \in {flash[block][i], Erased, Blank, Torn}
  BY DEF HalfErased
<1>3. flash'[active] = flash[active]
      /\ \A b \in Blocks, i \in Slots : flash'[b][i] \in {flash[b][i], Erased, Blank, Torn}
  BY <1>1, <1>2 DEF PutRow, TypeOK
<1>4. RecordsIn(flash') \subseteq RecordsIn(flash)
  BY <1>3, CellAssumption, CounterAssumption DEF RecordsIn, Counters
<1>5. LargestIn(flash) = counter /\ \A d \in RecordsIn(flash) : d <= counter
  BY <1>1, CounterInFlash, NewestIsDurable DEF RamMatches
<1>6. wanted \notin RecordsIn(flash')
  BY <1>1, <1>4, <1>5, CounterAssumption DEF TypeOK, Counters, RecordsIn
<1> QED BY <1>1, <1>3, <1>4, <1>6, DurableAfterWrite

\* A program, complete or not, makes the wanted counter durable or changes nothing.
LEMMA ProgrammedDurable ==
  ASSUME IInv, pc = "program",
         NEW cell \in {flash[block][off], Erased, Blank, Torn, wanted}, Put(cell)
  PROVE  /\ LargestIn(flash) = counter
         /\ LargestIn(flash') = IF cell = wanted THEN wanted ELSE counter
<1>1. /\ TypeOK /\ RamMatches(flash) /\ wanted > counter
      /\ block \in Blocks /\ off \in Slots /\ <<block, off>> # <<active, next - 1>>
      /\ ReadsErased(flash[block][off])
  BY TargetIsNotNewest, GeometryAssumption
     DEF IInv, TargetChosen, TargetFree, Saving, Slots
<1>2. active \in Blocks /\ next - 1 \in Slots
  BY <1>1, CounterInFlash
<1>3. /\ flash'[block][off] = cell
      /\ \A b \in Blocks, i \in Slots :
           <<b, i>> # <<block, off>> => flash'[b][i] = flash[b][i]
  BY <1>1 DEF Put, TypeOK, Rows
<1>4. flash'[active][next - 1] = flash[active][next - 1]
  BY <1>1, <1>2, <1>3
<1>5. wanted \in Counters /\ (cell \in Counters => cell = wanted)
  BY <1>1, CellAssumption, CounterAssumption DEF ReadsErased, TypeOK, Counters
<1>6. RecordsIn(flash') \subseteq RecordsIn(flash) \cup {wanted}
  BY <1>3, <1>5 DEF RecordsIn
<1>7. \A d \in RecordsIn(flash) : d # wanted
  BY <1>1, CounterInFlash, NewestIsDurable, CounterAssumption
     DEF RamMatches, TypeOK, Counters, RecordsIn
<1>8. wanted \in RecordsIn(flash') <=> cell = wanted
  <2>1. ASSUME cell = wanted PROVE wanted \in RecordsIn(flash')
    BY <1>1, <1>3, <1>5, <2>1 DEF RecordsIn
  <2>2. ASSUME wanted \in RecordsIn(flash') PROVE cell = wanted
    <3>1. PICK b \in Blocks, i \in Slots : flash'[b][i] = wanted
      BY <2>2 DEF RecordsIn
    <3>2. flash[b][i] # wanted
      BY <1>5, <1>7 DEF RecordsIn
    <3> QED BY <1>3, <3>1, <3>2
  <2> QED BY <2>1, <2>2
<1> QED BY <1>1, <1>4, <1>6, <1>8, DurableAfterWrite

LEMMA SlotBefore ==
  ASSUME NEW n \in 0 .. BlockSlots, n > 0
  PROVE  n - 1 \in Slots
BY GeometryAssumption DEF Slots

\* When the read-back finds the wanted record, it is the largest one.
LEMMA CommittedDurable ==
  ASSUME IInv, Commit PROVE LargestIn(flash) = wanted
<1>1. /\ IInv' /\ pc' = "ready" /\ flash' = flash /\ counter' = wanted
  BY CommitHolds DEF Commit, Adopt
<1>2. TypeOK' /\ RamMatches(flash)'
  BY <1>1 DEF IInv, FlashMatches
<1>3. active' \in Blocks /\ next' - 1 \in Slots
  <2>1. next' > 0 /\ next' \in 0 .. BlockSlots /\ active' \in Blocks
    BY <1>2 DEF TypeOK, RamMatches
  <2> QED BY <2>1, SlotBefore
<1>4. NewestAt(flash', active', next' - 1) /\ flash'[active'][next' - 1] = counter'
  BY <1>2 DEF RamMatches
<1>5. LargestIn(flash') = counter'
  BY <1>3, <1>4, NewestIsDurable
<1> QED BY <1>1, <1>5

\* Every step of the journal is a step of the counter store, or none.
LEMMA StepImplements ==
  ASSUME IInv, [Next]_vars PROVE StoreStep
<1> USE DEF StoreStep, Store!Next, Store!storeVars, StoreMode, Saving
<1>1. CASE Load
  <2>1. PICK b \in Blocks, i \in Slots : NewestAt(flash, b, i) /\ counter' = flash[b][i]
    BY <1>1 DEF Load, ResumeBehind
  <2>2. counter' = LargestIn(flash)
    BY <2>1, NewestIsDurable
  <2> QED BY <1>1, <2>2 DEF Load, Store!Load, locals
<1>2. CASE RefuseLoad
  BY <1>2 DEF RefuseLoad, ram, locals, Store!Refuse
<1>3. ASSUME NEW c \in Counters, SaveStart(c) PROVE StoreStep
  BY <1>3 DEF SaveStart, IsLarger, ram, Store!Begin, Counters
<1>4. CASE EraseDone
  <2> DEFINE row == [i \in Slots |-> Erased]
  <2>1. row \in HalfErased(flash[block]) /\ PutRow(row)
    BY <1>4 DEF EraseDone, HalfErased, Rows, Cells
  <2>2. LargestIn(flash') = LargestIn(flash)
    BY <1>4, <2>1, HalfErasedDurable DEF EraseDone
  <2> QED BY <1>4, <2>2 DEF EraseDone, ram, locals
<1>5. CASE EraseFails
  <2>1. LargestIn(flash') = LargestIn(flash)
    BY <1>5, HalfErasedDurable DEF EraseFails
  <2> QED BY <1>5, <2>1 DEF EraseFails, SaveFailed, LocalsGone, ram, Store!Fail
<1>6. CASE ProgramDone
  <2>1. PICK cell \in {wanted, Torn} : Put(cell)
    BY <1>6 DEF ProgramDone
  <2>2. /\ LargestIn(flash) = counter
        /\ LargestIn(flash') = IF cell = wanted THEN wanted ELSE counter
    BY <1>6, <2>1, ProgrammedDurable DEF ProgramDone
  <2> QED BY <1>6, <2>2 DEF ProgramDone, ram, locals, Store!Settle
<1>7. CASE ProgramFails
  <2>1. PICK cell \in HalfProgrammed(flash[block][off]) : Put(cell)
    BY <1>7 DEF ProgramFails
  <2>2. LargestIn(flash) = counter /\ LargestIn(flash') \in {counter, wanted}
    BY <1>7, <2>1, ProgrammedDurable DEF ProgramFails, HalfProgrammed
  <2> QED BY <1>7, <2>2 DEF ProgramFails, SaveFailed, LocalsGone, ram, Store!Fail
<1>8. CASE Commit
  <2>1. LargestIn(flash) = wanted
    BY <1>8, CommittedDurable
  <2> QED BY <1>8, <2>1 DEF Commit, Adopt, LocalsGone, Store!Ack
<1>9. CASE ReadBackFails
  BY <1>9 DEF ReadBackFails, SaveFailed, LocalsGone, ram, Store!Fail
<1>10. CASE PowerLoss
  BY <1>10 DEF PowerLoss, PowerGoes, LocalsGone, Store!PowerLoss
<1>11. CASE PowerLossInErase
  <2>1. LargestIn(flash') = LargestIn(flash)
    BY <1>11, HalfErasedDurable DEF PowerLossInErase
  <2> QED BY <1>11, <2>1 DEF PowerLossInErase, PowerGoes, LocalsGone, Store!PowerLoss
<1>12. CASE PowerLossInProgram
  <2>1. PICK cell \in HalfProgrammed(flash[block][off]) : Put(cell)
    BY <1>12 DEF PowerLossInProgram
  <2>2. LargestIn(flash) = counter /\ LargestIn(flash') \in {counter, wanted}
    BY <1>12, <2>1, ProgrammedDurable DEF PowerLossInProgram, HalfProgrammed
  <2> QED BY <1>12, <2>2 DEF PowerLossInProgram, PowerGoes, LocalsGone, Store!PowerLoss
<1>13. CASE UNCHANGED vars
  BY <1>13 DEF vars
<1> QED BY <1>1, <1>2, <1>3, <1>4, <1>5, <1>6, <1>7, <1>8, <1>9, <1>10, <1>11, <1>12, <1>13
        DEF Next, Save

\* The journal keeps the contract of the counter store on which the protocol is built.
THEOREM CounterStoreImplemented == Spec => ImplementsCounterStore
<1>1. Init => Store!Init
  <2> SUFFICES ASSUME Init PROVE Store!Init
    OBVIOUS
  <2>1. RecordsIn(flash) = {Seed}
    <3>1. 0 \in Blocks /\ 0 \in Slots
      BY GeometryAssumption DEF Blocks, Slots
    <3>2. \A b \in Blocks, i \in Slots : flash[b][i] = IF i = 0 THEN Seed ELSE Erased
      BY DEF Init, ProvisionedRow
    <3> QED BY <3>1, <3>2, CellAssumption, CounterAssumption DEF RecordsIn, Counters
  <2>2. LargestIn(flash) = Seed
    BY <2>1, CounterAssumption, LargestIs
  <2> QED BY <2>2 DEF Init, Store!Init, StoreMode, Saving
<1>2. IInv /\ [Next]_vars => [Store!Next]_(Store!storeVars)
  BY StepImplements DEF StoreStep
<1> QED BY <1>1, <1>2, IInvHolds, PTL DEF Spec, ImplementsCounterStore, Store!Spec
=============================================================================
