------------------------------- MODULE Journal -------------------------------
(***************************************************************************)
(* The counter journal of core/platform/src/auth_journal.c over the flash  *)
(* of drivers/stm32/store.c.  Power may fail between any two steps, an     *)
(* erase or a program may be cut short or refused by the flash, and a      *)
(* write the flash reports as done may still read back wrong.              *)
(*                                                                         *)
(* The RAM of auth_journal_t is lost with the power.  The variable counter *)
(* keeps its last value while the power is off: it is then a history of    *)
(* what the owner of the journal was last told, and Load overwrites it     *)
(* without reading it.                                                     *)
(*                                                                         *)
(* Operators marked "Faulty" are not part of the model: each is a wrong     *)
(* version of the operator after it, which some property must tell apart.  *)
(***************************************************************************)
EXTENDS JournalFormat

VARIABLES
  flash,    \* flash[b][i]: the contents of slot i of block b
  pc,       \* where the code is; "ready" is auth_journal_t.ready
  counter,  \* auth_journal_t.counter
  active,   \* auth_journal_t.active
  next,     \* auth_journal_t.next, in slots
  block, off, wanted   \* the locals block, off and argument counter of a save

vars == <<flash, pc, counter, active, next, block, off, wanted>>
ram == <<counter, active, next>>
locals == <<block, off, wanted>>

Saving == {"erase", "program", "verify"}

TypeOK ==
  /\ flash \in [Blocks -> Rows]
  /\ pc \in {"off", "ready", "failed"} \cup Saving
  /\ counter \in Counters
  /\ active \in Blocks
  /\ next \in 0 .. BlockSlots
  /\ block \in Blocks
  /\ off \in Slots
  /\ wanted \in 0 .. CounterMax

\* The locals of a save are out of scope; 0 keeps the states few.
LocalsGone == block' = 0 /\ off' = 0 /\ wanted' = 0

Init ==
  /\ flash = [b \in Blocks |-> ProvisionedRow]
  /\ pc = "off"
  /\ counter = Seed /\ active = 0 /\ next = 0
  /\ block = 0 /\ off = 0 /\ wanted = 0

Put(cell) == flash' = [flash EXCEPT ![block][off] = cell]
PutRow(row) == flash' = [flash EXCEPT ![block] = row]

\* Faulty: a failed save leaves ready set.
SaveFailedButReady == pc' = "ready" /\ LocalsGone
\* A failed save leaves auth_journal_t.ready at 0.
SaveFailed == pc' = "failed" /\ LocalsGone

-----------------------------------------------------------------------------
(* auth_journal_load, called once after power-up.                          *)

\* Faulty: next is the record's own slot.
ResumeOnRecord(b, i) == counter' = flash[b][i] /\ active' = b /\ next' = i
\* The next record goes behind the newest one.
ResumeBehind(b, i) == counter' = flash[b][i] /\ active' = b /\ next' = i + 1

Load ==
  /\ pc = "off"
  /\ Loadable(flash)
  /\ \E b \in Blocks, i \in Slots : NewestAt(flash, b, i) /\ ResumeBehind(b, i)
  /\ pc' = "ready"
  /\ UNCHANGED <<flash, locals>>

\* The caller zeroes the journal and stops in board_fatal.
RefuseLoad ==
  /\ pc = "off"
  /\ ~ Loadable(flash)
  /\ pc' = "failed"
  /\ UNCHANGED <<flash, ram, locals>>

-----------------------------------------------------------------------------
(* auth_journal_save: its guards and choice of slot, then the erase of the *)
(* other block when this one is full, the program, and the read-back.      *)

\* Faulty: a smaller counter is saved too.
IsOther(c) == c # counter
IsLarger(c) == c > counter

\* Faulty: the check for a full block is one slot late.
HasRoomForOneMore == next <= BlockSlots
HasRoom == next < BlockSlots

\* Faulty: the rollover erases the block it leaves.
SameBlock == active
OtherBlock == 1 - active

SaveStart(c) ==
  /\ pc = "ready"
  /\ IsLarger(c)
  /\ wanted' = c
  /\ \/ /\ HasRoom
        /\ pc' = "program" /\ block' = active /\ off' = next
     \/ /\ next = BlockSlots
        /\ pc' = "erase" /\ block' = OtherBlock /\ off' = 0
  /\ UNCHANGED <<flash, ram>>

EraseDone ==
  /\ pc = "erase"
  /\ PutRow([i \in Slots |-> Erased])
  /\ pc' = "program"
  /\ UNCHANGED <<ram, locals>>

\* Any slot of a block whose erase did not complete may be as it was, erased,
\* erased only to a reader, or unreadable.
HalfErased(row) ==
  {r \in Rows : \A i \in Slots : r[i] \in {row[i], Erased, Blank, Torn}}

\* journal_erase reports an error: the flash stays locked, or it is write
\* protected, or the erase ended early.
EraseFails ==
  /\ pc = "erase"
  /\ \E row \in HalfErased(flash[block]) : PutRow(row)
  /\ SaveFailed
  /\ UNCHANGED ram

\* The flash reports success.  What it holds then is for the read-back to tell.
\* It programs only slots that are physically erased.
ProgramDone ==
  /\ pc = "program"
  /\ flash[block][off] = Erased
  /\ \E cell \in {wanted, Torn} : Put(cell)
  /\ pc' = "verify"
  /\ UNCHANGED <<ram, locals>>

\* What a program that was cut short or refused may leave in its slot.
HalfProgrammed(cell) ==
  IF cell = Erased THEN {Erased, Blank, Torn, wanted} ELSE {cell, Torn}

ProgramFails ==
  /\ pc = "program"
  /\ \E cell \in HalfProgrammed(flash[block][off]) : Put(cell)
  /\ SaveFailed
  /\ UNCHANGED ram

\* Faulty: what was written is not compared.
ReadsBackAnything == TRUE
ReadsBack == flash[block][off] = wanted

\* Faulty: the rollover to the other block is forgotten.
AdoptCounter == active' = active /\ next' = off + 1 /\ counter' = wanted
Adopt == active' = block /\ next' = off + 1 /\ counter' = wanted

Commit ==
  /\ pc = "verify"
  /\ ReadsBack
  /\ Adopt
  /\ pc' = "ready"
  /\ LocalsGone
  /\ UNCHANGED flash

ReadBackFails ==
  /\ pc = "verify"
  /\ ~ ReadsBack
  /\ SaveFailed
  /\ UNCHANGED <<flash, ram>>

-----------------------------------------------------------------------------
(* Loss of power, or a reset, at any point of the above.                   *)

PowerGoes ==
  /\ pc' = "off"
  /\ active' = 0 /\ next' = 0
  /\ LocalsGone
  /\ UNCHANGED counter

PowerLoss ==
  /\ pc \in {"ready", "failed", "verify"}
  /\ PowerGoes
  /\ UNCHANGED flash

PowerLossInErase ==
  /\ pc = "erase"
  /\ \E row \in HalfErased(flash[block]) : PutRow(row)
  /\ PowerGoes

PowerLossInProgram ==
  /\ pc = "program"
  /\ \E cell \in HalfProgrammed(flash[block][off]) : Put(cell)
  /\ PowerGoes

-----------------------------------------------------------------------------
Save ==
  \/ \E c \in Counters : SaveStart(c)
  \/ EraseDone \/ EraseFails
  \/ ProgramDone \/ ProgramFails
  \/ Commit \/ ReadBackFails

Next ==
  \/ Load \/ RefuseLoad
  \/ Save
  \/ PowerLoss \/ PowerLossInErase \/ PowerLossInProgram

Spec == Init /\ [][Next]_vars

-----------------------------------------------------------------------------
\* The program callback is only ever asked to write a slot that reads erased:
\* the fake flash of tests/journal_tests.c asserts it byte by byte.
ProgramsOnlyErasedSlots == pc = "program" => ReadsErased(flash[block][off])

\* A counter the owner was told is durable is not lost again: whatever fails
\* and whenever the power goes, flash keeps a record at least as large.
NewestKept ==
  \E b \in Blocks, i \in Slots : IsRecord(flash[b][i]) /\ flash[b][i] >= counter

\* The load would accept f, and end where the RAM is.
RamMatches(f) ==
  /\ Loadable(f)
  /\ next > 0 /\ NewestAt(f, active, next - 1)
  /\ f[active][next - 1] = counter

\* Between saves a reset finds in flash exactly what the RAM says: the load
\* accepts both blocks and ends at the same counter, block and slot
\* (docs/deployment.md: "Counters resume without reuse").
ResetFindsRam == pc = "ready" => RamMatches(flash)

\* The counter the owner is told never goes back, across saves, failures and
\* resets (docs/deployment.md: no "silent counter reset").
NoRollback == [][counter' >= counter]_vars

-----------------------------------------------------------------------------
(* The inductive invariant behind these.  During a save the flash still    *)
(* matches the RAM, but for the slot being written; that slot and those    *)
(* behind it are free; and it is not the one that holds the counter.       *)

FlashMatches ==
  /\ pc \in {"ready", "erase", "program"} => RamMatches(flash)
  /\ pc = "verify" => RamMatches([flash EXCEPT ![block][off] = Erased])

TargetChosen ==
  pc \in Saving =>
    /\ wanted > counter
    /\ \/ block = active /\ off = next /\ pc # "erase"
       \/ block = 1 - active /\ off = 0 /\ next = BlockSlots

TargetFree ==
  /\ pc = "program" => \A i \in off .. BlockSlots - 1 : ReadsErased(flash[block][i])
  /\ pc = "verify" => \A i \in off + 1 .. BlockSlots - 1 : ReadsErased(flash[block][i])

\* At any point of a load or a save, flash is what auth_journal_load or
\* auth_journal_save left it, up to the slot being written.
IInv == TypeOK /\ FlashMatches /\ TargetChosen /\ TargetFree /\ NewestKept

-----------------------------------------------------------------------------
\* What the owner may rely on: the contract of CounterStore, with the largest
\* record in flash as the durable counter.
RecordsIn(f) == {c \in Counters : \E b \in Blocks, i \in Slots : f[b][i] = c}
LargestIn(f) == CHOOSE c \in RecordsIn(f) : \A d \in RecordsIn(f) : d <= c

StoreMode == IF pc \in Saving THEN "saving" ELSE pc

Store == INSTANCE CounterStore WITH
           durable <- LargestIn(flash), pending <- wanted,
           known <- counter, mode <- StoreMode

\* Every behaviour of the journal is one the counter store's contract allows.
ImplementsCounterStore == Store!Spec
=============================================================================
