---------------------------- MODULE JournalFormat ----------------------------
(***************************************************************************)
(* The contents of the two flash blocks that hold the counter journal, and *)
(* what auth_journal_load accepts of them.  A block is a row of 32-byte    *)
(* slots; a slot is abstracted to what the load can tell apart:            *)
(*                                                                         *)
(*   a number  a complete record of that counter (complement and MAC match)*)
(*   Erased    all bytes 0xFF and physically erased                        *)
(*   Blank     all bytes 0xFF to a reader, but not physically erased (an   *)
(*             interrupted program or erase leaves such slots; the flash   *)
(*             refuses to program them, error E27)                         *)
(*   Torn      anything else                                               *)
(*                                                                         *)
(* CounterMax stands for UINT32_MAX and bounds every counter.              *)
(***************************************************************************)
EXTENDS Naturals

CONSTANTS BlockSlots,   \* 32-byte slots in one erase block
          CounterMax,   \* the largest counter, UINT32_MAX in the code
          Seed,         \* the counter both blocks are provisioned with
          Erased, Blank, Torn

ASSUME GeometryAssumption == BlockSlots \in Nat \ {0}
ASSUME CounterAssumption == CounterMax \in Nat /\ Seed \in 1..CounterMax
ASSUME CellAssumption == /\ Erased # Blank /\ Erased # Torn /\ Blank # Torn
                         /\ {Erased, Blank, Torn} \cap Nat = {}

Blocks == {0, 1}
Slots == 0 .. BlockSlots - 1
Counters == 1 .. CounterMax
Cells == Counters \cup {Erased, Blank, Torn}
Rows == [Slots -> Cells]

IsRecord(cell) == cell \in Counters
ReadsErased(cell) == cell \in {Erased, Blank}

\* The journal as provisioning writes it: the seed in the first slot of each block.
ProvisionedRow == [i \in Slots |-> IF i = 0 THEN Seed ELSE Erased]

(***************************************************************************)
(* A block the load accepts: records of increasing counters, then only     *)
(* slots that read erased.                                                 *)
(***************************************************************************)
Ordered(row) ==
  \A i \in Slots :
    \/ ReadsErased(row[i])
    \/ /\ IsRecord(row[i])
       /\ \A k \in 0 .. i - 1 : IsRecord(row[k]) /\ row[k] < row[i]

Qualifies(cell) == IsRecord(cell) /\ cell >= Seed

Loadable(flash) ==
  /\ \A b \in Blocks : Ordered(flash[b])
  /\ \E b \in Blocks, i \in Slots : Qualifies(flash[b][i])

(***************************************************************************)
(* The slot whose record the load ends with: the largest counter of both   *)
(* blocks and, of two equal ones, the one in the later block.              *)
(***************************************************************************)
NewestAt(flash, b, i) ==
  /\ Qualifies(flash[b][i])
  /\ \A d \in Blocks, k \in Slots :
       IsRecord(flash[d][k]) =>
         \/ flash[d][k] < flash[b][i]
         \/ flash[d][k] = flash[b][i] /\ d <= b
=============================================================================
