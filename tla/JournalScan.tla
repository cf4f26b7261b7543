----------------------------- MODULE JournalScan -----------------------------
(***************************************************************************)
(* The loop of auth_journal_load, one slot a step, over any contents of    *)
(* the two blocks.  It is shown to accept exactly the contents that        *)
(* JournalFormat calls Loadable and to end at the record it calls newest,  *)
(* which is what module Journal uses in one step.                          *)
(***************************************************************************)
EXTENDS JournalFormat

VARIABLES
  flash,             \* the contents scanned, which the load does not change
  b, i,              \* the loop's block and slot
  gap, last, found,  \* its locals
  counter, active, next,   \* the fields of auth_journal_t it sets
  result             \* "scanning", then what the load returns

vars == <<flash, b, i, gap, last, found, counter, active, next, result>>

TypeOK ==
  /\ flash \in [Blocks -> Rows]
  /\ b \in 0 .. 2 /\ i \in Slots
  /\ gap \in BOOLEAN /\ found \in BOOLEAN
  /\ last \in 0 .. CounterMax
  /\ counter \in Counters /\ active \in Blocks /\ next \in 0 .. BlockSlots
  /\ result \in {"scanning", "loaded", "refused"}

Init ==
  /\ flash \in [Blocks -> Rows]
  /\ b = 0 /\ i = 0
  /\ gap = FALSE /\ last = 0 /\ found = FALSE
  /\ counter = Seed /\ active = 0 /\ next = 0
  /\ result = "scanning"

Scanning == result = "scanning" /\ b \in Blocks

\* Faulty: the loop runs one slot too far.
LastSlotPassed == i + 1 <= BlockSlots
MoreSlots == i + 1 < BlockSlots

\* The next slot, or the first one of the next block with its locals reset.
Advance(g, l) ==
  IF MoreSlots
  THEN b' = b /\ i' = i + 1 /\ gap' = g /\ last' = l
  ELSE b' = b + 1 /\ i' = 0 /\ gap' = FALSE /\ last' = 0

SkipErased ==
  /\ Scanning
  /\ ReadsErased(flash[b][i])
  /\ Advance(TRUE, last)
  /\ UNCHANGED <<flash, found, counter, active, next, result>>

\* Faulty: a record behind an erased slot is accepted.
AcceptablePastGap(cell) == IsRecord(cell) /\ cell > last
AcceptableHere(cell) == ~ gap /\ IsRecord(cell) /\ cell > last

\* Faulty: a later block's record wins although it is smaller.
LaterWins(cell) == cell >= Seed
LargestWins(cell) == cell >= counter

TakeRecord ==
  /\ Scanning
  /\ AcceptableHere(flash[b][i])
  /\ Advance(gap, flash[b][i])
  /\ IF LargestWins(flash[b][i])
     THEN counter' = flash[b][i] /\ active' = b /\ next' = i + 1 /\ found' = TRUE
     ELSE UNCHANGED <<counter, active, next, found>>
  /\ UNCHANGED <<flash, result>>

RefuseSlot ==
  /\ Scanning
  /\ ~ ReadsErased(flash[b][i])
  /\ ~ AcceptableHere(flash[b][i])
  /\ result' = "refused"
  /\ UNCHANGED <<flash, b, i, gap, last, found, counter, active, next>>

Finish ==
  /\ result = "scanning"
  /\ b = 2
  /\ result' = IF found THEN "loaded" ELSE "refused"
  /\ UNCHANGED <<flash, b, i, gap, last, found, counter, active, next>>

Next == SkipErased \/ TakeRecord \/ RefuseSlot \/ Finish

Spec == Init /\ [][Next]_vars

-----------------------------------------------------------------------------
\* The load succeeds on a loadable journal and refuses every other one: a torn
\* record, a gap, a repeated or decreasing counter, or nothing from the seed on.
AcceptsExactlyLoadable ==
  /\ result = "loaded" => Loadable(flash)
  /\ result = "refused" => ~ Loadable(flash)

\* It ends at the newest record, the later block's when two are equal, with the
\* next free slot right behind it.
EndsAtNewest ==
  result = "loaded" =>
    /\ next > 0
    /\ NewestAt(flash, active, next - 1)
    /\ counter = flash[active][next - 1]
    /\ next < BlockSlots => ReadsErased(flash[active][next])

(* The inductive invariant behind these.                                   *)

\* The slots the loop has been through.
Scanned(d, k) == d < b \/ (d = b /\ k < i)

OrderedUpTo(row, n) ==
  \A k \in 0 .. n - 1 :
    \/ ReadsErased(row[k])
    \/ /\ IsRecord(row[k])
       /\ \A l \in 0 .. k - 1 : IsRecord(row[l]) /\ row[l] < row[k]

\* Blocks left behind are accepted.  Of the current one, gap says that an erased slot
\* was seen; as long as none was, last is the newest of its records.
BlocksSoFar ==
  /\ b = 2 => i = 0
  /\ \A d \in Blocks : d < b => Ordered(flash[d])
  /\ b \in Blocks =>
       /\ OrderedUpTo(flash[b], i)
       /\ gap <=> \E k \in 0 .. i - 1 : ReadsErased(flash[b][k])
       /\ ~ gap => last = IF i = 0 THEN 0 ELSE flash[b][i - 1]

\* found, counter, active and next describe the newest record so far.
NewestSoFar ==
  IF found
  THEN /\ next > 0 /\ Scanned(active, next - 1)
       /\ counter = flash[active][next - 1] /\ Qualifies(counter)
       /\ \A d \in Blocks, k \in Slots : Scanned(d, k) /\ IsRecord(flash[d][k]) =>
            \/ flash[d][k] < counter
            \/ flash[d][k] = counter /\ d <= active
  ELSE /\ counter = Seed
       /\ \A d \in Blocks, k \in Slots : Scanned(d, k) => ~ Qualifies(flash[d][k])

\* At every turn of the loop of auth_journal_load its locals are right of the slots
\* scanned so far.
IInv ==
  /\ TypeOK
  /\ BlocksSoFar /\ NewestSoFar
  /\ result = "loaded" => b = 2 /\ found
  /\ result = "refused" => ~ Loadable(flash)
=============================================================================
