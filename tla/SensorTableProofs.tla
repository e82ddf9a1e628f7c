-------------------------- MODULE SensorTableProofs ---------------------------
(***************************************************************************)
(* Proofs about SensorTable, for any number of ports, rows and devices,    *)
(* ids of any length and whatever is plugged or pulled.                    *)
(***************************************************************************)
EXTENDS SensorTable, CountingProofs, SequenceTheorems, FiniteSetTheorems, TLAPS

-------------------------------------------------------------------------------
(* The invariant of a search. *)

Here == attached[bus]
Last == id[NewRow - 1]
IsFound(d) == \E r \in FoundRows : id[r] = d

\* d and e have the same bits before bit k.
Agree(d, e, k) == \A j \in 1 .. k - 1 : d[j] = e[j]

\* At bit i, where x has 0, the device e goes the other way.
LeavesAt(x, e, i) == x[i] = 0 /\ e[i] = 1 /\ Agree(x, e, i)

\* n is the last of the bits before bit c at which a device of H leaves x.
IsDeviation(x, n, c, H) ==
  /\ n \in 0 .. c - 1
  /\ n # 0 => \E e \in H : LeavesAt(x, e, n)
  /\ \A i \in n + 1 .. c - 1 : \A e \in H : ~LeavesAt(x, e, i)

\* The search has the room that is left of the table.
InTable ==
  /\ SearchTypeOK
  /\ step = "idle" => numFoundDevices = 0 /\ lastDeviation = 0
  /\ step = "bits" => numFoundDevices < numDevices

\* What was found is on the bus and in order, and what was not comes after it.
FoundInOrder ==
  /\ \A r \in FoundRows : id[r] \in Here
  /\ \A q, r \in FoundRows : q < r => Precedes(id[q], id[r])
  /\ numFoundDevices > 0 => \A e \in Here : IsFound(e) \/ Precedes(Last, e)

DeviationKept ==
  /\ numFoundDevices = 0 => lastDeviation = 0
  /\ numFoundDevices > 0 => IsDeviation(Last, lastDeviation, IdBits + 1, Here)
  /\ numFoundDevices > 0 /\ step # "crc" => lastDeviation > 0
  /\ step = "crc" => numFoundDevices > 0 /\ lastDeviation = 0

\* The new row follows the last one to the bit of its deviation, where it goes the other
\* way; whoever does not listen any more was found or is still to come.
Following ==
  LET x == id[NewRow]
  IN  /\ listening = {e \in Here : Agree(x, e, currentBit)}
      /\ listening # {}
      /\ IsDeviation(x, newDeviation, currentBit, Here)
      /\ numFoundDevices > 0 =>
           /\ \A j \in Bits : j < lastDeviation \/ j >= currentBit => x[j] = Last[j]
           /\ lastDeviation < currentBit => x[lastDeviation] = 1
      /\ \A e \in Here : \/ e \in listening
                         \/ IsFound(e)
                         \/ \E i \in 1 .. currentBit - 1 : LeavesAt(x, e, i)

PassInv ==
  step # "idle" /\ ~disturbed =>
    /\ FoundInOrder
    /\ DeviationKept
    /\ step = "bits" => Following

-------------------------------------------------------------------------------
(* Typing. *)

LEMMA Sizes ==
  /\ IdBits \in 1 .. 254
  /\ MaxSensors \in 1 .. 255
  /\ Devices \subseteq Ids
  /\ ZeroId \in Ids
BY IdsAssumption, TableAssumption DEF Failed, Devices

LEMMA InitInTable == OwiInit => InTable
<1> SUFFICES ASSUME OwiInit PROVE InTable
  OBVIOUS
<1>1. id \in [Rows -> Ids]
  BY Sizes DEF OwiInit
<1>2. /\ first \in 0 .. MaxSensors /\ numDevices \in 0 .. MaxSensors - first
      /\ numFoundDevices \in 0 .. numDevices /\ lastDeviation \in 0 .. IdBits \cup {Failed}
      /\ newDeviation \in 0 .. IdBits /\ currentBit \in Bits /\ num \in 0 .. 255
  BY Sizes DEF OwiInit, NoLocals, Bits
<1> QED
  BY <1>1, <1>2 DEF OwiInit, NoLocals, InTable, SearchTypeOK

LEMMA CallInTable ==
  ASSUME InTable, NEW b \in Buses, NEW f \in 0 .. MaxSensors, NEW n \in 0 .. MaxSensors - f,
         SearchDevices(b, f, n)
  PROVE  InTable'
<1>1. id' \in [Rows -> Ids]
  BY Sizes DEF SearchDevices, InTable, SearchTypeOK
<1>2. beyond' \in BOOLEAN
  BY DEF SearchDevices, Writes
<1>3. num' \in 0 .. 255
  BY TableAssumption DEF SearchDevices
<1>4. numFoundDevices' \in 0 .. numDevices' /\ step' = "pass"
  BY DEF SearchDevices, InTable, locals
<1> QED
  BY <1>1, <1>2, <1>3, <1>4 DEF SearchDevices, InTable, SearchTypeOK, locals

LEMMA PlugInTable ==
  ASSUME InTable, NEW b \in Buses, NEW d, Plug(b, d)
  PROVE  InTable'
<1>1. d \in Devices
  BY DEF Plug, Devices
<1>2. attached' \in [Buses -> SUBSET Devices]
  BY <1>1 DEF Plug, InTable, SearchTypeOK
<1>3. listening' \in SUBSET Devices
  BY DEF Plug, InTable, SearchTypeOK
<1>4. disturbed' \in BOOLEAN
  BY DEF Plug
<1> QED
  BY <1>2, <1>3, <1>4 DEF Plug, InTable, SearchTypeOK

\* The row of a pass is in the table.
LEMMA RowInTable ==
  ASSUME InTable, numFoundDevices < numDevices
  PROVE  /\ NewRow \in Rows
         /\ numFoundDevices > 0 => NewRow - 1 \in Rows /\ NewRow - 1 \in FoundRows
         /\ FoundRows \subseteq Rows
         /\ NewRow \notin FoundRows
         /\ CurrentRow \in Rows
BY Sizes DEF InTable, SearchTypeOK, NewRow, Rows, FoundRows, CurrentRow

\* The copy of the id found last goes to the new row.
LEMMA CopyWrites ==
  ASSUME InTable, numFoundDevices < numDevices, CopyLast
  PROVE  /\ id' \in [Rows -> Ids] /\ beyond' = beyond
         /\ id'[NewRow] = id[CurrentRow]
         /\ \A r \in Rows : r # NewRow => id'[r] = id[r]
<1>1. NewRow \in Rows /\ CurrentRow \in Rows
  BY RowInTable
<1>2. beyond' = beyond
  BY <1>1 DEF CopyLast, Writes, InTable, SearchTypeOK
<1> QED
  BY <1>1, <1>2 DEF CopyLast, InTable, SearchTypeOK

\* What a bit writes: one bit of the new row.
LEMMA TakeWrites ==
  ASSUME InTable, step = "bits", NEW bit \in {0, 1}, NEW n, Take(bit, n)
  PROVE  /\ id' \in [Rows -> Ids]
         /\ id'[NewRow][currentBit] = bit
         /\ \A j \in Bits : j # currentBit => id'[NewRow][j] = id[NewRow][j]
         /\ \A r \in Rows : r # NewRow => id'[r] = id[r]
<1>1. NewRow \in Rows /\ id \in [Rows -> Ids] /\ currentBit \in Bits
  BY RowInTable DEF InTable, SearchTypeOK
<1>2. id' = [id EXCEPT ![NewRow] = [id[NewRow] EXCEPT ![currentBit] = bit]]
  BY <1>1 DEF Take
<1>3. id[NewRow] \in [Bits -> {0, 1}]
  BY <1>1 DEF Ids
<1>4. [id[NewRow] EXCEPT ![currentBit] = bit] \in Ids
  BY <1>1, <1>3 DEF Ids
<1>5. id'[NewRow] = [id[NewRow] EXCEPT ![currentBit] = bit]
  BY <1>1, <1>2
<1>6. id' \in [Rows -> Ids] /\ \A r \in Rows : r # NewRow => id'[r] = id[r]
  BY <1>1, <1>2, <1>4
<1> QED
  BY <1>1, <1>3, <1>5, <1>6

LEMMA TakeInTable ==
  ASSUME InTable, step = "bits", NEW bit \in {0, 1}, NEW n \in 0 .. IdBits, Take(bit, n)
  PROVE  InTable'
<1>1. /\ id' \in [Rows -> Ids]
  BY TakeWrites
<1>2. /\ UNCHANGED <<attached, disturbed, bus, first, numDevices, num, beyond>>
      /\ newDeviation' = n /\ listening' \subseteq listening
  BY DEF Take
<1>3. /\ numFoundDevices < numDevices /\ numFoundDevices \in 0 .. numDevices
      /\ numDevices \in Nat /\ currentBit \in 1 .. IdBits
  BY Sizes DEF InTable, SearchTypeOK, Bits
<1>4. CASE currentBit = IdBits
  <2>1. /\ step' \in {"crc", "pass"} /\ lastDeviation' = n /\ currentBit' = currentBit
        /\ numFoundDevices' = numFoundDevices + 1
    BY <1>4 DEF Take, EndPass, RowsAfter
  <2>2. numFoundDevices' \in 0 .. numDevices
    BY <1>3, <2>1
  <2> QED
    BY <1>1, <1>2, <2>1, <2>2 DEF InTable, SearchTypeOK
<1>5. CASE currentBit # IdBits
  <2>1. /\ currentBit' = currentBit + 1 /\ UNCHANGED <<step, lastDeviation, numFoundDevices>>
    BY <1>5 DEF Take
  <2>2. currentBit' \in Bits
    BY <1>3, <1>5, <2>1, Sizes DEF Bits
  <2> QED
    BY <1>1, <1>2, <2>1, <2>2 DEF InTable, SearchTypeOK
<1> QED
  BY <1>4, <1>5

\* The bit that a pass follows is a bit, and what it remembers a place before the next.
LEMMA BitsFollowed ==
  ASSUME InTable, step = "bits"
  PROVE  /\ ReadBit \in {0, 1} /\ BranchTaken \in {0, 1}
         /\ newDeviation \in 0 .. IdBits
         /\ DeviationAfter(BranchTaken) \in 0 .. IdBits
<1>1. NewRow \in Rows
  BY RowInTable DEF InTable
<1>2. id[NewRow] \in [Bits -> {0, 1}] /\ currentBit \in Bits
  BY <1>1 DEF InTable, SearchTypeOK, Ids
<1>3. BranchTaken \in {0, 1}
  BY <1>2 DEF BranchTaken
<1> QED
  BY <1>2, <1>3, Sizes DEF ReadBit, DeviationAfter, Bits, InTable, SearchTypeOK

LEMMA GoodRowsAreFound ==
  ASSUME first \in Nat, numFoundDevices \in Nat
  PROVE  Cardinality(GoodRows) \in 0 .. numFoundDevices
<1>1. IsFiniteSet(FoundRows) /\ Cardinality(FoundRows) = numFoundDevices
  <2>1. first \in Int /\ first + numFoundDevices - 1 \in Int
    OBVIOUS
  <2>2. /\ IsFiniteSet(FoundRows)
        /\ Cardinality(FoundRows) = IF first > first + numFoundDevices - 1 THEN 0
                                    ELSE (first + numFoundDevices - 1) - first + 1
    BY <2>1, FS_Interval DEF FoundRows
  <2> QED
    BY <2>2
<1>2. GoodRows \subseteq FoundRows
  BY DEF GoodRows
<1>3. IsFiniteSet(GoodRows) /\ Cardinality(GoodRows) <= Cardinality(FoundRows)
  BY <1>1, <1>2, FS_Subset
<1>4. Cardinality(GoodRows) \in Nat
  BY <1>3, FS_CardinalityType
<1> QED
  BY <1>1, <1>3, <1>4

LEMMA ReturnInTable ==
  ASSUME InTable, Return, UNCHANGED <<attached, disturbed, bus, first, numDevices>>,
         num' \in 0 .. 255, id' \in [Rows -> Ids], beyond' \in BOOLEAN
  PROVE  InTable'
<1>1. /\ lastDeviation' \in 0 .. IdBits \cup {Failed} /\ newDeviation' \in 0 .. IdBits
      /\ currentBit' \in Bits /\ numFoundDevices' \in 0 .. numDevices' /\ step' = "idle"
      /\ listening' = {}
  BY Sizes DEF Return, Bits, InTable, SearchTypeOK
<1> QED
  BY <1>1 DEF Return, InTable, SearchTypeOK

LEMMA StepInTable ==
  ASSUME InTable, SearchStep
  PROVE  InTable'
<1>1. CASE NobodyThere
  <2>1. numFoundDevices < numDevices
    BY <1>1 DEF NobodyThere, TableFull, InTable, SearchTypeOK
  <2>2. id' \in [Rows -> Ids] /\ beyond' \in BOOLEAN
    BY <1>1, <2>1, CopyWrites DEF NobodyThere, InTable, SearchTypeOK
  <2> QED
    BY <1>1, <2>2, ReturnInTable DEF NobodyThere, InTable, SearchTypeOK
<1>2. CASE BeginPass
  <2>1. numFoundDevices < numDevices
    BY <1>2 DEF BeginPass, TableFull, InTable, SearchTypeOK
  <2>2. id' \in [Rows -> Ids]
    BY <1>2, <2>1, CopyWrites DEF BeginPass
  <2>3. beyond' \in BOOLEAN
    BY <1>2, <2>1, CopyWrites DEF BeginPass, InTable, SearchTypeOK
  <2>4. currentBit' \in Bits /\ newDeviation' \in 0 .. IdBits /\ listening' \in SUBSET Devices
    BY <1>2, Sizes DEF BeginPass, Bits, InTable, SearchTypeOK
  <2> QED
    BY <1>2, <2>1, <2>2, <2>3, <2>4 DEF BeginPass, InTable, SearchTypeOK
<1>3. CASE NoAnswer
  <2>1. numFoundDevices' \in 0 .. numDevices /\ step' = "pass" /\ lastDeviation' = Failed
    BY <1>3, Sizes DEF NoAnswer, EndPass, RowsAfter, Failed, InTable, SearchTypeOK
  <2> QED
    BY <1>3, <2>1 DEF NoAnswer, InTable, SearchTypeOK
<1>4. CASE SameBit
  BY <1>4, BitsFollowed, TakeInTable DEF SameBit
<1>5. CASE Conflict
  BY <1>5, BitsFollowed, TakeInTable DEF Conflict
<1>6. CASE CheckRoms
  <2>1. Cardinality(GoodRows) \in Nat /\ num \in Nat
    BY GoodRowsAreFound, Sizes DEF InTable, SearchTypeOK
  <2>2. num' \in 0 .. 255
    BY <1>6, <2>1 DEF CheckRoms
  <2> QED
    BY <1>6, <2>2, ReturnInTable DEF CheckRoms, InTable, SearchTypeOK
<1> QED
  BY <1>1, <1>2, <1>3, <1>4, <1>5, <1>6 DEF SearchStep

\* No step of a search writes behind the table.
LEMMA SearchStaysInTable ==
  ASSUME InTable, SearchStep
  PROVE  beyond' = beyond
<1>1. CASE NobodyThere \/ BeginPass
  <2>1. numFoundDevices < numDevices /\ CopyLast
    BY <1>1 DEF NobodyThere, BeginPass, TableFull, InTable, SearchTypeOK
  <2> QED
    BY <2>1, CopyWrites
<1> QED
  BY <1>1 DEF SearchStep, NoAnswer, SameBit, Conflict, Take, CheckRoms

-------------------------------------------------------------------------------
(* The order of the ids. *)

LEMMA PrecedesIsLeaving ==
  ASSUME NEW d, NEW e
  PROVE  Precedes(d, e) <=> \E i \in Bits : LeavesAt(d, e, i)
BY DEF Precedes, LeavesAt, Agree

\* Two ids that leave a third one at two different bits, or at the same one.
LEMMA PrecedesTransitive ==
  ASSUME NEW d \in Ids, NEW e \in Ids, NEW f \in Ids, Precedes(d, e), Precedes(e, f)
  PROVE  Precedes(d, f)
<1>1. PICK i \in Bits : d[i] = 0 /\ e[i] = 1 /\ \A j \in 1 .. i - 1 : d[j] = e[j]
  BY DEF Precedes
<1>2. PICK k \in Bits : e[k] = 0 /\ f[k] = 1 /\ \A j \in 1 .. k - 1 : e[j] = f[j]
  BY DEF Precedes
<1>3. i \in 1 .. IdBits /\ k \in 1 .. IdBits /\ IdBits \in Int
  BY Sizes DEF Bits
<1>4. i # k
  BY <1>1, <1>2
<1>5. CASE i < k
  <2>1. f[i] = 1 /\ \A j \in 1 .. i - 1 : d[j] = f[j]
    BY <1>1, <1>2, <1>3, <1>5
  <2> QED
    BY <1>1, <2>1 DEF Precedes
<1>6. CASE k < i
  <2>1. d[k] = 0 /\ \A j \in 1 .. k - 1 : d[j] = f[j]
    BY <1>1, <1>2, <1>3, <1>6
  <2> QED
    BY <1>2, <2>1 DEF Precedes
<1> QED
  BY <1>3, <1>4, <1>5, <1>6

LEMMA PrecedesIrreflexive ==
  ASSUME NEW d
  PROVE  ~Precedes(d, d)
BY DEF Precedes

LEMMA PrecedesAsymmetric ==
  ASSUME NEW d \in Ids, NEW e \in Ids, Precedes(d, e)
  PROVE  ~Precedes(e, d)
BY PrecedesTransitive, PrecedesIrreflexive

\* Ids that agree in all bits are the same.
LEMMA AgreeIsSame ==
  ASSUME NEW d \in Ids, NEW e \in Ids, Agree(d, e, IdBits + 1)
  PROVE  d = e
BY Sizes DEF Agree, Ids, Bits

-------------------------------------------------------------------------------
(* One bit: y is x with the bit c followed. *)

Follows(y, x, c, bit) ==
  /\ y[c] = bit
  /\ \A j \in Bits : j # c => y[j] = x[j]

LEMMA AgreeNext ==
  ASSUME NEW x \in Ids, NEW y \in Ids, NEW e \in Ids, NEW c \in Bits, NEW bit \in {0, 1},
         Follows(y, x, c, bit)
  PROVE  /\ Agree(y, e, c + 1) <=> (Agree(x, e, c) /\ e[c] = bit)
         /\ \A i \in 1 .. c : Agree(y, e, i) <=> Agree(x, e, i)
         /\ \A i \in 1 .. c - 1 : LeavesAt(y, e, i) <=> LeavesAt(x, e, i)
<1>1. c \in 1 .. IdBits /\ IdBits \in Int
  BY Sizes DEF Bits
<1>2. \A i \in 1 .. c : \A j \in 1 .. i - 1 : y[j] = x[j]
  BY <1>1 DEF Follows, Bits
<1>3. \A i \in 1 .. c : Agree(y, e, i) <=> Agree(x, e, i)
  BY <1>1, <1>2 DEF Agree
<1>4. \A i \in 1 .. c - 1 : LeavesAt(y, e, i) <=> LeavesAt(x, e, i)
  BY <1>1, <1>3 DEF LeavesAt, Follows, Bits
<1>5. Agree(y, e, c + 1) <=> (Agree(x, e, c) /\ e[c] = bit)
  <2>1. \A j \in 1 .. (c + 1) - 1 : j \in 1 .. c - 1 \/ j = c
    BY <1>1
  <2>2. c \in 1 .. (c + 1) - 1 /\ \A j \in 1 .. c - 1 : j \in 1 .. (c + 1) - 1 /\ y[j] = x[j]
    BY <1>1, <1>2
  <2> QED
    BY <2>1, <2>2 DEF Agree, Follows
<1> QED
  BY <1>3, <1>4, <1>5

\* Where the devices still listening have no other bit nothing is left behind; where they
\* have, the next branch is remembered if 0 is taken.
LEMMA DeviationNext ==
  ASSUME NEW x \in Ids, NEW y \in Ids, NEW H \in SUBSET Ids, NEW c \in Bits, NEW bit \in {0, 1},
         NEW n, IsDeviation(x, n, c, H), Follows(y, x, c, bit),
         NEW m,
         \/ m = n /\ (bit = 0 => \A e \in H : Agree(x, e, c) => e[c] = 0)
         \/ m = c /\ bit = 0 /\ \E e \in H : Agree(x, e, c) /\ e[c] = 1
  PROVE  IsDeviation(y, m, c + 1, H)
<1>1. c \in 1 .. IdBits /\ IdBits \in Int /\ n \in 0 .. c - 1
  BY Sizes DEF Bits, IsDeviation
<1>2. \A e \in H : \A i \in 1 .. c - 1 : LeavesAt(y, e, i) <=> LeavesAt(x, e, i)
  BY AgreeNext
<1>3. \A e \in H : LeavesAt(y, e, c) <=> bit = 0 /\ e[c] = 1 /\ Agree(x, e, c)
  BY <1>1, AgreeNext DEF LeavesAt, Follows
<1>4. CASE m = n /\ (bit = 0 => \A e \in H : Agree(x, e, c) => e[c] = 0)
  <2>1. \A i \in n + 1 .. (c + 1) - 1 : i \in n + 1 .. c - 1 \/ i = c
    BY <1>1
  <2>2. \A e \in H : ~LeavesAt(y, e, c)
    BY <1>3, <1>4
  <2>3. \A i \in n + 1 .. c - 1 : i \in 1 .. c - 1
    BY <1>1
  <2>4. \A i \in n + 1 .. (c + 1) - 1 : \A e \in H : ~LeavesAt(y, e, i)
    BY <1>2, <2>1, <2>2, <2>3 DEF IsDeviation
  <2>5. n # 0 => \E e \in H : LeavesAt(y, e, n)
    BY <1>1, <1>2 DEF IsDeviation
  <2> QED
    BY <1>1, <1>4, <2>4, <2>5 DEF IsDeviation
<1>5. CASE m = c /\ bit = 0 /\ \E e \in H : Agree(x, e, c) /\ e[c] = 1
  <2>1. \E e \in H : LeavesAt(y, e, m)
    BY <1>3, <1>5
  <2>2. m \in 0 .. (c + 1) - 1 /\ m + 1 .. (c + 1) - 1 = {}
    BY <1>1, <1>5
  <2> QED
    BY <2>1, <2>2 DEF IsDeviation
<1> QED
  BY <1>4, <1>5

-------------------------------------------------------------------------------
(* The steps of a search that nobody disturbs. *)

\* What is known of a pass: of the rows, of the last id found and of the new row.
LEMMA InPass ==
  ASSUME InTable, PassInv, ~disturbed, step = "bits"
  PROVE  /\ NewRow \in Rows /\ id[NewRow] \in Ids /\ currentBit \in Bits
         /\ Here \in SUBSET Ids /\ listening \subseteq Here /\ Following
         /\ FoundInOrder /\ DeviationKept
         /\ numFoundDevices \in Nat /\ lastDeviation \in 0 .. IdBits
         /\ numFoundDevices > 0 =>
              /\ Last \in Here /\ Last \in Ids /\ lastDeviation \in Bits
              /\ \E r \in FoundRows : id[r] = Last
<1>1. NewRow \in Rows /\ id[NewRow] \in Ids /\ currentBit \in Bits /\ numFoundDevices \in Nat
  BY RowInTable DEF InTable, SearchTypeOK
<1>2. Here \in SUBSET Ids
  BY Sizes DEF Here, InTable, SearchTypeOK
<1>3. Following /\ FoundInOrder /\ DeviationKept
  BY DEF PassInv
<1>4. listening \subseteq Here
  BY <1>3 DEF Following
<1>5. ASSUME numFoundDevices > 0
      PROVE  /\ Last \in Here /\ Last \in Ids /\ lastDeviation \in Bits
             /\ \E r \in FoundRows : id[r] = Last
  <2>1. NewRow - 1 \in FoundRows /\ Last \in Here
    BY <1>3, <1>5, RowInTable DEF FoundInOrder, Last, InTable
  <2>2. lastDeviation \in Bits
    BY <1>3, <1>5, Sizes DEF DeviationKept, IsDeviation, Bits
  <2> QED
    BY <1>2, <2>1, <2>2 DEF Last
<1>6. lastDeviation \in 0 .. IdBits
  BY <1>1, <1>3, <1>5, Sizes DEF DeviationKept, Bits
<1> QED
  BY <1>1, <1>2, <1>3, <1>4, <1>5, <1>6

\* Up to the bit of the last deviation the id found last still listens, and at that bit so
\* does a device that leaves it.
LEMMA LastListens ==
  ASSUME InTable, PassInv, ~disturbed, step = "bits",
         numFoundDevices > 0, currentBit <= lastDeviation
  PROVE  /\ Last \in listening
         /\ currentBit = lastDeviation =>
              Last[currentBit] = 0 /\ \E e \in listening : e[currentBit] = 1
<1> USE InPass
<1>1. currentBit \in 1 .. IdBits /\ lastDeviation \in 1 .. IdBits /\ IdBits \in Int
  BY Sizes DEF Bits
<1>2. \A j \in 1 .. currentBit - 1 : id[NewRow][j] = Last[j]
  BY <1>1 DEF Following, Bits
<1>3. \A e \in Here : Agree(Last, e, currentBit) <=> Agree(id[NewRow], e, currentBit)
  BY <1>2 DEF Agree
<1>4. Agree(Last, Last, currentBit)
  BY DEF Agree
<1>5. Last \in listening
  BY <1>3, <1>4 DEF Following
<1>6. ASSUME currentBit = lastDeviation
      PROVE  Last[currentBit] = 0 /\ \E e \in listening : e[currentBit] = 1
  <2>1. \E e \in Here : LeavesAt(Last, e, currentBit)
    BY <1>1, <1>6 DEF DeviationKept, IsDeviation
  <2> QED
    BY <2>1, <1>3 DEF LeavesAt, Following
<1> QED
  BY <1>5, <1>6

\* The bit that is followed, in a pass.
GoodBit(bit, m) ==
  /\ bit \in {0, 1}
  /\ Take(bit, m)
  /\ \E e \in listening : e[currentBit] = bit
  /\ \/ m = newDeviation /\ (bit = 0 => \A e \in listening : e[currentBit] = 0)
     \/ m = currentBit /\ bit = 0 /\ \E e \in listening : e[currentBit] = 1
  /\ currentBit > lastDeviation => (bit = 1 => \A e \in listening : e[currentBit] = 1)
  /\ numFoundDevices > 0 =>
       /\ currentBit < lastDeviation => bit = Last[currentBit]
       /\ currentBit = lastDeviation => bit = 1

LEMMA SameBitIsGood ==
  ASSUME InTable, PassInv, ~disturbed, SameBit
  PROVE  \E bit, m : GoodBit(bit, m)
<1> USE InPass DEF SameBit
<1>1. currentBit \in 1 .. IdBits /\ lastDeviation \in 0 .. IdBits /\ IdBits \in Int
  BY Sizes DEF Bits
<1>2. \A e \in listening : e[currentBit] \in {0, 1}
  BY DEF Ids
<1>3. /\ ReadBit \in {0, 1} /\ \A e \in listening : e[currentBit] = ReadBit
      /\ \E e \in listening : e[currentBit] = ReadBit
  BY <1>2 DEF ReadBit, ReadComplement
<1>4. ASSUME numFoundDevices > 0
      PROVE  /\ currentBit < lastDeviation => ReadBit = Last[currentBit]
             /\ currentBit = lastDeviation => ReadBit = 1
  BY <1>1, <1>3, <1>4, LastListens
<1>5. GoodBit(ReadBit, newDeviation)
  BY <1>3, <1>4 DEF GoodBit
<1> QED
  BY <1>5

LEMMA ConflictIsGood ==
  ASSUME InTable, PassInv, ~disturbed, Conflict
  PROVE  \E bit, m : GoodBit(bit, m)
<1> USE InPass DEF Conflict
<1>1. currentBit \in 1 .. IdBits /\ lastDeviation \in 0 .. IdBits /\ IdBits \in Int
  BY Sizes DEF Bits
<1>2. (\E e \in listening : e[currentBit] = 0) /\ (\E e \in listening : e[currentBit] = 1)
  BY DEF ReadBit, ReadComplement
<1>3. BranchTaken \in {0, 1}
  BY BitsFollowed
<1>4. numFoundDevices > 0 => (currentBit < lastDeviation => BranchTaken = Last[currentBit])
  BY <1>1 DEF BranchTaken, Following, Bits
<1>5. GoodBit(BranchTaken, DeviationAfter(BranchTaken))
  <2>1. \E e \in listening : e[currentBit] = BranchTaken
    BY <1>2, <1>3
  <2>2. currentBit > lastDeviation => BranchTaken = 0
    BY <1>1 DEF BranchTaken
  <2>3. currentBit = lastDeviation => BranchTaken = 1
    BY <1>1 DEF BranchTaken
  <2>4. \/ BranchTaken = 1 /\ DeviationAfter(BranchTaken) = newDeviation
        \/ BranchTaken = 0 /\ DeviationAfter(BranchTaken) = currentBit
    BY <1>3 DEF DeviationAfter
  <2> QED
    BY <1>2, <1>3, <1>4, <2>1, <2>2, <2>3, <2>4 DEF GoodBit
<1> QED
  BY <1>5

\* Somebody always listens: a pass never fails.
LEMMA NobodyFails ==
  ASSUME InTable, PassInv, ~disturbed
  PROVE  ~NoAnswer
<1> SUFFICES ASSUME NoAnswer PROVE FALSE
  OBVIOUS
<1>1. listening # {} /\ \A e \in listening : e[currentBit] \in {0, 1}
  BY InPass DEF NoAnswer, Following, Ids
<1> QED
  BY <1>1 DEF NoAnswer, ReadBit, ReadComplement

\* A device that is dropped at a bit where 1 is taken was found before.
LEMMA DroppedWasFound ==
  ASSUME InTable, PassInv, ~disturbed, step = "bits", NEW bit, NEW m, GoodBit(bit, m),
         NEW e \in listening, e[currentBit] # bit
  PROVE  (bit = 0 /\ e[currentBit] = 1) \/ IsFound(e)
<1> USE InPass
<1>1. currentBit \in 1 .. IdBits /\ lastDeviation \in 0 .. IdBits /\ IdBits \in Int
  BY Sizes DEF Bits
<1>2. e \in Here /\ e \in Ids /\ e[currentBit] \in {0, 1} /\ bit \in {0, 1}
  BY DEF Ids, GoodBit
<1> SUFFICES ASSUME bit = 1, e[currentBit] = 0 PROVE IsFound(e)
  BY <1>2
<1>3. currentBit <= lastDeviation
  BY <1>1 DEF GoodBit
<1>4. numFoundDevices > 0
  BY <1>1, <1>3 DEF DeviationKept
<1>5. Last \in listening /\ Last \in Ids
  BY <1>3, <1>4, LastListens
<1>6. Agree(id[NewRow], e, currentBit) /\ Agree(id[NewRow], Last, currentBit)
  BY <1>5 DEF Following
<1>7. \A j \in 1 .. currentBit - 1 : Last[j] = e[j]
  BY <1>6 DEF Agree
<1>8. ~Precedes(Last, e)
  <2> SUFFICES ASSUME NEW i \in Bits, LeavesAt(Last, e, i) PROVE FALSE
    BY PrecedesIsLeaving
  <2>1. i \in 1 .. IdBits /\ Last[i] = 0 /\ e[i] = 1 /\ \A j \in 1 .. i - 1 : Last[j] = e[j]
    BY DEF LeavesAt, Bits, Agree
  <2>2. i > currentBit
    BY <1>1, <1>7, <2>1
  <2>3. Last[currentBit] = 0
    BY <1>1, <2>1, <2>2
  <2>4. currentBit = lastDeviation
    BY <1>1, <1>3, <1>4, <2>3 DEF GoodBit
  <2>5. i \in lastDeviation + 1 .. (IdBits + 1) - 1
    BY <1>1, <2>1, <2>2, <2>4
  <2> QED
    BY <1>2, <1>4, <2>5 DEF DeviationKept, IsDeviation
<1> QED
  BY <1>2, <1>4, <1>8 DEF FoundInOrder

\* The same at the next bit, before it is known whether it is the last.
FollowingAt(x, c, n, heard) ==
  /\ heard = {e \in Here : Agree(x, e, c)}
  /\ heard # {}
  /\ IsDeviation(x, n, c, Here)
  /\ numFoundDevices > 0 =>
       /\ \A j \in Bits : j < lastDeviation \/ j >= c => x[j] = Last[j]
       /\ lastDeviation < c => x[lastDeviation] = 1
  /\ \A e \in Here : e \in heard \/ IsFound(e) \/ \E i \in 1 .. c - 1 : LeavesAt(x, e, i)

LEMMA BitIsFollowed ==
  ASSUME InTable, PassInv, ~disturbed, step = "bits", NEW bit, NEW m, GoodBit(bit, m)
  PROVE  /\ id'[NewRow] \in Ids
         /\ FollowingAt(id'[NewRow], currentBit + 1, m, listening')
         /\ \A r \in FoundRows : id'[r] = id[r]
         /\ numFoundDevices > 0 => id'[NewRow - 1] = Last
<1> USE InPass
<1> DEFINE x == id[NewRow]
           y == id'[NewRow]
           c == currentBit
<1>1. c \in 1 .. IdBits /\ lastDeviation \in 0 .. IdBits /\ IdBits \in Int
  BY Sizes DEF Bits
<1>2. bit \in {0, 1} /\ Take(bit, m)
  BY DEF GoodBit
<1>3. y \in Ids /\ Follows(y, x, c, bit) /\ \A r \in Rows : r # NewRow => id'[r] = id[r]
  BY <1>2, TakeWrites DEF Follows
<1>4. \A r \in FoundRows : id'[r] = id[r]
  BY <1>3, RowInTable DEF InTable
<1>5. numFoundDevices > 0 => id'[NewRow - 1] = Last
  BY <1>4, RowInTable DEF Last, InTable
<1>6. \A e \in Here : /\ Agree(y, e, c + 1) <=> (Agree(x, e, c) /\ e[c] = bit)
                      /\ \A i \in 1 .. c - 1 : LeavesAt(y, e, i) <=> LeavesAt(x, e, i)
  <2> TAKE e \in Here
  <2>1. x \in Ids /\ e \in Ids /\ c \in Bits
    OBVIOUS
  <2>2. bit \in {0, 1} /\ y \in Ids /\ Follows(y, x, c, bit)
    BY <1>2, <1>3
  <2>3. /\ Agree(y, e, c + 1) <=> (Agree(x, e, c) /\ e[c] = bit)
        /\ \A i \in 1 .. c : Agree(y, e, i) <=> Agree(x, e, i)
        /\ \A i \in 1 .. c - 1 : LeavesAt(y, e, i) <=> LeavesAt(x, e, i)
    <3> HIDE InPass DEF x, y, c
    <3> QED
      BY <2>1, <2>2, AgreeNext
  <2> QED
    BY <2>3
<1>7. listening' = {e \in Here : Agree(y, e, c + 1)}
  BY <1>2, <1>6 DEF Take, Following
<1>8. listening' # {}
  BY <1>2 DEF Take, GoodBit
<1>9. IsDeviation(y, m, c + 1, Here)
  <2>1. \A e \in Here : e \in listening <=> Agree(x, e, c)
    BY DEF Following
  <2>2. IsDeviation(x, newDeviation, c, Here)
    BY DEF Following
  <2>3. \/ m = newDeviation /\ (bit = 0 => \A e \in Here : Agree(x, e, c) => e[c] = 0)
        \/ m = c /\ bit = 0 /\ \E e \in Here : Agree(x, e, c) /\ e[c] = 1
    BY <2>1 DEF GoodBit
  <2> QED
    BY <1>2, <1>3, <2>2, <2>3, DeviationNext
<1>10. ASSUME numFoundDevices > 0
       PROVE  /\ \A j \in Bits : j < lastDeviation \/ j >= c + 1 => y[j] = Last[j]
              /\ lastDeviation < c + 1 => y[lastDeviation] = 1
  <2>1. /\ \A j \in Bits : j < lastDeviation \/ j >= c => x[j] = Last[j]
        /\ lastDeviation < c => x[lastDeviation] = 1
    BY <1>10 DEF Following
  <2>2. \A j \in Bits : j # c => y[j] = x[j]
    BY <1>3 DEF Follows
  <2>3. y[c] = bit /\ (c < lastDeviation => bit = Last[c]) /\ (c = lastDeviation => bit = 1)
    BY <1>3, <1>10 DEF Follows, GoodBit
  <2>4. \A j \in Bits : j \in Int
    BY DEF Bits
  <2>5. \A j \in Bits : j < lastDeviation \/ j >= c + 1 => y[j] = Last[j]
    BY <1>1, <2>1, <2>2, <2>3, <2>4
  <2>6. lastDeviation < c + 1 => y[lastDeviation] = 1
    BY <1>1, <1>10, <2>1, <2>2, <2>3, <2>4
  <2> QED
    BY <2>5, <2>6
<1>11. ASSUME NEW e \in Here
       PROVE  e \in listening' \/ IsFound(e) \/ \E i \in 1 .. (c + 1) - 1 : LeavesAt(y, e, i)
  <2>1. CASE e \in listening /\ e[c] = bit
    BY <1>2, <2>1 DEF Take
  <2>2. CASE e \in listening /\ e[c] # bit
    <3>1. CASE bit = 0 /\ e[c] = 1
      <4>1. Agree(x, e, c) /\ e \in Ids
        BY <2>2 DEF Following
      <4>2. LeavesAt(y, e, c)
        BY <1>1, <1>2, <1>3, <3>1, <4>1, AgreeNext DEF LeavesAt, Follows
      <4>3. c \in 1 .. (c + 1) - 1
        BY <1>1
      <4> QED
        BY <4>2, <4>3
    <3> QED
      BY <2>2, <3>1, DroppedWasFound
  <2>3. CASE \E i \in 1 .. c - 1 : LeavesAt(x, e, i)
    <3>1. \A i \in 1 .. c - 1 : i \in 1 .. (c + 1) - 1
      BY <1>1
    <3> QED
      BY <1>6, <2>3, <3>1
  <2> QED
    BY <2>1, <2>2, <2>3 DEF Following
<1> QED
  BY <1>3, <1>4, <1>5, <1>7, <1>8, <1>9, <1>10, <1>11 DEF FollowingAt

\* At the end of a pass the new row holds the next id.
LEMMA PassFinds ==
  ASSUME InTable, PassInv, ~disturbed, step = "bits", NEW bit, NEW m, GoodBit(bit, m),
         currentBit = IdBits
  PROVE  /\ id'[NewRow] \in Here
         /\ \A r \in FoundRows : Precedes(id[r], id'[NewRow])
         /\ \A e \in Here : e = id'[NewRow] \/ IsFound(e) \/ Precedes(id'[NewRow], e)
         /\ IsDeviation(id'[NewRow], m, IdBits + 1, Here)
<1> USE InPass
<1> DEFINE y == id'[NewRow]
<1>1. /\ IdBits \in 1 .. 254 /\ lastDeviation \in 0 .. IdBits
      /\ y \in Ids /\ FollowingAt(y, IdBits + 1, m, listening')
  BY Sizes, BitIsFollowed
<1>2. \A e \in Here : e \in listening' => e = y
  BY <1>1, AgreeIsSame DEF FollowingAt
<1>3. y \in Here
  BY <1>1, <1>2 DEF FollowingAt
<1>4. \A e \in Here : e = y \/ IsFound(e) \/ Precedes(y, e)
  <2> SUFFICES ASSUME NEW e \in Here, NEW i \in 1 .. (IdBits + 1) - 1, LeavesAt(y, e, i)
               PROVE  Precedes(y, e)
    BY <1>1, <1>2 DEF FollowingAt
  <2>1. i \in Bits
    BY <1>1 DEF Bits
  <2> QED
    BY <2>1, PrecedesIsLeaving
<1>5. ASSUME NEW r \in FoundRows
      PROVE  Precedes(id[r], y)
  <2>1. numFoundDevices > 0 /\ r \in Int /\ first \in Int
    BY <1>5 DEF FoundRows, InTable, SearchTypeOK
  <2>2. NewRow - 1 \in FoundRows /\ (r = NewRow - 1 \/ r < NewRow - 1)
    BY <2>1 DEF FoundRows, NewRow, InTable, SearchTypeOK
  <2>3. Precedes(Last, y)
    <3>1. /\ lastDeviation \in 1 .. IdBits
          /\ \A j \in Bits : j < lastDeviation \/ j >= IdBits + 1 => y[j] = Last[j]
          /\ lastDeviation < IdBits + 1 => y[lastDeviation] = 1
      BY <1>1, <2>1 DEF FollowingAt, Bits
    <3>2. \A j \in 1 .. lastDeviation - 1 : Last[j] = y[j]
      BY <1>1, <3>1 DEF Bits
    <3>3. Last[lastDeviation] = 0
      BY <2>1, <3>1 DEF DeviationKept, IsDeviation, LeavesAt
    <3>4. y[lastDeviation] = 1
      BY <1>1, <3>1
    <3> QED
      BY <2>1, <3>2, <3>3, <3>4 DEF Precedes
  <2>4. r = NewRow - 1 \/ Precedes(id[r], Last)
    BY <2>2 DEF FoundInOrder, Last
  <2>5. id[r] \in Ids /\ Last \in Ids
    BY <2>1 DEF FoundInOrder
  <2> QED
    BY <1>1, <2>3, <2>4, <2>5, PrecedesTransitive DEF Last
<1>6. IsDeviation(y, m, IdBits + 1, Here)
  BY <1>1 DEF FollowingAt
<1> QED
  BY <1>3, <1>4, <1>5, <1>6

LEMMA CallPass ==
  ASSUME InTable, NEW b, NEW f \in Nat, NEW n, SearchDevices(b, f, n)
  PROVE  PassInv'
<1>1. step' = "pass" /\ first' = f /\ numFoundDevices' = 0 /\ lastDeviation' = 0
  BY DEF SearchDevices, InTable, locals
<1>2. FoundRows' = {}
  BY <1>1 DEF FoundRows
<1> QED
  BY <1>1, <1>2 DEF PassInv, FoundInOrder, DeviationKept

LEMMA BeginPassKeeps ==
  ASSUME InTable, PassInv, BeginPass
  PROVE  PassInv'
<1> SUFFICES ASSUME ~disturbed PROVE PassInv'
  BY DEF BeginPass, PassInv
<1>1. /\ UNCHANGED <<attached, bus, first, numFoundDevices, lastDeviation, disturbed>>
      /\ step = "pass" /\ step' = "bits" /\ currentBit' = 1 /\ newDeviation' = 0
      /\ listening' = Here /\ Here # {} /\ numFoundDevices < numDevices
      /\ numFoundDevices \in Nat /\ lastDeviation \in 0 .. IdBits \cup {Failed}
  BY DEF BeginPass, Here, Presence, TableFull, InTable, SearchTypeOK
<1>2. FoundInOrder /\ DeviationKept
  BY <1>1 DEF PassInv
<1>3. /\ NewRow \in Rows /\ id'[NewRow] = id[CurrentRow]
      /\ \A r \in FoundRows : id'[r] = id[r]
      /\ numFoundDevices > 0 => NewRow - 1 \in FoundRows
  BY <1>1, RowInTable, CopyWrites DEF BeginPass
<1>4. /\ FoundRows' = FoundRows /\ Here' = Here /\ NewRow' = NewRow
      /\ numFoundDevices > 0 => Last' = Last /\ id'[NewRow] = Last
  BY <1>1, <1>3 DEF FoundRows, Here, NewRow, Last, CurrentRow
<1>5. FoundInOrder'
  BY <1>1, <1>2, <1>3, <1>4 DEF FoundInOrder, IsFound
<1>6. DeviationKept'
  BY <1>1, <1>2, <1>4 DEF DeviationKept
<1>7. Following'
  <2> DEFINE y == id'[NewRow]
  <2>1. \A e \in Here : Agree(y, e, 1)
    BY DEF Agree
  <2>2. IsDeviation(y, 0, 1, Here)
    BY DEF IsDeviation
  <2>3. numFoundDevices > 0 => lastDeviation > 0 /\ lastDeviation \in Int
    BY <1>1, <1>2, Sizes DEF DeviationKept, IsDeviation
  <2> QED
    BY <1>1, <1>4, <2>1, <2>2, <2>3 DEF Following
<1> QED
  BY <1>1, <1>5, <1>6, <1>7 DEF PassInv

LEMMA TakeKeeps ==
  ASSUME InTable, PassInv, ~disturbed, step = "bits", NEW bit, NEW m, GoodBit(bit, m)
  PROVE  PassInv'
<1> USE InPass
<1>1. /\ bit \in {0, 1} /\ Take(bit, m) /\ currentBit \in 1 .. IdBits /\ IdBits \in Int
      /\ UNCHANGED <<attached, disturbed, bus, first, numDevices>> /\ newDeviation' = m
      /\ first \in Int /\ NewRow = first + numFoundDevices
  BY Sizes DEF GoodBit, Take, Bits, NewRow, InTable, SearchTypeOK
<1>2. /\ FollowingAt(id'[NewRow], currentBit + 1, m, listening')
      /\ \A r \in FoundRows : id'[r] = id[r]
      /\ numFoundDevices > 0 => id'[NewRow - 1] = Last
  BY BitIsFollowed
<1>3. Here' = Here
  BY <1>1 DEF Here
<1>4. CASE currentBit # IdBits
  <2>1. UNCHANGED <<step, lastDeviation, numFoundDevices>> /\ currentBit' = currentBit + 1
    BY <1>1, <1>4 DEF Take
  <2>2. /\ FoundRows' = FoundRows /\ NewRow' = NewRow
        /\ numFoundDevices > 0 => Last' = Last
    BY <1>1, <1>2, <2>1 DEF FoundRows, NewRow, Last
  <2>3. \A e : IsFound(e)' <=> IsFound(e)
    BY <1>2, <2>2 DEF IsFound
  <2>4. FoundInOrder'
    BY <1>2, <1>3, <2>1, <2>2, <2>3 DEF FoundInOrder
  <2>5. DeviationKept'
    BY <1>3, <2>1, <2>2 DEF DeviationKept
  <2>6. Following'
    BY <1>1, <1>2, <1>3, <2>1, <2>2, <2>3 DEF FollowingAt, Following
  <2> QED
    BY <1>1, <2>1, <2>4, <2>5, <2>6 DEF PassInv
<1>5. CASE currentBit = IdBits
  <2> DEFINE y == id'[NewRow]
  <2>1. /\ numFoundDevices' = numFoundDevices + 1 /\ lastDeviation' = m
        /\ step' = IF m = 0 THEN "crc" ELSE "pass"
    BY <1>1, <1>5 DEF Take, EndPass, RowsAfter
  <2>2. /\ y \in Here
        /\ \A r \in FoundRows : Precedes(id[r], y)
        /\ \A e \in Here : e = y \/ IsFound(e) \/ Precedes(y, e)
        /\ IsDeviation(y, m, IdBits + 1, Here)
    BY <1>5, PassFinds
  <2>3. NewRow' = NewRow + 1 /\ Last' = y /\ NewRow \in FoundRows'
    BY <1>1, <2>1 DEF NewRow, Last, FoundRows
  <2>4. \A r \in FoundRows' : (r \in FoundRows /\ r < NewRow) \/ r = NewRow
    BY <1>1, <2>1 DEF FoundRows
  <2>5. \A r \in FoundRows : r \in FoundRows'
    BY <1>1, <2>1 DEF FoundRows
  <2>6. \A e \in Here : IsFound(e) \/ e = y => IsFound(e)'
    BY <1>2, <2>3, <2>5 DEF IsFound
  <2>7. FoundInOrder'
    <3>1. \A r \in FoundRows' : id'[r] \in Here
      BY <1>2, <2>2, <2>4 DEF FoundInOrder
    <3>2. ASSUME NEW q \in FoundRows', NEW r \in FoundRows', q < r
          PROVE  Precedes(id'[q], id'[r])
      <4>1. q \in FoundRows /\ q < NewRow
        BY <1>1, <2>4, <3>2 DEF FoundRows
      <4>2. id'[q] = id[q]
        BY <1>2, <4>1
      <4>3. CASE r = NewRow
        BY <2>2, <4>1, <4>2, <4>3
      <4>4. CASE r \in FoundRows
        BY <1>2, <3>2, <4>1, <4>2, <4>4 DEF FoundInOrder
      <4> QED
        BY <2>4, <4>3, <4>4
    <3>3. \A e \in Here' : IsFound(e)' \/ Precedes(Last', e)
      BY <1>3, <2>2, <2>3, <2>6
    <3> QED
      BY <1>3, <3>1, <3>2, <3>3 DEF FoundInOrder
  <2>8. DeviationKept'
    <3>1. numFoundDevices' > 0 /\ numFoundDevices' # 0 /\ m \in 0 .. IdBits
      BY <1>1, <2>1, <2>2 DEF IsDeviation
    <3> QED
      BY <1>3, <2>1, <2>2, <2>3, <3>1 DEF DeviationKept
  <2> QED
    BY <1>1, <2>1, <2>7, <2>8 DEF PassInv
<1> QED
  BY <1>4, <1>5

LEMMA StepPass ==
  ASSUME InTable, PassInv, SearchStep
  PROVE  PassInv'
<1>1. CASE step' = "idle"
  BY <1>1 DEF PassInv
<1>2. CASE disturbed
  <2>1. disturbed'
    BY <1>2 DEF SearchStep, NobodyThere, BeginPass, NoAnswer, SameBit, Conflict, Take, CheckRoms
  <2> QED
    BY <2>1 DEF PassInv
<1>3. ASSUME ~disturbed, SameBit \/ Conflict
      PROVE  PassInv'
  BY <1>3, SameBitIsGood, ConflictIsGood, TakeKeeps DEF SameBit, Conflict
<1> QED
  BY <1>1, <1>2, <1>3, BeginPassKeeps, NobodyFails
     DEF SearchStep, NobodyThere, CheckRoms, Return

-------------------------------------------------------------------------------
(* The table, with any DHTs and any start of the counter. *)

LEMMA PortSizes == /\ MaxSensors \in 1 .. 255
               /\ Len(Ports) \in Nat /\ Len(Ports) > 0
               /\ \A i \in 1 .. Len(Ports) : Ports[i] \in Buses
BY TableAssumption, PortsAssumption

Placed ==
  /\ ~beyond => count \in 0 .. MaxSensors
  /\ step # "idle" => stage = "search"
  /\ stage \in {"call", "search"} => port \in 1 .. Len(Ports)

SInv == TypeOK /\ InTable /\ PassInv /\ Placed

LEMMA ReadingType ==
  ASSUME NEW b \in Buses \cup {Unset}, NEW d \in Ids,
         NEW q \in {"temperature", "humidity", Unset}
  PROVE  Reading(b, q, d) \in [bus : Buses \cup {Unset}, id : Ids,
                               quantity : {"temperature", "humidity", Unset}]
BY DEF Reading

LEMMA InitSInv == Init => SInv
<1> SUFFICES ASSUME Init PROVE SInv
  OBVIOUS
<1>1. InTable
  BY InitInTable DEF Init
<1>2. PassInv
  BY DEF Init, OwiInit, PassInv
<1>3. Placed
  BY PortSizes DEF Init, OwiInit, Placed
<1>4. TypeOK
  <2>1. Loaded \in [bus : Buses \cup {Unset}, id : Ids, quantity : {"temperature", "humidity", Unset}]
    BY ReadingType, Sizes DEF Loaded
  <2>2. port \in 1 .. Len(Ports) + 1 /\ count \in 0 .. 255
    BY PortSizes DEF Init
  <2> QED
    BY <1>1, <2>1, <2>2 DEF Init, InTable, TypeOK
<1> QED
  BY <1>1, <1>2, <1>3, <1>4 DEF SInv

LEMMA SearchSInv == SInv /\ ~beyond /\ Search => SInv'
<1> SUFFICES ASSUME SInv, ~beyond, Search PROVE SInv'
  OBVIOUS
<1>1. /\ stage = "call" /\ port \in 1 .. Len(Ports) /\ Ports[port] \in Buses
      /\ count \in 0 .. MaxSensors /\ MaxSensors \in 1 .. 255 /\ Room = MaxSensors - count
  BY PortSizes DEF Search, SInv, Placed, Room
<1>2. SearchDevices(Ports[port], count, Room)
  BY DEF Search
<1>3. InTable'
  BY <1>1, <1>2, CallInTable DEF SInv
<1>4. PassInv'
  BY <1>1, <1>2, CallPass DEF SInv
<1>5. Placed'
  BY <1>1 DEF Search, Placed
<1>6. searched' \in [Buses -> SUBSET Devices] /\ junk' \in [Buses -> 0 .. 255]
  <2>1. num' \in 0 .. 255
    BY <1>3 DEF InTable, SearchTypeOK
  <2> QED
    BY <1>1, <2>1 DEF Search, SInv, InTable, SearchTypeOK, TypeOK
<1>7. TypeOK'
  BY <1>3, <1>6 DEF Search, SInv, InTable, TypeOK
<1> QED
  BY <1>3, <1>4, <1>5, <1>7 DEF SInv

LEMMA SearchingSInv == SInv /\ ~beyond /\ Searching => SInv'
<1> SUFFICES ASSUME SInv, ~beyond, Searching PROVE SInv'
  OBVIOUS
<1>1. InTable' /\ PassInv'
  BY StepInTable, StepPass DEF Searching, SInv
<1>2. Placed'
  BY DEF Searching, config, Placed, SInv
<1>3. TypeOK'
  BY <1>1 DEF Searching, config, history, TypeOK, SInv, InTable
<1> QED
  BY <1>1, <1>2, <1>3 DEF SInv

\* Steps between two searches leave the searches alone.
LEMMA BetweenSearches ==
  ASSUME InTable, step = "idle", UNCHANGED allButBeyond, beyond' \in BOOLEAN
  PROVE  InTable' /\ PassInv' /\ step' = "idle"
<1>1. InTable'
  BY DEF InTable, SearchTypeOK, allButBeyond, locals
<1>2. step' = "idle"
  BY DEF allButBeyond
<1> QED
  BY <1>1, <1>2 DEF PassInv

\* The rows that are configured are in the table, or beyond says that they are not.
LEMMA ConfigureSInv ==
  SInv /\ ~beyond /\ (ConfigureDevices \/ \E ok \in BOOLEAN : ConfigureDht(ok)) => SInv'
<1> SUFFICES ASSUME SInv, ~beyond,
                    ConfigureDevices \/ \E ok \in BOOLEAN : ConfigureDht(ok)
             PROVE  SInv'
  OBVIOUS
<1>1. /\ stage = "search" /\ step = "idle" /\ NextPort
      /\ port \in 1 .. Len(Ports) /\ Len(Ports) \in Nat /\ Ports[port] \in Buses
      /\ count \in 0 .. MaxSensors /\ MaxSensors \in 1 .. 255 /\ num \in 0 .. 255
  BY PortSizes DEF ConfigureDevices, ConfigureDht, Returned, SInv, Placed, InTable, SearchTypeOK
<1>2. /\ port' = port + 1 /\ stage' = IF port = Len(Ports) THEN "loop" ELSE "call"
      /\ UNCHANGED <<allButBeyond, dht, error, value, searched, junk>>
      /\ upset' \subseteq upset \cup {Ports[port]}
  BY <1>1 DEF NextPort
<1>3. /\ beyond' \in BOOLEAN /\ count' \in 0 .. 255 /\ (~beyond' => count' \in 0 .. MaxSensors)
      /\ pin' \in [Rows -> Buses \cup {Unset}]
      /\ sensor_type' \in [Rows -> {Unset, "ds18b20", "dht"}]
  <2>1. ASSUME NEW rows, NEW type \in {"ds18b20", "dht"}, Configure(rows, type)
        PROVE  /\ beyond' \in BOOLEAN /\ (~beyond' => rows \subseteq Rows)
               /\ pin' \in [Rows -> Buses \cup {Unset}]
               /\ sensor_type' \in [Rows -> {Unset, "ds18b20", "dht"}]
    <3>1. beyond' \in BOOLEAN /\ (~beyond' => rows \subseteq Rows)
      BY <2>1 DEF Configure, Writes
    <3>2. pin' \in [Rows -> Buses \cup {Unset}]
      BY <1>1, <2>1 DEF Configure, SInv, TypeOK
    <3>3. sensor_type' \in [Rows -> {Unset, "ds18b20", "dht"}]
      BY <2>1 DEF Configure, SInv, TypeOK
    <3> QED
      BY <3>1, <3>2, <3>3
  <2>2. CASE ConfigureDevices
    <3>1. /\ num # 0 /\ count' = (count + num) % 256
          /\ ~beyond' => count .. count + num - 1 \subseteq Rows
      BY <2>1, <2>2 DEF ConfigureDevices
    <3>2. ~beyond' => count + num - 1 \in Rows
      BY <1>1, <3>1
    <3>3. ~beyond' => count + num <= MaxSensors
      BY <1>1, <3>2 DEF Rows
    <3>4. count' \in 0 .. 255 /\ (~beyond' => count' \in 0 .. MaxSensors)
      BY <1>1, <3>1, <3>3
    <3> QED
      BY <2>1, <2>2, <3>4 DEF ConfigureDevices
  <2>3. ASSUME NEW ok \in BOOLEAN, ConfigureDht(ok), ok
        PROVE  <1>3!:
    <3>1. count' = (count + 2) % 256 /\ (~beyond' => {count, count + 1} \subseteq Rows)
      BY <2>1, <2>3 DEF ConfigureDht
    <3>2. count' \in 0 .. 255
      BY <1>1, <3>1
    <3>3. ~beyond' => count + 1 < MaxSensors
      BY <1>1, <3>1 DEF Rows
    <3>4. ~beyond' => count' \in 0 .. MaxSensors
      BY <1>1, <3>1, <3>3
    <3> QED
      BY <2>1, <2>3, <3>2, <3>4 DEF ConfigureDht
  <2>4. ASSUME NEW ok \in BOOLEAN, ConfigureDht(ok), ~ok
        PROVE  <1>3!:
    BY <1>1, <2>4 DEF ConfigureDht, SInv, TypeOK, InTable, SearchTypeOK
  <2> QED
    BY <2>2, <2>3, <2>4
<1>4. InTable' /\ PassInv' /\ step' = "idle"
  BY <1>1, <1>2, <1>3, BetweenSearches DEF SInv
<1>5. Placed'
  BY <1>1, <1>2, <1>3, <1>4 DEF Placed
<1>6. TypeOK'
  <2>1. port' \in 1 .. Len(Ports) + 1 /\ stage' \in {"call", "search", "loop", "polled"}
        /\ count' \in 0 .. 255 /\ upset' \subseteq Buses
    BY <1>1, <1>2, <1>3 DEF SInv, TypeOK
  <2> QED
    BY <1>2, <1>3, <1>4, <2>1 DEF SInv, TypeOK, InTable
<1> QED
  BY <1>4, <1>5, <1>6 DEF SInv

LEMMA PollSInv ==
  ASSUME SInv, NEW heard, Poll(heard)
  PROVE  SInv'
<1>1. /\ stage \in {"loop", "polled"} /\ stage' = "polled" /\ step = "idle"
      /\ UNCHANGED <<allButBeyond, dht, port, count, pin, sensor_type, history>> /\ ~beyond
  BY DEF Poll, SInv, Placed
<1>2. beyond' \in BOOLEAN
  BY DEF Poll, Writes
<1>3. InTable' /\ PassInv' /\ step' = "idle"
  BY <1>1, <1>2, BetweenSearches DEF SInv
<1>4. Placed'
  BY <1>1, <1>3 DEF SInv, Placed
<1>5. error' \in [Rows -> {0, 1}]
  BY DEF Poll, SInv, TypeOK
<1>6. value' \in [Rows -> [bus : Buses \cup {Unset}, id : Ids,
                          quantity : {"temperature", "humidity", Unset}]]
  <2>1. /\ \A r \in Rows : pin[r] \in Buses \cup {Unset} /\ id[r] \in Ids
        /\ \A r \in Rows : r > 0 => pin[r - 1] \in Buses \cup {Unset}
        /\ ZeroId \in Ids
    BY PortSizes, Sizes DEF SInv, TypeOK, SearchTypeOK, Rows
  <2> QED
    BY <2>1, ReadingType DEF Poll, SInv, TypeOK
<1>7. TypeOK'
  BY <1>1, <1>3, <1>5, <1>6 DEF SInv, TypeOK, InTable, history
<1> QED
  BY <1>3, <1>4, <1>7 DEF SInv

LEMMA PlugSInv ==
  ASSUME SInv, NEW b \in Buses, NEW d \in Loose, PlugOrPull(b, d)
  PROVE  SInv'
<1>1. /\ Plug(b, d) /\ ~beyond
      /\ UNCHANGED <<dht, config, error, value, searched, junk, upset, step, beyond>>
  BY DEF PlugOrPull, Plug, history
<1>2. InTable'
  BY <1>1, PlugInTable DEF SInv
<1>3. PassInv'
  <2>1. CASE disturbed' \/ step = "idle"
    BY <1>1, <2>1 DEF PassInv
  <2>2. CASE ~disturbed' /\ step # "idle"
    <3>1. b # bus /\ ~disturbed /\ UNCHANGED <<listening, bus>>
      BY <1>1, <2>2 DEF Plug
    <3>2. Here' = Here
      BY <1>1, <3>1 DEF Plug, Here, SInv, InTable, SearchTypeOK
    <3>3. FoundInOrder' /\ DeviationKept' /\ (step = "bits" => Following')
      BY <1>1, <2>2, <3>1, <3>2
         DEF Plug, SInv, PassInv, FoundInOrder, DeviationKept, Following, FoundRows, IsFound,
             Last, NewRow
    <3> QED
      BY <1>1, <3>3 DEF PassInv
  <2> QED
    BY <2>1, <2>2
<1>4. Placed' /\ TypeOK'
  BY <1>1, <1>2 DEF config, SInv, Placed, TypeOK, InTable
<1> QED
  BY <1>2, <1>3, <1>4 DEF SInv

LEMMA RestartSInv == SInv /\ Restart => SInv'
<1> SUFFICES ASSUME SInv, Restart PROVE SInv'
  OBVIOUS
<1>1. /\ stage' = "call" /\ port' = 1 /\ count' = 0
      /\ step = "idle" /\ num' = 0 /\ beyond' = FALSE /\ id' = [r \in Rows |-> ZeroId]
      /\ UNCHANGED <<attached, disturbed, step, bus, first, numDevices, locals>>
  BY DEF Restart, SInv, Placed
<1>2. InTable'
  <2>1. id' \in [Rows -> Ids]
    BY <1>1, Sizes
  <2>2. beyond' \in BOOLEAN
    BY <1>1
  <2> QED
    BY <1>1, <2>1, <2>2 DEF SInv, InTable, SearchTypeOK, locals
<1>3. Placed' /\ PassInv'
  BY <1>1, PortSizes DEF Placed, PassInv
<1>4. Loaded \in [bus : Buses \cup {Unset}, id : Ids, quantity : {"temperature", "humidity", Unset}]
  BY ReadingType, Sizes DEF Loaded
<1>5. TypeOK'
  BY <1>1, <1>2, <1>4, PortSizes DEF Restart, SInv, TypeOK, InTable
<1> QED
  BY <1>2, <1>3, <1>5 DEF SInv

LEMMA NextSInv == SInv /\ [Next]_vars => SInv'
<1> SUFFICES ASSUME SInv, [Next]_vars PROVE SInv'
  OBVIOUS
<1>1. CASE UNCHANGED vars
  <2>1. UNCHANGED <<id, attached, disturbed, step, bus, first, numDevices, num, newDeviation,
                    lastDeviation, numFoundDevices, currentBit, listening, searched>>
    BY <1>1 DEF vars, config, history, owiVars, allButBeyond, locals
  <2>2. beyond' \in BOOLEAN /\ InTable'
    BY <1>1, <2>1 DEF SInv, InTable, SearchTypeOK, vars, owiVars
  <2>3. PassInv'
    <3>1. UNCHANGED <<FoundRows, NewRow, Here, Last>>
      BY <2>1 DEF FoundRows, NewRow, Here, Last
    <3>2. FoundInOrder => FoundInOrder'
      BY <2>1, <3>1 DEF FoundInOrder, IsFound
    <3>3. DeviationKept => DeviationKept'
      BY <2>1, <3>1 DEF DeviationKept, IsFound
    <3>4. Following => Following'
      BY <2>1, <3>1 DEF Following, IsFound
    <3> QED
      BY <2>1, <3>2, <3>3, <3>4 DEF SInv, PassInv
  <2>4. TypeOK' /\ Placed'
    BY <1>1 DEF vars, config, history, owiVars, allButBeyond, locals, SInv, TypeOK, InTable,
                SearchTypeOK, Placed
  <2> QED
    BY <2>2, <2>3, <2>4 DEF SInv
<1> QED
  BY <1>1, SearchSInv, SearchingSInv, ConfigureSInv, PollSInv, PlugSInv, RestartSInv
     DEF Next, Boot

\* The type invariant, whatever fcnt begins at and wherever there is a DHT; in the state
\* behind a write behind the table too.
THEOREM TypesAreKept == Spec => []TypeOK
<1>1. SInv /\ [Next]_vars => SInv'
  BY NextSInv
<1>2. SInv => TypeOK
  BY DEF SInv
<1> QED
  BY <1>1, <1>2, InitSInv, PTL DEF Spec

-------------------------------------------------------------------------------
(* The search implements its promise. *)

\* n rows from row f on, as a sequence of ids.
AsSequence(rows, f, n) == [i \in 1 .. n |-> rows[f + i - 1]]

LEMMA RowsAreSequence ==
  ASSUME NEW rows \in [Rows -> Ids], NEW f \in Nat, NEW n \in 0 .. MaxSensors - f
  PROVE  /\ AsSequence(rows, f, n) \in Seq(Ids)
         /\ Len(AsSequence(rows, f, n)) = n
         /\ DOMAIN AsSequence(rows, f, n) = 1 .. n
         /\ \A i \in 1 .. n : AsSequence(rows, f, n)[i] = rows[f + i - 1]
         /\ n = 0 => AsSequence(rows, f, n) = <<>>
<1> DEFINE s == AsSequence(rows, f, n)
<1>1. \A i \in 1 .. n : f + i - 1 \in Rows
  BY Sizes DEF Rows
<1>2. s \in [1 .. n -> Ids]
  BY <1>1 DEF AsSequence
<1>3. s \in Seq(Ids)
  BY <1>2, SeqDef
<1>4. DOMAIN s = 1 .. n /\ DOMAIN s = 1 .. Len(s) /\ Len(s) \in Nat
  BY <1>2, <1>3, LenProperties
<1>5. Len(s) = n
  BY <1>4
<1>6. n = 0 => s = <<>>
  BY <1>3, <1>5, EmptySeq
<1> QED
  BY <1>3, <1>4, <1>5, <1>6 DEF AsSequence

LEMMA Fits ==
  ASSUME NEW m \in Nat, NEW f \in 0 .. m, NEW d \in 0 .. m - f, NEW n \in 0 .. d
  PROVE  f \in Nat /\ n \in 0 .. m - f
OBVIOUS

LEMMA FoundIsSequence ==
  ASSUME InTable
  PROVE  /\ FoundSoFar = AsSequence(id, first, numFoundDevices)
         /\ id \in [Rows -> Ids] /\ first \in Nat
         /\ numFoundDevices \in Nat /\ numFoundDevices \in 0 .. MaxSensors - first
<1>1. /\ id \in [Rows -> Ids] /\ first \in Nat
      /\ numFoundDevices \in Nat /\ numFoundDevices \in 0 .. MaxSensors - first
  BY Sizes DEF InTable, SearchTypeOK
<1>2. CASE step = "idle"
  BY <1>1, <1>2, RowsAreSequence DEF FoundSoFar, InTable
<1>3. CASE step # "idle"
  BY <1>1, <1>3 DEF FoundSoFar, AsSequence
<1> QED
  BY <1>1, <1>2, <1>3

\* The same of the next state.
LEMMA FoundIsSequenceNext ==
  ASSUME InTable'
  PROVE  /\ FoundSoFar' = AsSequence(id', first', numFoundDevices')
         /\ id' \in [Rows -> Ids] /\ first' \in Nat
         /\ numFoundDevices' \in Nat /\ numFoundDevices' \in 0 .. MaxSensors - first'
<1>1. /\ id' \in [Rows -> Ids] /\ first' \in Nat
      /\ numFoundDevices' \in Nat /\ numFoundDevices' \in 0 .. MaxSensors - first'
  <2>1. id' \in [Rows -> Ids]
    BY DEF InTable, SearchTypeOK
  <2>2. MaxSensors \in Nat
    BY Sizes
  <2>3. /\ first' \in 0 .. MaxSensors
        /\ numDevices' \in 0 .. MaxSensors - first' /\ numFoundDevices' \in 0 .. numDevices'
    BY DEF InTable, SearchTypeOK
  <2>4. first' \in Nat /\ numFoundDevices' \in 0 .. MaxSensors - first'
    BY <2>2, <2>3, Fits
  <2>5. numFoundDevices' \in Nat
    BY <2>2, <2>3
  <2> QED
    BY <2>1, <2>4, <2>5
<1>2. CASE step' = "idle"
  BY <1>1, <1>2, RowsAreSequence DEF FoundSoFar, InTable
<1>3. CASE step' # "idle"
  BY <1>1, <1>3 DEF FoundSoFar, AsSequence
<1> QED
  BY <1>1, <1>2, <1>3

\* The ids found are those of the rows found.
LEMMA FoundRange ==
  ASSUME InTable
  PROVE  \A e : e \in Promise!Range(FoundSoFar) <=> IsFound(e)
<1>1. /\ numFoundDevices \in Nat /\ first \in Nat
      /\ DOMAIN FoundSoFar = 1 .. numFoundDevices
      /\ \A i \in 1 .. numFoundDevices : FoundSoFar[i] = id[first + i - 1]
  BY FoundIsSequence, RowsAreSequence
<1>2. \A i \in 1 .. numFoundDevices : first + i - 1 \in FoundRows
  BY <1>1 DEF FoundRows
<1>3. \A r \in FoundRows : r - first + 1 \in 1 .. numFoundDevices /\ first + (r - first + 1) - 1 = r
  BY <1>1 DEF FoundRows
<1>4. Promise!Range(FoundSoFar) = {FoundSoFar[i] : i \in DOMAIN FoundSoFar}
  BY DEF Promise!Range
<1>5. ASSUME NEW e, e \in Promise!Range(FoundSoFar)
      PROVE  IsFound(e)
  <2>1. PICK i \in 1 .. numFoundDevices : e = FoundSoFar[i]
    BY <1>1, <1>4, <1>5
  <2> QED
    BY <1>1, <1>2, <2>1 DEF IsFound
<1>6. ASSUME NEW r \in FoundRows
      PROVE  id[r] \in Promise!Range(FoundSoFar)
  <2>1. FoundSoFar[r - first + 1] = id[r]
    BY <1>1, <1>3
  <2> QED
    BY <1>1, <1>3, <1>4, <2>1
<1> QED
  BY <1>5, <1>6 DEF IsFound

LEMMA SameRowsSameFound ==
  ASSUME InTable, InTable', first' = first, numFoundDevices' = numFoundDevices,
         \A r \in FoundRows : id'[r] = id[r]
  PROVE  FoundSoFar' = FoundSoFar
<1>1. \A i \in 1 .. numFoundDevices : first + i - 1 \in FoundRows
  BY FoundIsSequence DEF FoundRows
<1> QED
  BY <1>1, FoundIsSequence, FoundIsSequenceNext DEF AsSequence

LEMMA NextRowNextFound ==
  ASSUME InTable, InTable', first' = first, numFoundDevices' = numFoundDevices + 1,
         \A r \in FoundRows : id'[r] = id[r], id'[NewRow] \in Ids
  PROVE  FoundSoFar' = Append(FoundSoFar, id'[NewRow])
<1>1. /\ \A i \in 1 .. numFoundDevices : first + i - 1 \in FoundRows
      /\ numFoundDevices \in Nat /\ first \in Nat
  BY FoundIsSequence DEF FoundRows
<1>2. /\ FoundSoFar \in Seq(Ids) /\ FoundSoFar' \in Seq(Ids)
      /\ Len(FoundSoFar) = numFoundDevices /\ Len(FoundSoFar') = numFoundDevices + 1
      /\ \A i \in 1 .. numFoundDevices : FoundSoFar[i] = id[first + i - 1]
      /\ \A i \in 1 .. numFoundDevices + 1 : FoundSoFar'[i] = id'[first + i - 1]
  <2>1. /\ AsSequence(id', first', numFoundDevices + 1) \in Seq(Ids)
        /\ Len(AsSequence(id', first', numFoundDevices + 1)) = numFoundDevices + 1
        /\ \A i \in 1 .. numFoundDevices + 1 :
             AsSequence(id', first', numFoundDevices + 1)[i] = id'[first' + i - 1]
    BY FoundIsSequenceNext, RowsAreSequence
  <2>2. /\ AsSequence(id, first, numFoundDevices) \in Seq(Ids)
        /\ Len(AsSequence(id, first, numFoundDevices)) = numFoundDevices
        /\ \A i \in 1 .. numFoundDevices :
             AsSequence(id, first, numFoundDevices)[i] = id[first + i - 1]
    BY FoundIsSequence, RowsAreSequence
  <2> QED
    BY <2>1, <2>2, FoundIsSequence, FoundIsSequenceNext
<1> DEFINE a == Append(FoundSoFar, id'[NewRow])
<1>3. /\ a \in Seq(Ids) /\ Len(a) = numFoundDevices + 1
      /\ \A i \in 1 .. numFoundDevices : a[i] = FoundSoFar[i]
      /\ a[numFoundDevices + 1] = id'[NewRow]
  BY <1>2, AppendProperties
<1>4. ASSUME NEW i \in 1 .. numFoundDevices + 1
      PROVE  FoundSoFar'[i] = a[i]
  <2>1. CASE i \in 1 .. numFoundDevices
    BY <1>1, <1>2, <1>3, <2>1
  <2>2. CASE i = numFoundDevices + 1
    <3>1. first + i - 1 = NewRow
      BY <1>1, <2>2 DEF NewRow
    <3> QED
      BY <1>2, <1>3, <2>2, <3>1
  <2>3. i \in 1 .. numFoundDevices \/ i = numFoundDevices + 1
    BY <1>1
  <2> QED
    BY <2>1, <2>2, <2>3
<1> QED
  BY <1>2, <1>3, <1>4, SeqEqual

LEMMA InitPromises == Init => Promise!Init
<1> SUFFICES ASSUME Init PROVE Promise!Init
  OBVIOUS
<1>1. attached[bus] \in SUBSET Ids
  BY Sizes DEF Init, OwiInit
<1> QED
  BY <1>1 DEF Init, OwiInit, FoundSoFar, Promise!Init

\* Between two searches nothing is promised.
LEMMA IdlePromises ==
  ASSUME InTable, InTable', step = "idle",
         step' # "idle" => ~disturbed' /\ numFoundDevices' = 0
  PROVE  Promise!Between
<1>1. FoundSoFar = <<>>
  BY DEF FoundSoFar
<1>2. FoundSoFar' = <<>>
  <2>1. CASE step' = "idle"
    BY <2>1 DEF FoundSoFar
  <2>2. CASE step' # "idle"
    BY <2>2, FoundIsSequenceNext, RowsAreSequence
  <2> QED
    BY <2>1, <2>2
<1>3. attached'[bus'] \in SUBSET Ids
  BY Sizes DEF InTable, SearchTypeOK
<1>4. numDevices' \in Nat /\ disturbed' \in BOOLEAN
  BY Sizes DEF InTable, SearchTypeOK
<1> QED
  BY <1>1, <1>2, <1>3, <1>4 DEF Promise!Between

\* A step inside a pass shows nothing, unless somebody is plugged or pulled.
LEMMA PassPromises ==
  ASSUME InTable, InTable', step # "idle", step' # "idle",
         UNCHANGED <<attached, bus, numDevices, first, numFoundDevices, disturbed>>,
         \A r \in FoundRows : id'[r] = id[r]
  PROVE  UNCHANGED Promise!vars
BY SameRowsSameFound DEF Promise!vars

LEMMA PlugPromises ==
  ASSUME InTable, InTable', NEW b \in Buses, NEW d, Plug(b, d)
  PROVE  Promise!Next \/ UNCHANGED Promise!vars
<1>1. CASE step = "idle"
  BY <1>1, IdlePromises DEF Plug, Promise!Next
<1>2. CASE step # "idle"
  <2>1. /\ UNCHANGED <<step, bus, numDevices, first, numFoundDevices, id>>
        /\ FoundSoFar' = FoundSoFar
    BY SameRowsSameFound DEF Plug
  <2>2. CASE b = bus
    <3>1. attached'[bus'] \in SUBSET Ids /\ disturbed' = TRUE
      BY <1>2, <2>2, Sizes DEF Plug, InTable, SearchTypeOK
    <3> QED
      BY <1>2, <2>1, <3>1 DEF Promise!Disturb, Promise!Next
  <2>3. CASE b # bus
    <3>1. attached'[bus'] = attached[bus] /\ disturbed' = disturbed
      BY <2>1, <2>3 DEF Plug, InTable, SearchTypeOK
    <3> QED
      BY <2>1, <3>1 DEF Promise!vars
  <2> QED
    BY <2>2, <2>3
<1> QED
  BY <1>1, <1>2

\* A pass that ends adds the id of its row: undisturbed, the first of those that remain.
LEMMA EndOfPassPromises ==
  ASSUME InTable, InTable', PassInv, step = "bits", step' # "idle",
         UNCHANGED <<attached, bus, numDevices, first, disturbed>>,
         numFoundDevices' = numFoundDevices + 1,
         \A r \in FoundRows : id'[r] = id[r], id'[NewRow] \in Ids,
         ~disturbed => /\ id'[NewRow] \in Here
                       /\ \A r \in FoundRows : Precedes(id[r], id'[NewRow])
                       /\ \A e \in Here : e = id'[NewRow] \/ IsFound(e) \/ Precedes(id'[NewRow], e)
  PROVE  Promise!Next
<1> DEFINE d == id'[NewRow]
<1>1. FoundSoFar' = Append(FoundSoFar, d)
  BY NextRowNextFound
<1>2. Len(FoundSoFar) < numDevices /\ step # "idle"
  BY FoundIsSequence, RowsAreSequence DEF InTable
<1>3. UNCHANGED <<step # "idle", attached[bus], numDevices, disturbed>>
  OBVIOUS
<1>4. CASE disturbed
  BY <1>1, <1>2, <1>3, <1>4 DEF Promise!FindAnything, Promise!Next
<1>5. CASE ~disturbed
  <2>1. Promise!Remaining = {e \in Here : ~IsFound(e)}
    BY FoundRange DEF Promise!Remaining, Here
  <2>2. d \in Promise!Remaining
    BY <1>5, <2>1, PrecedesIrreflexive DEF IsFound
  <2>3. Here \subseteq Ids
    BY Sizes DEF Here, InTable, SearchTypeOK
  <2>4. ASSUME NEW e \in Promise!Remaining \ {d}
        PROVE  <<d, e>> \in SearchOrder
    <3>1. e \in Here /\ e \in Ids /\ Precedes(d, e)
      BY <1>5, <2>1, <2>3, <2>4
    <3> QED
      BY <3>1 DEF SearchOrder
  <2> QED
    BY <1>1, <1>2, <1>3, <1>5, <2>2, <2>4 DEF Promise!FindNext, Promise!Next
<1> QED
  BY <1>4, <1>5

\* The search returns with nothing left to find, or with no room.
LEMMA ReturnPromises ==
  ASSUME InTable, InTable', step # "idle", step' = "idle",
         UNCHANGED <<attached, bus, numDevices, disturbed>>,
         \/ numFoundDevices = numDevices
         \/ ~disturbed => \A e \in Here : IsFound(e)
  PROVE  Promise!Next
<1>1. FoundSoFar' = <<>>
  BY DEF FoundSoFar
<1>2. Len(FoundSoFar) = numFoundDevices
  BY FoundIsSequence, RowsAreSequence
<1>3. ~disturbed /\ numFoundDevices # numDevices => Promise!Remaining = {}
  BY FoundRange DEF Promise!Remaining, Here
<1> QED
  BY <1>1, <1>2, <1>3 DEF Promise!End, Promise!Next

LEMMA SearchingPromises ==
  ASSUME SInv, InTable', SearchStep
  PROVE  Promise!Next \/ UNCHANGED Promise!vars
<1>1. /\ InTable /\ PassInv /\ numFoundDevices \in 0 .. numDevices /\ numDevices \in Nat
  BY Sizes DEF SInv, InTable, SearchTypeOK
<1>2. CASE NobodyThere
  <2>1. Here = {}
    BY <1>2 DEF NobodyThere, Presence, Here
  <2> QED
    BY <1>1, <1>2, <2>1, ReturnPromises DEF NobodyThere, Return
<1>3. CASE BeginPass
  <2>1. NewRow \notin FoundRows /\ FoundRows \subseteq Rows
    BY <1>1, <1>3, RowInTable DEF BeginPass, TableFull
  <2>2. \A r \in FoundRows : id'[r] = id[r]
    BY <1>1, <1>3, <2>1, CopyWrites DEF BeginPass, TableFull
  <2> QED
    BY <1>1, <1>3, <2>2, PassPromises DEF BeginPass
<1>4. CASE NoAnswer
  <2>1. disturbed
    BY <1>1, <1>4, NobodyFails
  <2>2. /\ UNCHANGED <<attached, bus, numDevices, first, disturbed, id>> /\ step = "bits"
        /\ numFoundDevices' = numFoundDevices + 1 /\ step' # "idle"
    BY <1>4 DEF NoAnswer, EndPass, RowsAfter
  <2>3. id'[NewRow] \in Ids
    BY <1>1, <2>2, RowInTable DEF InTable, SearchTypeOK
  <2> QED
    BY <1>1, <2>1, <2>2, <2>3, EndOfPassPromises
<1>5. CASE SameBit \/ Conflict
  <2>1. PICK bit \in {0, 1}, m \in 0 .. IdBits : Take(bit, m) /\ (~disturbed => GoodBit(bit, m))
    <3>1. CASE disturbed
      BY <1>1, <1>5, <3>1, BitsFollowed DEF SameBit, Conflict
    <3>2. CASE ~disturbed
      <4>1. PICK bit, m : GoodBit(bit, m)
        BY <1>1, <1>5, <3>2, SameBitIsGood, ConflictIsGood
      <4>2. newDeviation \in 0 .. IdBits /\ currentBit \in 0 .. IdBits
        BY <1>1 DEF InTable, SearchTypeOK, Bits
      <4>3. bit \in {0, 1} /\ m \in 0 .. IdBits /\ Take(bit, m)
        BY <4>1, <4>2 DEF GoodBit
      <4> QED
        BY <4>1, <4>3
    <3> QED
      BY <3>1, <3>2
  <2>2. step = "bits" /\ UNCHANGED <<attached, disturbed, bus, first, numDevices>>
    BY <1>5, <2>1 DEF SameBit, Conflict, Take
  <2>3. /\ id' \in [Rows -> Ids] /\ NewRow \in Rows
        /\ \A r \in FoundRows : id'[r] = id[r]
    BY <1>1, <2>1, <2>2, TakeWrites, RowInTable DEF InTable
  <2>4. CASE currentBit # IdBits
    <3>1. UNCHANGED <<step, numFoundDevices>>
      BY <2>1, <2>4 DEF Take
    <3> QED
      BY <1>1, <2>2, <2>3, <3>1, PassPromises
  <2>5. CASE currentBit = IdBits
    <3>1. step' # "idle" /\ numFoundDevices' = numFoundDevices + 1
      BY <2>1, <2>5 DEF Take, EndPass, RowsAfter
    <3>2. id'[NewRow] \in Ids
      BY <2>3
    <3>3. ~disturbed =>
            /\ id'[NewRow] \in Here
            /\ \A r \in FoundRows : Precedes(id[r], id'[NewRow])
            /\ \A e \in Here : e = id'[NewRow] \/ IsFound(e) \/ Precedes(id'[NewRow], e)
      BY <1>1, <2>1, <2>2, <2>5, PassFinds
    <3> QED
      BY <1>1, <2>2, <2>3, <3>1, <3>2, <3>3, EndOfPassPromises
  <2> QED
    BY <2>4, <2>5
<1>6. CASE CheckRoms
  <2>1. /\ step # "idle" /\ step' = "idle" /\ UNCHANGED <<attached, bus, numDevices, disturbed>>
        /\ step = "crc" \/ numFoundDevices = numDevices
    BY <1>1, <1>6 DEF CheckRoms, Return, TableFull
  <2>2. step = "crc" /\ ~disturbed => \A e \in Here : IsFound(e)
    <3> SUFFICES ASSUME step = "crc", ~disturbed, NEW e \in Here PROVE IsFound(e)
      OBVIOUS
    <3>1. /\ numFoundDevices > 0 /\ (IsFound(e) \/ Precedes(Last, e))
          /\ IsDeviation(Last, 0, IdBits + 1, Here)
      BY <1>1 DEF PassInv, FoundInOrder, DeviationKept
    <3>2. ~Precedes(Last, e)
      <4>1. \A i \in Bits : i \in 0 + 1 .. (IdBits + 1) - 1
        BY Sizes DEF Bits
      <4> QED
        BY <3>1, <4>1, PrecedesIsLeaving DEF IsDeviation
    <3> QED
      BY <3>1, <3>2
  <2> QED
    BY <1>1, <2>1, <2>2, ReturnPromises
<1> QED
  BY <1>2, <1>3, <1>4, <1>5, <1>6 DEF SearchStep

LEMMA NextPromises ==
  SInv /\ [Next]_vars => [Promise!Next]_Promise!vars
<1> SUFFICES ASSUME SInv, [Next]_vars
             PROVE  Promise!Next \/ UNCHANGED Promise!vars
  OBVIOUS
<1>1. InTable /\ InTable' /\ SInv'
  BY NextSInv DEF SInv
<1>2. CASE Search
  BY <1>1, <1>2, IdlePromises DEF Search, SearchDevices, InTable, locals, Promise!Next
<1>3. CASE Searching
  BY <1>1, <1>3, SearchingPromises DEF Searching
<1>4. CASE step = "idle" /\ step' = "idle"
  BY <1>1, <1>4, IdlePromises DEF Promise!Next
<1>5. CASE \E b \in Buses, d \in Loose : PlugOrPull(b, d)
  BY <1>1, <1>5, PlugPromises DEF PlugOrPull
<1>6. CASE UNCHANGED vars
  BY <1>6 DEF vars, owiVars, allButBeyond, locals, FoundSoFar, Promise!vars
<1>7. CASE ConfigureDevices \/ \E ok \in BOOLEAN : ConfigureDht(ok)
  BY <1>4, <1>7 DEF ConfigureDevices, ConfigureDht, Returned, NextPort, allButBeyond
<1>8. CASE Restart \/ \E heard \in SUBSET Rows : Poll(heard)
  BY <1>4, <1>8 DEF Restart, Poll, SInv, Placed, allButBeyond
<1> QED
  BY <1>2, <1>3, <1>5, <1>6, <1>7, <1>8 DEF Next, Boot

\* OWI_SearchDevices() and OWI_SearchRom() keep the promise of BusSearch, whatever fcnt
\* begins at and wherever there is a DHT: undisturbed, each pass finds the first of the
\* devices that remain, and the search ends when none remains or the table is full; ids may
\* have any length, and any devices may be on the bus.
THEOREM SearchKeepsPromise == Spec => KeepsPromise
<1>1. SInv /\ [Next]_vars => SInv'
  BY NextSInv
<1>2. SInv /\ [Next]_vars => [Promise!Next]_Promise!vars
  BY NextPromises
<1> QED
  BY <1>1, <1>2, InitSInv, InitPromises, PTL DEF Spec, KeepsPromise, Promise!Spec

-------------------------------------------------------------------------------
(* The table matches the buses. *)

Done == {Ports[i] : i \in 1 .. port - 1}

Matches(b) ==
  LET rows  == RowsOf(b)
      given == {id[r] : r \in rows}
  IN  /\ given \subseteq searched[b]
      /\ \A q, r \in rows : q < r => Precedes(id[q], id[r])
      /\ \A d \in searched[b] \ given :
           count = MaxSensors /\ \A r \in rows : Precedes(id[r], d)

\* n rows from row f on.
RowsFrom(f, n) == f .. f + n - 1

\* What a search that nobody disturbed returned.
Returns(rows, n) ==
  /\ \A r \in rows : id[r] \in searched[bus]
  /\ \A q, r \in rows : q < r => Precedes(id[q], id[r])
  /\ \A d \in searched[bus] :
       \/ \E r \in rows : id[r] = d
       \/ n = numDevices /\ \A r \in rows : Precedes(id[r], d)

CallInv ==
  /\ stage = "search" =>
       /\ first = count /\ numDevices = MaxSensors - count /\ bus = Ports[port]
       /\ step # "idle" /\ ~disturbed => searched[bus] = attached[bus]
       /\ junk[bus] = 0 =>
            /\ step # "idle" => num = 0
            /\ step = "idle" => num \in 0 .. numDevices
            /\ step = "idle" /\ ~disturbed => Returns(RowsFrom(count, num), num)
  /\ stage \in {"loop", "polled"} => port = Len(Ports) + 1

Wired == \A b \in Buses : attached[b] \subseteq DevicesOf[b]

RowInv ==
  /\ \A r \in Rows : r >= count => sensor_type[r] = Unset
  /\ \A b \in Buses \ Done :
       RowsOf(b) = {} /\ (searched[b] = {} \/ (stage = "search" /\ b = Ports[port]))
  /\ \A b \in Done \ upset : junk[b] = 0 => Matches(b)

MInv == SInv /\ Wired /\ (~beyond => CallInv /\ RowInv)

LEMMA InitMInv == Init => MInv
<1> SUFFICES ASSUME Init PROVE MInv
  OBVIOUS
<1>1. SInv
  BY InitSInv
<1>2. CallInv
  BY DEF Init, CallInv
<1>3. Done = {}
  BY DEF Init, Done
<1>4. RowInv
  BY <1>3 DEF Init, RowInv, RowsOf, Unset
<1> QED
  BY <1>1, <1>2, <1>4 DEF Init, OwiInit, Wired, MInv

LEMMA DoneIsNotSearched ==
  ASSUME SInv, stage \in {"call", "search"}
  PROVE  /\ Ports[port] \in Buses \ Done
         /\ {Ports[i] : i \in 1 .. (port + 1) - 1} = Done \cup {Ports[port]}
<1>1. port \in 1 .. Len(Ports) /\ Len(Ports) \in Nat
  BY PortSizes DEF SInv, Placed
<1>2. Ports[port] \notin Done
  BY <1>1, PortsAssumption DEF Done
<1>3. 1 .. (port + 1) - 1 = (1 .. port - 1) \cup {port}
  BY <1>1
<1> QED
  BY <1>1, <1>2, <1>3, PortSizes DEF Done

\* What was given stays given as long as the rows that are taken are not written.
LEMMA RowsAreKept ==
  ASSUME SInv, RowInv, UNCHANGED <<count, port, pin, sensor_type, upset, searched, junk, stage>>,
         \A r \in Rows : r < count => id'[r] = id[r]
  PROVE  RowInv'
<1>1. \A b : RowsOf(b)' = RowsOf(b)
  BY DEF RowsOf
<1>2. Done' = Done
  BY DEF Done
<1>3. \A b \in Buses : \A r \in RowsOf(b) : id'[r] = id[r]
  <2>1. \A r \in Rows : r \in Int /\ count \in Int
    BY DEF Rows, SInv, TypeOK
  <2>2. \A r \in Rows : sensor_type[r] = "ds18b20" => r < count
    BY <2>1 DEF RowInv, Unset
  <2> QED
    BY <2>2 DEF RowsOf
<1>4. ASSUME NEW b \in Buses, Matches(b)
      PROVE  Matches(b)'
  <2>1. {id'[r] : r \in RowsOf(b)} = {id[r] : r \in RowsOf(b)}
    BY <1>3
  <2> QED
    BY <1>1, <1>3, <1>4, <2>1 DEF Matches
<1>5. Done \subseteq Buses
  BY PortSizes DEF Done, SInv, TypeOK
<1> QED
  BY <1>1, <1>2, <1>4, <1>5 DEF RowInv

\* The search is given the rows that are left.
LEMMA RoomIsLeft ==
  ASSUME SInv, ~beyond
  PROVE  /\ count \in 0 .. MaxSensors /\ MaxSensors \in 1 .. 255 /\ Room = MaxSensors - count
         /\ count .. count + Room - 1 \subseteq Rows
<1>1. count \in 0 .. MaxSensors /\ MaxSensors \in 1 .. 255
  BY PortSizes DEF SInv, Placed
<1>2. Room = MaxSensors - count
  BY <1>1 DEF Room
<1> QED
  BY <1>1, <1>2 DEF Rows

LEMMA SearchMInv == MInv /\ SInv' /\ ~beyond /\ Search => MInv'
<1> SUFFICES ASSUME MInv, SInv', ~beyond, Search PROVE MInv'
  OBVIOUS
<1>1. /\ stage = "call" /\ stage' = "search" /\ port \in 1 .. Len(Ports) /\ Ports[port] \in Buses
      /\ count \in 0 .. MaxSensors /\ MaxSensors \in 1 .. 255 /\ Room = MaxSensors - count
      /\ step' = "pass" /\ disturbed' = FALSE /\ first' = count
      /\ numDevices' = MaxSensors - count /\ bus' = Ports[port]
      /\ UNCHANGED <<attached, port, count, pin, sensor_type, upset>>
      /\ searched' = [searched EXCEPT ![Ports[port]] = attached[Ports[port]]]
      /\ junk' = [junk EXCEPT ![Ports[port]] = num']
      /\ id' = [r \in Rows |-> IF r \in count .. count + Room - 1 THEN ZeroId ELSE id[r]]
  <2>1. port \in 1 .. Len(Ports) /\ Ports[port] \in Buses
    BY PortSizes DEF Search, MInv, SInv, Placed
  <2>2. count \in 0 .. MaxSensors /\ MaxSensors \in 1 .. 255 /\ Room = MaxSensors - count
    BY RoomIsLeft DEF MInv
  <2> QED
    BY <2>1, <2>2 DEF Search, SearchDevices
<1>2. /\ searched'[Ports[port]] = attached[Ports[port]] /\ junk'[Ports[port]] = num'
      /\ \A b \in Buses : b # Ports[port] => searched'[b] = searched[b] /\ junk'[b] = junk[b]
  BY <1>1 DEF MInv, SInv, TypeOK
<1>3. CallInv'
  BY <1>1, <1>2 DEF CallInv
<1>4. \A r \in Rows : r < count => id'[r] = id[r]
  BY <1>1 DEF Rows
<1>5. RowInv'
  <2>1. \A b : RowsOf(b)' = RowsOf(b)
    BY <1>1 DEF RowsOf
  <2>2. Done' = Done /\ Ports[port] \notin Done
    BY <1>1, DoneIsNotSearched DEF Done, MInv
  <2>3. \A b \in Buses : \A r \in RowsOf(b) : id'[r] = id[r]
    <3>1. \A r \in Rows : r \in Int /\ count \in Int
      BY <1>1 DEF Rows
    <3>2. \A r \in Rows : sensor_type[r] = "ds18b20" => r < count
      BY <3>1 DEF MInv, RowInv, Unset
    <3> QED
      BY <1>4, <3>2 DEF RowsOf
  <2>4. ASSUME NEW b \in Done, Matches(b), b \in Buses
        PROVE  Matches(b)'
    <3>1. searched'[b] = searched[b] /\ count' = count
      BY <1>1, <1>2, <2>2, <2>4
    <3>2. {id'[r] : r \in RowsOf(b)} = {id[r] : r \in RowsOf(b)}
      BY <2>3, <2>4
    <3> QED
      BY <2>1, <2>3, <2>4, <3>1, <3>2 DEF Matches
  <2>5. Done \subseteq Buses
    BY PortSizes DEF Done, MInv, SInv, TypeOK
  <2>6. \A b \in Done : junk'[b] = junk[b]
    BY <1>2, <2>2, <2>5
  <2>7. \A b \in Done' \ upset' : junk'[b] = 0 => Matches(b)'
    BY <1>1, <2>2, <2>4, <2>5, <2>6 DEF MInv, RowInv
  <2> QED
    BY <1>1, <1>2, <2>1, <2>2, <2>7 DEF MInv, RowInv
<1>6. Wired'
  BY <1>1 DEF MInv, Wired
<1> QED
  BY <1>3, <1>5, <1>6 DEF MInv

\* All ids that are found in an undisturbed search pass the CRC.
LEMMA AllGood ==
  ASSUME InTable, PassInv, ~disturbed, step # "idle", attached[bus] \subseteq DevicesOf[bus]
  PROVE  Cardinality(GoodRows) = numFoundDevices
<1>1. first \in Nat /\ numFoundDevices \in Nat /\ bus \in Buses
  BY Sizes DEF InTable, SearchTypeOK
<1>2. \A r \in FoundRows : id[r] \in ValidIds
  BY <1>1, IdsAssumption DEF PassInv, FoundInOrder, Here
<1>3. \A r \in FoundRows : \A q \in first .. r : q \in FoundRows
  BY <1>1 DEF FoundRows
<1>4. GoodRows = FoundRows
  BY <1>2, <1>3 DEF GoodRows
<1>5. Cardinality(FoundRows) = IF first > first + numFoundDevices - 1 THEN 0
                               ELSE (first + numFoundDevices - 1) - first + 1
  <2>1. first \in Int /\ first + numFoundDevices - 1 \in Int
    BY <1>1
  <2> QED
    BY <2>1, FS_Interval DEF FoundRows
<1> QED
  BY <1>1, <1>4, <1>5

\* A search that nobody disturbed returns as many rows as it has found, with their ids.
LEMMA CheckRomsReturns ==
  ASSUME MInv, ~beyond, ~disturbed, CheckRoms, stage = "search", junk[bus] = 0
  PROVE  num' = numFoundDevices /\ Returns(RowsFrom(first, numFoundDevices), numFoundDevices)
<1>1. /\ InTable /\ PassInv /\ num = 0 /\ step # "idle" /\ Here = searched[bus]
      /\ attached[bus] \subseteq DevicesOf[bus]
      /\ first \in Nat /\ numFoundDevices \in 0 .. 255 /\ numFoundDevices <= numDevices
      /\ numDevices \in Nat
  <2>1. InTable /\ PassInv /\ step # "idle" /\ num = 0 /\ Here = searched[bus]
    BY DEF MInv, SInv, CallInv, CheckRoms, Here
  <2>2. first \in 0 .. MaxSensors /\ numDevices \in 0 .. MaxSensors - first
        /\ numFoundDevices \in 0 .. numDevices /\ bus \in Buses
    BY <2>1 DEF InTable, SearchTypeOK
  <2> QED
    BY <2>1, <2>2, Sizes DEF MInv, Wired
<1>2. num' = numFoundDevices
  BY <1>1, AllGood DEF CheckRoms
<1>3. FoundInOrder /\ DeviationKept
  BY <1>1 DEF PassInv
<1>4. \A r \in FoundRows : id[r] \in searched[bus]
  BY <1>1, <1>3 DEF FoundInOrder
<1>5. ASSUME NEW d \in searched[bus]
      PROVE  \/ \E r \in FoundRows : id[r] = d
             \/ numFoundDevices = numDevices /\ \A r \in FoundRows : Precedes(id[r], d)
  <2> SUFFICES ASSUME ~IsFound(d)
               PROVE  numFoundDevices = numDevices /\ \A r \in FoundRows : Precedes(id[r], d)
    BY DEF IsFound
  <2>1. numFoundDevices > 0 => Precedes(Last, d)
    BY <1>1, <1>3 DEF FoundInOrder
  <2>2. numFoundDevices = numDevices
    <3>1. CASE step = "pass"
      BY <1>1, <3>1 DEF CheckRoms, TableFull
    <3>2. CASE step = "crc"
      <4>1. numFoundDevices > 0 /\ IsDeviation(Last, 0, IdBits + 1, Here)
        BY <1>3, <3>2 DEF DeviationKept
      <4>2. \A i \in Bits : i \in 0 + 1 .. (IdBits + 1) - 1
        BY Sizes DEF Bits
      <4> QED
        BY <1>1, <2>1, <4>1, <4>2, PrecedesIsLeaving DEF IsDeviation
    <3> QED
      BY <3>1, <3>2 DEF CheckRoms
  <2>3. ASSUME NEW r \in FoundRows
        PROVE  Precedes(id[r], d)
    <3>1. numFoundDevices > 0 /\ NewRow - 1 \in FoundRows /\ (r = NewRow - 1 \/ r < NewRow - 1)
      BY <1>1 DEF FoundRows, NewRow
    <3>2. r = NewRow - 1 \/ Precedes(id[r], Last)
      BY <1>3, <3>1 DEF FoundInOrder, Last
    <3>3. id[r] \in Ids /\ Last \in Ids /\ d \in Ids
      BY <1>1, <1>3, <3>1, Sizes DEF FoundInOrder, Last, Here, InTable, SearchTypeOK
    <3> QED
      BY <2>1, <3>1, <3>2, <3>3, PrecedesTransitive DEF Last
  <2> QED
    BY <2>2, <2>3
<1>6. \A q, r \in FoundRows : q < r => Precedes(id[q], id[r])
  BY <1>3 DEF FoundInOrder
<1> QED
  BY <1>2, <1>4, <1>5, <1>6 DEF Returns, FoundRows, RowsFrom

LEMMA SearchingMInv == MInv /\ SInv' /\ ~beyond /\ Searching => MInv'
<1> SUFFICES ASSUME MInv, SInv', ~beyond, Searching PROVE MInv'
  OBVIOUS
<1>1. /\ stage = "search" /\ step # "idle" /\ InTable /\ PassInv /\ SearchStep
      /\ UNCHANGED <<stage, port, count, pin, sensor_type, upset, searched, junk>>
      /\ first = count /\ count \in 0 .. MaxSensors
  BY DEF Searching, config, history, MInv, SInv, CallInv, Placed, SearchStep, NobodyThere, BeginPass,
         NoAnswer, SameBit, Conflict, CheckRoms
<1>2. /\ UNCHANGED <<attached, bus, first, numDevices, disturbed>>
  BY <1>1 DEF SearchStep, NobodyThere, BeginPass, NoAnswer, SameBit, Conflict, CheckRoms, Take
<1>3. \A r \in Rows : r < count => id'[r] = id[r]
  <2>1. CASE BeginPass \/ NobodyThere
    <3>1. numFoundDevices < numDevices /\ CopyLast
      BY <1>1, <2>1 DEF BeginPass, NobodyThere, TableFull, InTable, SearchTypeOK
    <3>2. NewRow >= count /\ NewRow \in Int
      BY <1>1 DEF NewRow, InTable, SearchTypeOK
    <3> QED
      BY <1>1, <3>1, <3>2, CopyWrites DEF Rows
  <2>2. CASE SameBit \/ Conflict
    <3>1. \E bit \in {0, 1} : \E m : Take(bit, m)
      BY <1>1, <2>2, BitsFollowed DEF SameBit, Conflict
    <3>2. NewRow >= count /\ NewRow \in Int /\ step = "bits"
      BY <1>1, <2>2 DEF SameBit, Conflict, NewRow, InTable, SearchTypeOK
    <3> QED
      BY <1>1, <3>1, <3>2, TakeWrites DEF Rows
  <2> QED
    BY <1>1, <2>1, <2>2 DEF SearchStep, NoAnswer, CheckRoms
<1>4. RowInv' /\ Wired'
  BY <1>1, <1>2, <1>3, RowsAreKept DEF MInv, Wired
<1>5. CASE step' # "idle"
  <2>1. num' = num
    BY <1>1, <1>5 DEF SearchStep, NobodyThere, BeginPass, NoAnswer, SameBit, Conflict, CheckRoms,
                      Take, Return
  <2> QED
    BY <1>1, <1>2, <1>4, <1>5, <2>1 DEF MInv, CallInv
<1>6. CASE NobodyThere
  <2>1. (junk[bus] = 0 => num' = 0) /\ (~disturbed => searched[bus] = {})
    BY <1>1, <1>6 DEF NobodyThere, Presence, MInv, CallInv
  <2>2. junk[bus] = 0 /\ ~disturbed => Returns(RowsFrom(count, num), num)'
    <3> SUFFICES ASSUME junk[bus] = 0, ~disturbed PROVE Returns(RowsFrom(count, num), num)'
      OBVIOUS
    <3>1. \A n : n \notin RowsFrom(count, 0)
      BY <1>1 DEF RowsFrom
    <3>2. RowsFrom(count, num)' = RowsFrom(count, 0)
      BY <1>1, <2>1 DEF RowsFrom
    <3> QED
      BY <1>1, <1>2, <2>1, <3>1, <3>2 DEF Returns
  <2>3. 0 \in 0 .. numDevices
    BY <1>1, Sizes DEF InTable, SearchTypeOK
  <2> QED
    BY <1>1, <1>2, <1>4, <1>6, <2>1, <2>2, <2>3 DEF MInv, CallInv, NobodyThere, Return
<1>7. CASE CheckRoms
  <2>1. id' = id
    BY <1>7 DEF CheckRoms
  <2>2. ASSUME ~disturbed, junk[bus] = 0
        PROVE  Returns(RowsFrom(count, num), num)'
    <3>1. num' = numFoundDevices /\ Returns(RowsFrom(first, numFoundDevices), numFoundDevices)
      BY <1>1, <1>7, <2>2, CheckRomsReturns
    <3>2. RowsFrom(count, num)' = RowsFrom(first, numFoundDevices)
      BY <1>1, <3>1 DEF RowsFrom
    <3> QED
      BY <1>1, <1>2, <2>1, <3>1, <3>2 DEF Returns
  <2>3. ASSUME junk[bus] = 0
        PROVE  num' \in 0 .. numDevices
    <3>1. num = 0 /\ Cardinality(GoodRows) \in 0 .. numFoundDevices
      BY <1>1, <2>3, GoodRowsAreFound DEF MInv, CallInv, InTable, SearchTypeOK
    <3>2. numFoundDevices \in 0 .. numDevices /\ numDevices \in 0 .. 255
      BY <1>1, Sizes DEF InTable, SearchTypeOK
    <3> QED
      BY <1>7, <3>1, <3>2 DEF CheckRoms
  <2> QED
    BY <1>1, <1>2, <1>4, <1>7, <2>2, <2>3 DEF MInv, CallInv, CheckRoms, Return
<1> QED
  BY <1>1, <1>5, <1>6, <1>7
     DEF SearchStep, BeginPass, NoAnswer, SameBit, Conflict, Take, EndPass

\* The ports that are behind keep their rows when those of the next are configured.
LEMMA ConfigureOthers ==
  ASSUME MInv, ~beyond, stage = "search", NEW p, p = Ports[port],
         NEW rows, NEW type, Configure(rows, type), rows \subseteq Rows, \A r \in rows : r >= count, id' = id
  PROVE  /\ \A b \in Buses : b # p => RowsOf(b)' = RowsOf(b)
         /\ RowsOf(p)' = IF type = "ds18b20" THEN rows ELSE {}
<1>1. /\ \A r \in Rows : r \in rows => sensor_type[r] # "ds18b20"
      /\ p \in Buses \ Done /\ RowsOf(p) = {}
  BY DoneIsNotSearched DEF MInv, RowInv, Unset
<1>2. \A r \in Rows : /\ pin'[r] = IF r \in rows THEN p ELSE pin[r]
                      /\ sensor_type'[r] = IF r \in rows THEN type ELSE sensor_type[r]
  BY DEF Configure
<1> QED
  BY <1>1, <1>2 DEF RowsOf

\* The port that is configured, and those behind it.
LEMMA NextPortKeeps ==
  ASSUME MInv, SInv', ~beyond, stage = "search", NextPort, NEW p, p = Ports[port],
         \A r \in Rows : r >= count' => sensor_type'[r] = Unset,
         \A b \in Buses : b # p => RowsOf(b)' = RowsOf(b),
         count = MaxSensors => count' = MaxSensors,
         ~disturbed /\ junk[p] = 0 => Matches(p)'
  PROVE  MInv'
<1>1. /\ p \in Buses \ Done
      /\ {Ports[i] : i \in 1 .. (port + 1) - 1} = Done \cup {p}
      /\ port \in 1 .. Len(Ports)
  BY DoneIsNotSearched DEF MInv, SInv, Placed
<1>2. /\ port' = port + 1 /\ stage' = IF port = Len(Ports) THEN "loop" ELSE "call"
      /\ upset' = IF disturbed THEN upset \cup {p} ELSE upset
      /\ UNCHANGED <<id, attached, searched, junk>>
  BY DEF NextPort, allButBeyond
<1>3. Done' = Done \cup {p}
  BY <1>1, <1>2 DEF Done
<1>4. CallInv'
  BY <1>1, <1>2 DEF CallInv
<1>5. ASSUME NEW b \in Done, b \in Buses, b \notin upset, junk[b] = 0
      PROVE  Matches(b)'
  <2>1. Matches(b) /\ RowsOf(b)' = RowsOf(b)
    BY <1>1, <1>5 DEF MInv, RowInv
  <2> QED
    BY <1>2, <2>1 DEF Matches
<1>6. Done \subseteq Buses
  BY <1>1, PortSizes DEF Done
<1>7. \A b \in Done' \ upset' : junk'[b] = 0 => Matches(b)'
  BY <1>1, <1>2, <1>3, <1>5, <1>6
<1>8. RowInv' /\ Wired'
  BY <1>1, <1>2, <1>3, <1>7 DEF MInv, Wired, RowInv
<1> QED
  BY <1>4, <1>8 DEF MInv

LEMMA ConfigureDevicesMInv ==
  MInv /\ SInv' /\ ~beyond /\ ~beyond' /\ ConfigureDevices => MInv'
<1> SUFFICES ASSUME MInv, SInv', ~beyond, ~beyond', ConfigureDevices,
                    NEW p, p = Ports[port]
             PROVE  MInv'
  OBVIOUS
<1> DEFINE rows == RowsFrom(count, num)
<1>1. /\ stage = "search" /\ step = "idle" /\ num # 0 /\ num \in 0 .. 255 /\ NextPort
      /\ Configure(rows, "ds18b20") /\ count' = (count + num) % 256
      /\ count \in 0 .. MaxSensors /\ MaxSensors \in 1 .. 255
      /\ numDevices = MaxSensors - count /\ bus = p
      /\ ~disturbed /\ junk[p] = 0 => Returns(rows, num)
      /\ UNCHANGED <<id, searched>>
  <2>1. num \in 0 .. 255
    BY DEF MInv, SInv, InTable, SearchTypeOK
  <2> QED
    BY <2>1, Sizes DEF ConfigureDevices, Returned, RowsFrom, NextPort, allButBeyond, MInv, SInv,
                       CallInv, Placed
<1>2. rows \subseteq Rows
  BY <1>1 DEF Configure, Writes
<1>3. count + num <= MaxSensors /\ count' = count + num
  <2>1. count + num - 1 \in rows
    BY <1>1 DEF RowsFrom
  <2>2. count + num - 1 < MaxSensors
    BY <1>1, <1>2, <2>1 DEF Rows
  <2>3. /\ count \in Nat /\ num \in Nat /\ MaxSensors \in 1 .. 255
        /\ count' = (count + num) % 256
    BY <1>1
  <2>4. count + num < 256
    BY <2>2, <2>3
  <2> QED
    BY <2>2, <2>3, <2>4
<1>4. \A r \in rows : r >= count
  BY <1>1 DEF RowsFrom
<1>5. /\ \A b \in Buses : b # p => RowsOf(b)' = RowsOf(b)
      /\ RowsOf(p)' = rows
  BY <1>1, <1>2, <1>4, ConfigureOthers
<1>6. \A r \in Rows : r >= count' => sensor_type'[r] = Unset
  <2> SUFFICES ASSUME NEW r \in Rows, r >= count + num PROVE sensor_type'[r] = Unset
    BY <1>3
  <2>1. r \notin rows /\ r >= count
    <3>1. r \in Int /\ count \in Int /\ num \in Nat
      BY <1>1 DEF Rows
    <3> QED
      BY <3>1 DEF RowsFrom
  <2>2. sensor_type'[r] = sensor_type[r]
    BY <1>1, <2>1 DEF Configure
  <2> QED
    BY <2>1, <2>2 DEF MInv, RowInv
<1>7. ASSUME ~disturbed, junk[p] = 0
      PROVE  Matches(p)'
  <2>1. Returns(rows, num)
    BY <1>1, <1>7
  <2>2. num = numDevices => count' = MaxSensors
    BY <1>1, <1>3
  <2>3. {id[r] : r \in rows} \subseteq searched[bus]
    BY <2>1 DEF Returns
  <2>4. \A d \in searched[bus] \ {id[r] : r \in rows} :
          count' = MaxSensors /\ \A r \in rows : Precedes(id[r], d)
    BY <2>1, <2>2 DEF Returns
  <2>5. \A q, r \in rows : q < r => Precedes(id[q], id[r])
    BY <2>1 DEF Returns
  <2> HIDE DEF rows
  <2> QED
    BY <1>1, <1>5, <2>3, <2>4, <2>5 DEF Matches
<1>8. count = MaxSensors => count' = MaxSensors
  BY <1>1, <1>3
<1> QED
  BY <1>1, <1>5, <1>6, <1>7, <1>8, NextPortKeeps

LEMMA ConfigureDhtMInv ==
  ASSUME MInv, SInv', ~beyond, ~beyond', NEW ok \in BOOLEAN, ConfigureDht(ok),
         NEW p, p = Ports[port]
  PROVE  MInv'
<1>1. /\ stage = "search" /\ step = "idle" /\ num = 0 /\ NextPort
      /\ count \in 0 .. MaxSensors /\ MaxSensors \in 1 .. 255
      /\ numDevices = MaxSensors - count /\ bus = p /\ p \in Buses
      /\ ~disturbed /\ junk[p] = 0 => Returns(RowsFrom(count, 0), 0)
      /\ UNCHANGED <<id, searched>>
  BY Sizes, DoneIsNotSearched
     DEF ConfigureDht, Returned, NextPort, allButBeyond, MInv, SInv, CallInv, Placed
<1>2. /\ RowsOf(p)' = {}
      /\ \A b \in Buses : b # p => RowsOf(b)' = RowsOf(b)
      /\ count = MaxSensors => count' = MaxSensors
      /\ \A r \in Rows : r >= count' => sensor_type'[r] = Unset
  <2>1. CASE ok
    <3>1. Configure({count, count + 1}, "dht") /\ count' = (count + 2) % 256
      BY <2>1 DEF ConfigureDht
    <3>2. {count, count + 1} \subseteq Rows
      BY <3>1 DEF Configure, Writes
    <3>3. count + 1 < MaxSensors /\ count' = count + 2
      BY <1>1, <3>1, <3>2 DEF Rows
    <3>4. /\ \A b \in Buses : b # p => RowsOf(b)' = RowsOf(b)
          /\ RowsOf(p)' = {}
      BY <1>1, <3>1, <3>2, ConfigureOthers
    <3>5. ASSUME NEW r \in Rows, r >= count + 2
          PROVE  sensor_type'[r] = Unset
      <4>1. r \notin {count, count + 1} /\ r >= count
        BY <1>1, <3>5 DEF Rows
      <4> QED
        BY <3>1, <4>1 DEF Configure, MInv, RowInv
    <3> QED
      BY <1>1, <3>3, <3>4, <3>5
  <2>2. CASE ~ok
    <3>1. UNCHANGED <<pin, sensor_type, count>>
      BY <2>2 DEF ConfigureDht
    <3> QED
      BY <1>1, <3>1, DoneIsNotSearched DEF RowsOf, MInv, RowInv
  <2> QED
    BY <2>1, <2>2
<1>3. ASSUME ~disturbed, junk[p] = 0
      PROVE  Matches(p)'
  <2>1. \A r : r \notin RowsFrom(count, 0)
    BY <1>1 DEF RowsFrom
  <2>2. \A d \in searched[bus] : numDevices = 0
    BY <1>1, <1>3, <2>1 DEF Returns
  <2>3. numDevices = 0 => count' = MaxSensors
    BY <1>1, <1>2
  <2> QED
    BY <1>1, <1>2, <2>2, <2>3 DEF Matches
<1> QED
  BY <1>1, <1>2, <1>3, NextPortKeeps

\* Of a box that wrote behind the table only the next start follows.
LEMMA NextWired == SInv /\ Wired /\ [Next]_vars => Wired'
<1> SUFFICES ASSUME SInv, Wired, [Next]_vars PROVE Wired'
  OBVIOUS
<1>1. CASE attached' = attached
  BY <1>1 DEF Wired
<1>2. ASSUME NEW b \in Buses, NEW d \in Loose, PlugOrPull(b, d)
      PROVE  Wired'
  BY <1>2 DEF PlugOrPull, Plug, Wired, SInv, TypeOK, SearchTypeOK
<1>3. CASE Searching
  BY <1>1, <1>3 DEF Searching, SearchStep, NobodyThere, BeginPass, NoAnswer, SameBit, Conflict,
                    Take, CheckRoms
<1>4. CASE Search \/ ConfigureDevices \/ (\E ok \in BOOLEAN : ConfigureDht(ok)) \/ Restart
  BY <1>1, <1>4 DEF Search, SearchDevices, ConfigureDevices, ConfigureDht, NextPort, Restart,
                    allButBeyond
<1>5. CASE (\E heard \in SUBSET Rows : Poll(heard)) \/ UNCHANGED vars
  BY <1>1, <1>5 DEF Poll, vars, owiVars, allButBeyond
<1> QED
  BY <1>2, <1>3, <1>4, <1>5 DEF Next, Boot

LEMMA NextMInv == MInv /\ [Next]_vars => MInv'
<1> SUFFICES ASSUME MInv, [Next]_vars PROVE MInv'
  OBVIOUS
<1>1. SInv /\ SInv' /\ Wired'
  BY NextSInv, NextWired DEF MInv
<1>2. ASSUME NEW heard \in SUBSET Rows, Poll(heard)
      PROVE  MInv'
  <2>1. /\ stage \in {"loop", "polled"} /\ stage' = "polled" /\ ~beyond
        /\ UNCHANGED <<id, port, count, pin, sensor_type, upset, searched, junk>>
    BY <1>2 DEF Poll, allButBeyond, history
  <2>2. CallInv'
    BY <2>1 DEF MInv, CallInv
  <2>3. Done' = Done /\ \A b : RowsOf(b)' = RowsOf(b)
    BY <2>1 DEF Done, RowsOf
  <2>4. \A b : Matches(b)' <=> Matches(b)
    BY <2>1, <2>3 DEF Matches
  <2>5. RowInv'
    BY <2>1, <2>3, <2>4 DEF MInv, RowInv
  <2> QED
    BY <1>1, <2>2, <2>5 DEF MInv
<1>3. ASSUME NEW b \in Buses, NEW d \in Loose, PlugOrPull(b, d)
      PROVE  MInv'
  <2>1. /\ UNCHANGED <<stage, step, bus, first, numDevices, num, id, port, count, pin, sensor_type,
                       upset, searched, junk>>
        /\ attached' = [attached EXCEPT ![b] = IF d \in @ THEN @ \ {d} ELSE @ \cup {d}]
        /\ disturbed' = (disturbed \/ (step # "idle" /\ b = bus)) /\ ~beyond
    BY <1>3 DEF PlugOrPull, Plug, config, history
  <2>2. bus \in Buses /\ \A c \in Buses : c # b => attached'[c] = attached[c]
    BY <1>1, <2>1 DEF SInv, InTable, SearchTypeOK
  <2>3. RowInv'
    BY <1>1, <2>1, RowsAreKept DEF MInv
  <2>4. Returns(RowsFrom(count, num), num)' <=> Returns(RowsFrom(count, num), num)
    BY <2>1 DEF Returns
  <2>5. CallInv'
    BY <2>1, <2>2, <2>4 DEF MInv, CallInv
  <2> QED
    BY <1>1, <2>3, <2>5 DEF MInv
<1>4. CASE Restart
  <2>1. /\ stage' = "call" /\ port' = 1 /\ sensor_type' = [r \in Rows |-> Unset] /\ upset' = {}
        /\ searched' = [b \in Buses |-> {}]
    BY <1>4 DEF Restart
  <2>2. CallInv'
    BY <2>1 DEF CallInv
  <2>3. Done' = {}
    BY <2>1 DEF Done
  <2>4. \A b : RowsOf(b)' = {}
    BY <2>1 DEF RowsOf, Unset
  <2>5. RowInv'
    BY <2>1, <2>3, <2>4 DEF RowInv
  <2> QED
    BY <1>1, <2>2, <2>5 DEF MInv
<1>5. CASE UNCHANGED vars
  <2>1. UNCHANGED <<stage, step, bus, first, numDevices, num, id, port, count, pin, sensor_type,
                    upset, searched, junk, attached, disturbed, beyond>>
    BY <1>5 DEF vars, owiVars, allButBeyond, config, history
  <2> QED
    BY <1>1, <2>1 DEF MInv, CallInv, RowInv, Returns, Matches, RowsOf, Done
<1>6. CASE beyond' /\ Boot
  BY <1>1, <1>6 DEF MInv
<1>7. CASE ~beyond' /\ Boot
  BY <1>1, <1>7, SearchMInv, SearchingMInv, ConfigureDevicesMInv, ConfigureDhtMInv DEF Boot
<1> QED
  BY <1>2, <1>3, <1>4, <1>5, <1>6, <1>7 DEF Next

LEMMA MInvMatches == MInv => TableMatchesBuses
<1> SUFFICES ASSUME MInv, ~beyond, stage \in {"loop", "polled"}, NEW b \in Buses \ upset,
                    junk[b] = 0
             PROVE  Matches(b)
  BY DEF TableMatchesBuses, Matches
<1>1. CASE b \in Done
  BY <1>1 DEF MInv, RowInv
<1>2. CASE b \notin Done
  BY <1>2 DEF MInv, RowInv, Matches
<1> QED
  BY <1>1, <1>2

\* As long as nothing was written behind the table since the start, the rows of a bus whose
\* search nobody disturbed and whose fcnt began at 0 hold exactly the devices that were on
\* it, in the order of their ids, as far as the table goes: whatever the ports before it
\* gave, whatever fcnt began at for them, and over any number of starts
\* (search_and_configure_sensors(), main()).
THEOREM RowsMatchBuses == Spec => []TableMatchesBuses
  BY InitMInv, NextMInv, MInvMatches, PTL DEF Spec

-------------------------------------------------------------------------------
(* What a poll reads. *)

\* An earlier row has the pin of row r.
IsSecond(r) == \E q \in 0 .. r - 1 : pin[q] = pin[r]

\* The rows of a DHT are two neighbours.
DhtRow(r) ==
  \/ /\ ~IsSecond(r)
     /\ r + 1 \in Rows /\ sensor_type[r + 1] = "dht" /\ pin[r + 1] = pin[r]
  \/ /\ IsSecond(r)
     /\ r > 0 /\ sensor_type[r - 1] = "dht" /\ pin[r - 1] = pin[r] /\ ~IsSecond(r - 1)

PairInv ==
  /\ \A r \in Rows : r >= count => sensor_type[r] = Unset /\ pin[r] = Unset
  /\ \A r \in Rows : r < count => pin[r] \in Done
  /\ \A r \in Rows : sensor_type[r] = "dht" => DhtRow(r)

VInv == SInv /\ ReadingIsOfItsRow /\ (~beyond => PairInv)

\* The rows that exe_sensors() reads by themselves.
ReadRows == [r \in Rows |-> ~(sensor_type[r] = "dht" /\ IsSecond(r))]

ReadsAsInCode == \A r \in Rows : IsRead(r) <=> ReadRows[r]

LEMMA ReadsTheFirstRows ==
  ASSUME PairInv, NEW r \in Rows
  PROVE  IsRead(r) <=> ReadRows[r]
<1> DEFINE Equation(f) == f = [q \in Rows |-> q = 0 \/ ~(f[q - 1] /\ sensor_type[q - 1] = "dht")]
           read == CHOOSE f : Equation(f)
<1>1. MaxSensors - 1 \in Nat /\ Rows = 0 .. MaxSensors - 1 /\ \A q \in Rows : q # 0 => q - 1 \in Rows
  BY Sizes DEF Rows
<1>2. Equation(ReadRows)
  <2>1. ASSUME NEW q \in Rows
        PROVE  ReadRows[q] <=> (q = 0 \/ ~(ReadRows[q - 1] /\ sensor_type[q - 1] = "dht"))
    <3>1. CASE q = 0
      <4>1. ~IsSecond(q)
        BY <3>1 DEF IsSecond
      <4> QED
        BY <3>1, <4>1 DEF ReadRows
    <3>2. CASE q # 0 /\ sensor_type[q - 1] = "dht" /\ ~IsSecond(q - 1)
      <4>1. q - 1 \in Rows /\ (q - 1) + 1 = q /\ q - 1 \in 0 .. q - 1
        BY <1>1, <3>2
      <4>2. sensor_type[q] = "dht" /\ pin[q] = pin[q - 1]
        BY <3>2, <4>1 DEF PairInv, DhtRow
      <4>3. IsSecond(q)
        BY <4>1, <4>2 DEF IsSecond
      <4> QED
        BY <3>2, <4>1, <4>2, <4>3 DEF ReadRows
    <3>3. CASE q # 0 /\ ~(sensor_type[q - 1] = "dht" /\ ~IsSecond(q - 1))
      <4>1. q - 1 \in Rows
        BY <1>1, <3>3
      <4>2. sensor_type[q] = "dht" => ~IsSecond(q)
        BY <3>3 DEF PairInv, DhtRow
      <4> QED
        BY <3>3, <4>1, <4>2 DEF ReadRows
    <3> QED
      BY <3>1, <3>2, <3>3
  <2>2. \A q \in Rows : ReadRows[q] = (q = 0 \/ ~(ReadRows[q - 1] /\ sensor_type[q - 1] = "dht"))
    BY <2>1 DEF ReadRows
  <2>3. ReadRows = [q \in Rows |-> ReadRows[q]]
    BY DEF ReadRows
  <2> QED
    BY <2>2, <2>3
<1>3. Equation(read)
  BY <1>2
<1>4. \A q \in Rows : read[q] = (q = 0 \/ ~(read[q - 1] /\ sensor_type[q - 1] = "dht"))
  <2> HIDE DEF read
  <2> QED
    BY <1>3
<1>5. \A q \in Rows : ReadRows[q] = (q = 0 \/ ~(ReadRows[q - 1] /\ sensor_type[q - 1] = "dht"))
  BY <1>2
<1>6. Rows \subseteq {q \in Rows : read[q] = ReadRows[q]}
  <2> DEFINE S == {q \in Rows : read[q] = ReadRows[q]}
  <2> HIDE DEF read
  <2>1. 0 \in S
    BY <1>1, <1>4, <1>5
  <2>2. \A q \in 1 .. MaxSensors - 1 : q - 1 \in S => q \in S
    BY <1>1, <1>4, <1>5
  <2> HIDE DEF S
  <2>3. 0 .. MaxSensors - 1 \subseteq S
    BY <1>1, <2>1, <2>2, IntervalInduction
  <2> QED
    BY <1>1, <2>3 DEF S
<1>7. IsRead(r) = read[r]
  BY DEF IsRead
<1> QED
  BY <1>6, <1>7

LEMMA InitVInv == Init => VInv
<1> SUFFICES ASSUME Init PROVE VInv
  OBVIOUS
<1>1. SInv
  BY InitSInv
<1>2. PairInv
  <2>1. \A r \in Rows : ~(r < 0)
    BY DEF Rows
  <2> QED
    BY <2>1 DEF Init, PairInv, Unset
<1> QED
  BY <1>1, <1>2 DEF Init, VInv, ReadingIsOfItsRow

\* The next port has a pin that no row has yet.
LEMMA PinIsNew ==
  ASSUME SInv, PairInv, stage \in {"call", "search"}, NEW q \in Rows, pin[q] = Ports[port]
  PROVE  q >= count
<1>1. ~(q < count)
  BY DoneIsNotSearched DEF PairInv
<1>2. q \in Int /\ count \in Int
  BY DEF SInv, TypeOK, Rows
<1> QED
  BY <1>1, <1>2

\* Pairs are kept as long as their rows and the rows before them are.
LEMMA PairIsKept ==
  ASSUME NEW n \in Nat, NEW r \in Rows, DhtRow(r), r < n, r + 1 < n \/ IsSecond(r),
         \A q \in Rows : q < n => pin'[q] = pin[q] /\ sensor_type'[q] = sensor_type[q]
  PROVE  DhtRow(r)'
<1>1. r \in Nat /\ \A q \in 0 .. r : q \in Rows /\ q < n
  BY Sizes DEF Rows
<1>2. IsSecond(r)' <=> IsSecond(r)
  BY <1>1 DEF IsSecond
<1>3. ASSUME r > 0
      PROVE  r - 1 \in Rows /\ r - 1 < n /\ (IsSecond(r - 1)' <=> IsSecond(r - 1))
  <2>1. r - 1 \in Rows /\ r - 1 < n /\ \A q \in 0 .. (r - 1) - 1 : q \in Rows /\ q < n
    BY <1>1, <1>3, Sizes DEF Rows
  <2> QED
    BY <2>1 DEF IsSecond
<1>4. CASE ~IsSecond(r)
  BY <1>2, <1>4 DEF DhtRow
<1>5. CASE IsSecond(r)
  BY <1>1, <1>2, <1>3, <1>5 DEF DhtRow
<1> QED
  BY <1>4, <1>5

\* The rows before count stay as they are when those of the next port are configured.
LEMMA EarlierPairs ==
  ASSUME SInv, PairInv, NEW rows, NEW type, Configure(rows, type), \A r \in rows : r >= count
  PROVE  /\ \A r \in Rows : r < count => pin'[r] = pin[r] /\ sensor_type'[r] = sensor_type[r]
         /\ \A r \in Rows : r < count /\ sensor_type[r] = "dht" => DhtRow(r)'
<1>1. count \in Nat /\ \A r \in Rows : r \in Nat
  BY Sizes DEF SInv, TypeOK, Rows
<1>2. \A r \in Rows : r < count => r \notin rows
  BY <1>1
<1>3. \A r \in Rows : r < count => pin'[r] = pin[r] /\ sensor_type'[r] = sensor_type[r]
  BY <1>2 DEF Configure
<1>4. ASSUME NEW r \in Rows, r < count, sensor_type[r] = "dht"
      PROVE  DhtRow(r)'
  <2>1. DhtRow(r)
    BY <1>4 DEF PairInv
  <2>2. r + 1 < count \/ IsSecond(r)
    BY <1>1, <1>4, <2>1 DEF DhtRow, PairInv, Unset
  <2> QED
    BY <1>1, <1>3, <1>4, <2>1, <2>2, PairIsKept
<1> QED
  BY <1>3, <1>4

LEMMA ConfigureDevicesPairs ==
  ASSUME VInv, ~beyond, ~beyond', ConfigureDevices, NEW p, p = Ports[port]
  PROVE  PairInv'
<1> DEFINE rows == RowsFrom(count, num)
<1>1. /\ stage = "search" /\ num # 0 /\ num \in 0 .. 255
      /\ Configure(rows, "ds18b20") /\ count' = (count + num) % 256
      /\ count \in 0 .. MaxSensors /\ MaxSensors \in 1 .. 255 /\ port' = port + 1
  BY Sizes DEF ConfigureDevices, Returned, RowsFrom, NextPort, VInv, SInv, Placed, InTable,
               SearchTypeOK
<1>2. rows \subseteq Rows
  BY <1>1 DEF Configure, Writes
<1>3. count + num <= MaxSensors /\ count' = count + num
  <2>1. count + num - 1 \in rows
    BY <1>1 DEF RowsFrom
  <2>2. count + num - 1 < MaxSensors
    BY <1>1, <1>2, <2>1 DEF Rows
  <2>3. /\ count \in Nat /\ num \in Nat /\ MaxSensors \in 1 .. 255
        /\ count' = (count + num) % 256
    BY <1>1
  <2>4. count + num < 256
    BY <2>2, <2>3
  <2> QED
    BY <2>2, <2>3, <2>4
<1>4. \A r \in Rows : r \in rows <=> r >= count /\ r < count + num
  BY <1>1 DEF RowsFrom, Rows
<1>5. \A r \in Rows : /\ pin'[r] = IF r \in rows THEN p ELSE pin[r]
                      /\ sensor_type'[r] = IF r \in rows THEN "ds18b20" ELSE sensor_type[r]
  BY <1>1 DEF Configure
<1>6. Done' = Done \cup {p}
  BY <1>1, DoneIsNotSearched DEF Done, VInv
<1>7. \A r \in rows : r >= count
  BY <1>1 DEF RowsFrom
<1>8. /\ \A r \in Rows : r < count => pin'[r] = pin[r] /\ sensor_type'[r] = sensor_type[r]
      /\ \A r \in Rows : r < count /\ sensor_type[r] = "dht" => DhtRow(r)'
  BY <1>1, <1>7, EarlierPairs DEF VInv
<1>9. \A r \in Rows : r \in Int
  BY DEF Rows
<1>10. ASSUME NEW r \in Rows, sensor_type'[r] = "dht"
       PROVE  DhtRow(r)'
  <2>1. r \notin rows /\ sensor_type[r] = "dht"
    BY <1>5, <1>10
  <2>2. r < count
    BY <1>1, <1>9, <2>1 DEF VInv, PairInv, Unset
  <2> QED
    BY <1>8, <2>1, <2>2
<1>11. ASSUME NEW r \in Rows, r >= count + num
       PROVE  sensor_type'[r] = Unset /\ pin'[r] = Unset
  <2>1. r >= count /\ r \notin rows
    BY <1>1, <1>4, <1>9, <1>11
  <2> QED
    BY <1>5, <2>1 DEF VInv, PairInv
<1>12. ASSUME NEW r \in Rows, r < count + num
       PROVE  pin'[r] \in Done'
  <2>1. r < count \/ r \in rows
    BY <1>1, <1>4, <1>9, <1>12
  <2> HIDE DEF rows
  <2> QED
    BY <1>5, <1>6, <2>1, <1>8 DEF VInv, PairInv
<1> HIDE DEF rows
<1> QED
  BY <1>3, <1>10, <1>11, <1>12 DEF PairInv

LEMMA ConfigureDhtPairs ==
  ASSUME VInv, ~beyond, ~beyond', NEW ok \in BOOLEAN, ConfigureDht(ok), NEW p, p = Ports[port]
  PROVE  PairInv'
<1>1. /\ stage = "search" /\ count \in 0 .. MaxSensors /\ MaxSensors \in 1 .. 255
      /\ port' = port + 1
  BY Sizes DEF ConfigureDht, Returned, NextPort, VInv, SInv, Placed
<1>2. Done' = Done \cup {p} /\ \A q \in Rows : pin[q] = p => q >= count
  BY <1>1, DoneIsNotSearched, PinIsNew DEF Done, VInv
<1>3. \A r \in Rows : r \in Nat
  BY DEF Rows
<1>4. CASE ok
  <2> DEFINE rows == {count, count + 1}
  <2>1. Configure(rows, "dht") /\ count' = (count + 2) % 256
    BY <1>4 DEF ConfigureDht
  <2>2. rows \subseteq Rows
    BY <2>1 DEF Configure, Writes
  <2>3. count + 1 < MaxSensors /\ count' = count + 2
    BY <1>1, <2>1, <2>2 DEF Rows
  <2>4. \A r \in Rows : /\ pin'[r] = IF r \in rows THEN p ELSE pin[r]
                        /\ sensor_type'[r] = IF r \in rows THEN "dht" ELSE sensor_type[r]
    BY <2>1 DEF Configure
  <2>5. \A r \in rows : r >= count
    BY <1>1
  <2>6. /\ \A r \in Rows : r < count => pin'[r] = pin[r] /\ sensor_type'[r] = sensor_type[r]
        /\ \A r \in Rows : r < count /\ sensor_type[r] = "dht" => DhtRow(r)'
    BY <2>1, <2>5, EarlierPairs DEF VInv
  <2>7. \A q \in 0 .. count - 1 : pin'[q] # p
    <3>1. \A q \in 0 .. count - 1 : q \in Rows /\ q < count
      BY <1>1 DEF Rows
    <3> QED
      BY <1>1, <1>2, <2>6, <3>1
  <2>8. pin'[count] = p /\ pin'[count + 1] = p /\ sensor_type'[count] = "dht"
        /\ sensor_type'[count + 1] = "dht" /\ count \in Rows /\ count + 1 \in Rows
    BY <2>2, <2>4
  <2>9. ASSUME NEW n, n = count
        PROVE  DhtRow(n)' /\ DhtRow(n + 1)'
    <3>1. ~IsSecond(n)'
      BY <2>7, <2>8, <2>9 DEF IsSecond
    <3>2. DhtRow(n)'
      BY <2>8, <2>9, <3>1 DEF DhtRow
    <3>3. n \in 0 .. (n + 1) - 1 /\ (n + 1) - 1 = n /\ n + 1 > 0
      BY <1>1, <2>9
    <3>4. IsSecond(n + 1)'
      BY <2>8, <2>9, <3>3 DEF IsSecond
    <3>5. DhtRow(n + 1)'
      BY <2>8, <2>9, <3>1, <3>3, <3>4 DEF DhtRow
    <3> QED
      BY <3>2, <3>5
  <2>10. ASSUME NEW r \in Rows, sensor_type'[r] = "dht"
         PROVE  DhtRow(r)'
    <3>1. CASE r \in rows
      BY <2>9, <3>1
    <3>2. CASE r \notin rows
      <4>1. sensor_type[r] = "dht"
        BY <2>4, <2>10, <3>2
      <4>2. r < count
        BY <1>1, <1>3, <4>1 DEF VInv, PairInv, Unset
      <4> QED
        BY <2>6, <4>1, <4>2
    <3> QED
      BY <3>1, <3>2
  <2>11. ASSUME NEW r \in Rows, r >= count + 2
         PROVE  sensor_type'[r] = Unset /\ pin'[r] = Unset
    <3>1. r >= count /\ r \notin rows
      BY <1>1, <1>3, <2>11
    <3> QED
      BY <2>4, <3>1 DEF VInv, PairInv
  <2>12. ASSUME NEW r \in Rows, r < count + 2
         PROVE  pin'[r] \in Done'
    <3>1. r < count \/ r \in rows
      BY <1>1, <1>3, <2>12
    <3> HIDE DEF rows
    <3> QED
      BY <1>2, <2>4, <2>6, <3>1 DEF VInv, PairInv
  <2> HIDE DEF rows
  <2> QED
    BY <2>3, <2>10, <2>11, <2>12 DEF PairInv
<1>5. CASE ~ok
  <2>1. UNCHANGED <<pin, sensor_type, count>>
    BY <1>5 DEF ConfigureDht
  <2> QED
    BY <1>2, <2>1 DEF VInv, PairInv, DhtRow, IsSecond
<1> QED
  BY <1>4, <1>5

\* Of the two rows of a DHT the first is read, and it gives the readings of both.
LEMMA PollReads ==
  ASSUME VInv, ~beyond, NEW heard, Poll(heard)
  PROVE  ReadingIsOfItsRow'
<1> DEFINE isHum(r)  == IsRead(r) /\ sensor_type[r] = "dht"
           isTerm(r) == r > 0 /\ isHum(r - 1)
           isDs(r)   == IsRead(r) /\ sensor_type[r] = "ds18b20"
           leads(r)  == sensor_type[r] = "dht" /\ ~IsSecond(r)
           trails(r) == sensor_type[r] = "dht" /\ IsSecond(r)
<1>1. \A r \in Rows : r \in Nat /\ (r > 0 => r - 1 \in Rows /\ (r - 1) + 1 = r /\ r - 1 \in 0 .. r - 1)
  BY Sizes DEF Rows
<1>2. \A r \in Rows : IsRead(r) <=> ~trails(r)
  BY ReadsTheFirstRows DEF VInv, ReadRows
<1>3. \A r \in Rows : isHum(r) <=> leads(r)
  BY <1>2
<1>4. \A r \in Rows : isTerm(r) <=> trails(r)
  <2> SUFFICES ASSUME NEW r \in Rows PROVE isTerm(r) <=> trails(r)
    OBVIOUS
  <2>1. ASSUME r > 0, leads(r - 1)
        PROVE  trails(r)
    <3>1. r - 1 \in Rows /\ (r - 1) + 1 = r /\ r - 1 \in 0 .. r - 1
      BY <1>1, <2>1
    <3>2. sensor_type[r] = "dht" /\ pin[r] = pin[r - 1]
      BY <2>1, <3>1 DEF VInv, PairInv, DhtRow
    <3> QED
      BY <3>1, <3>2 DEF IsSecond
  <2>2. ASSUME trails(r)
        PROVE  r > 0 /\ leads(r - 1)
    BY <2>2 DEF VInv, PairInv, DhtRow
  <2> QED
    BY <1>1, <1>3, <2>1, <2>2
<1>5. \A r \in Rows : isDs(r) <=> sensor_type[r] = "ds18b20"
  BY <1>2
<1>6. /\ UNCHANGED <<pin, sensor_type, id>>
      /\ \A r \in Rows : error'[r] =
           IF isTerm(r) THEN IF Succeeds(r - 1, heard) THEN 0 ELSE 1
           ELSE IF isDs(r) \/ isHum(r) THEN IF Succeeds(r, heard) THEN 0 ELSE 1 ELSE error[r]
      /\ \A r \in Rows : value'[r] =
           IF isTerm(r) /\ Succeeds(r - 1, heard) THEN Reading(pin[r - 1], "temperature", ZeroId)
           ELSE IF isHum(r) /\ Succeeds(r, heard) THEN Reading(pin[r], "humidity", ZeroId)
           ELSE IF isDs(r) /\ Succeeds(r, heard) THEN Reading(pin[r], "temperature", id[r])
           ELSE value[r]
  BY DEF Poll, allButBeyond
<1> SUFFICES ASSUME NEW r \in Rows, sensor_type[r] # Unset, error'[r] = 0
             PROVE  value'[r] = IF sensor_type[r] = "ds18b20"
                                  THEN Reading(pin[r], "temperature", id[r])
                                ELSE IF \E q \in 0 .. r - 1 : pin[q] = pin[r]
                                  THEN Reading(pin[r], "temperature", ZeroId)
                                ELSE Reading(pin[r], "humidity", ZeroId)
  BY <1>6 DEF ReadingIsOfItsRow, IsSent
<1>7. sensor_type[r] \in {"ds18b20", "dht"}
  BY DEF VInv, SInv, TypeOK
<1> HIDE DEF isHum, isTerm, isDs
<1>8. CASE sensor_type[r] = "ds18b20"
  <2>1. isDs(r) /\ ~isTerm(r) /\ ~isHum(r)
    BY <1>3, <1>4, <1>5, <1>8
  <2> QED
    BY <1>6, <1>8, <2>1
<1>9. CASE leads(r)
  <2>1. isHum(r) /\ ~isTerm(r)
    BY <1>3, <1>4, <1>9
  <2> QED
    BY <1>6, <1>9, <2>1 DEF IsSecond
<1>10. CASE trails(r)
  <2>1. isTerm(r)
    BY <1>4, <1>10
  <2>2. pin[r - 1] = pin[r]
    BY <1>10 DEF VInv, PairInv, DhtRow
  <2> QED
    BY <1>6, <1>10, <2>1, <2>2 DEF IsSecond
<1> QED
  BY <1>7, <1>8, <1>9, <1>10

LEMMA NextVInv == VInv /\ [Next]_vars => VInv'
<1> SUFFICES ASSUME VInv, [Next]_vars PROVE VInv'
  OBVIOUS
<1>1. SInv /\ SInv'
  BY NextSInv DEF VInv
<1>2. ASSUME UNCHANGED <<stage, port, count, pin, sensor_type, beyond>>,
             stage = "polled" => UNCHANGED <<error, value, id>>
      PROVE  VInv'
  BY <1>1, <1>2 DEF VInv, PairInv, DhtRow, IsSecond, Done, ReadingIsOfItsRow, IsSent
<1>3. CASE ~beyond /\ Search
  <2>1. UNCHANGED <<port, count, pin, sensor_type>> /\ stage' = "search"
    BY <1>3 DEF Search
  <2> QED
    BY <1>1, <1>3, <2>1 DEF VInv, PairInv, DhtRow, IsSecond, Done, ReadingIsOfItsRow
<1>4. CASE Searching
  <2>1. beyond' = beyond
    BY <1>1, <1>4, SearchStaysInTable DEF Searching, SInv
  <2> QED
    BY <1>2, <1>4, <2>1 DEF Searching, config
<1>5. CASE \E b \in Buses, d \in Loose : PlugOrPull(b, d)
  BY <1>2, <1>5 DEF PlugOrPull, Plug, config
<1>6. CASE ~beyond /\ (ConfigureDevices \/ \E ok \in BOOLEAN : ConfigureDht(ok))
  <2>1. stage' # "polled"
    BY <1>6 DEF ConfigureDevices, ConfigureDht, NextPort
  <2>2. ~beyond' => PairInv'
    BY <1>6, ConfigureDevicesPairs, ConfigureDhtPairs
  <2> QED
    BY <1>1, <2>1, <2>2 DEF VInv, ReadingIsOfItsRow
<1>7. ASSUME NEW heard, Poll(heard)
      PROVE  VInv'
  <2>1. UNCHANGED <<port, count, pin, sensor_type>> /\ ~beyond
    BY <1>7 DEF Poll
  <2>2. PairInv'
    BY <2>1 DEF VInv, PairInv, DhtRow, IsSecond, Done
  <2> QED
    BY <1>1, <1>7, <2>1, <2>2, PollReads DEF VInv
<1>8. CASE Restart
  <2>1. /\ stage' = "call" /\ count' = 0 /\ pin' = [r \in Rows |-> Unset]
        /\ sensor_type' = [r \in Rows |-> Unset]
    BY <1>8 DEF Restart
  <2>2. \A r \in Rows : ~(r < 0)
    BY DEF Rows
  <2>3. PairInv'
    BY <2>1, <2>2 DEF PairInv, Unset
  <2> QED
    BY <1>1, <2>1, <2>3 DEF VInv, ReadingIsOfItsRow
<1>9. CASE UNCHANGED vars
  BY <1>2, <1>9 DEF vars, owiVars, allButBeyond, config
<1> QED
  BY <1>3, <1>4, <1>5, <1>6, <1>7, <1>8, <1>9 DEF Next, Boot

\* What is sent for a row is the reading of the row's own sensor, of the DHT's two rows the
\* humidity in the first: a poll reads every row once, however the sensors of the ports
\* follow each other and whatever fcnt began at (exe_sensors()).
THEOREM RowsAreSentWithTheirReading == Spec => []ReadingIsOfItsRow
<1>1. VInv => ReadingIsOfItsRow
  BY DEF VInv
<1> QED
  BY <1>1, InitVInv, NextVInv, PTL DEF Spec

-------------------------------------------------------------------------------
(* What is written behind the table. *)

\* The rows that are taken have a type.
Taken == \A r \in Rows : r < count => sensor_type[r] # Unset
OInv == OverflowHasACause /\ (~beyond => Taken)

LEMMA InitOInv == Init => OInv
<1> SUFFICES ASSUME Init PROVE OInv
  OBVIOUS
<1>1. \A r \in Rows : ~(r < 0)
  BY DEF Rows
<1> QED
  BY <1>1 DEF Init, OwiInit, OInv, OverflowHasACause, Taken

\* With a counter that began at 0 the devices that are found have room.
LEMMA ConfigureDevicesOInv ==
  ASSUME MInv, OInv, ~beyond, ConfigureDevices
  PROVE  OInv'
<1>1. /\ stage = "search" /\ step = "idle" /\ num # 0 /\ num \in 0 .. 255
      /\ Configure(count .. count + num - 1, "ds18b20") /\ count' = (count + num) % 256
      /\ count \in 0 .. MaxSensors /\ MaxSensors \in 1 .. 255 /\ bus \in Buses
      /\ numDevices = MaxSensors - count /\ (junk[bus] = 0 => num \in 0 .. numDevices)
      /\ junk' = junk
  <2>1. num \in 0 .. 255 /\ bus \in Buses
    BY DEF MInv, SInv, InTable, SearchTypeOK
  <2> QED
    BY <2>1, Sizes DEF ConfigureDevices, Returned, NextPort, MInv, SInv, CallInv, Placed
<1>2. beyond' = (beyond \/ ~(count .. count + num - 1 \subseteq Rows))
  BY <1>1 DEF Configure, Writes
<1>3. junk[bus] = 0 => count .. count + num - 1 \subseteq Rows
  BY <1>1 DEF Rows
<1>4. OverflowHasACause'
  BY <1>1, <1>2, <1>3 DEF OverflowHasACause
<1>5. ASSUME ~beyond'
      PROVE  Taken'
  <2>1. count + num - 1 \in Rows
    <3>1. count .. count + num - 1 \subseteq Rows
      BY <1>2, <1>5
    <3>2. count + num - 1 \in count .. count + num - 1
      BY <1>1
    <3> QED
      BY <3>1, <3>2
  <2>2. count' = count + num
    BY <1>1, <2>1 DEF Rows
  <2>3. \A r \in Rows : r < count + num => r < count \/ r \in count .. count + num - 1
    BY <1>1 DEF Rows
  <2>4. \A r \in Rows : sensor_type'[r] = IF r \in count .. count + num - 1 THEN "ds18b20"
                                        ELSE sensor_type[r]
    BY <1>1 DEF Configure
  <2> QED
    BY <2>2, <2>3, <2>4 DEF OInv, Taken, Unset
<1> QED
  BY <1>4, <1>5 DEF OInv

\* A DHT has none if at most one row is left.
LEMMA ConfigureDhtOInv ==
  ASSUME MInv, OInv, ~beyond, NEW ok \in BOOLEAN, ConfigureDht(ok)
  PROVE  OInv'
<1>1. /\ count \in 0 .. MaxSensors /\ MaxSensors \in 1 .. 255 /\ Ports[port] \in Buses
      /\ dht' = dht
  BY Sizes, DoneIsNotSearched DEF ConfigureDht, Returned, NextPort, MInv, SInv, Placed
<1>2. CASE ok
  <2>1. /\ Configure({count, count + 1}, "dht") /\ count' = (count + 2) % 256
        /\ dht[Ports[port]]
    BY <1>2 DEF ConfigureDht, DhtAnswers
  <2>2. beyond' = (beyond \/ ~({count, count + 1} \subseteq Rows))
    BY <2>1 DEF Configure, Writes
  <2>3. \A r \in Rows : sensor_type'[r] = IF r \in {count, count + 1} THEN "dht"
                                        ELSE sensor_type[r]
    BY <2>1 DEF Configure
  <2>4. \A r \in Rows : r < count + 2 => sensor_type'[r] # Unset
    <3>1. \A r \in Rows : r < count + 2 => r < count \/ r \in {count, count + 1}
      BY <1>1 DEF Rows
    <3> QED
      BY <2>3, <3>1 DEF OInv, Taken, Unset
  <2>5. ASSUME beyond'
        PROVE  \A r \in Rows : sensor_type'[r] # Unset
    <3>1. count \notin Rows \/ count + 1 \notin Rows
      BY <2>2, <2>5
    <3>2. \A r \in Rows : r < count + 2
      BY <1>1, <3>1 DEF Rows
    <3> QED
      BY <2>4, <3>2
  <2>6. ASSUME ~beyond'
        PROVE  count' = count + 2
    <3>1. count + 1 \in Rows
      BY <2>2, <2>6
    <3> QED
      BY <1>1, <2>1, <3>1 DEF Rows
  <2> QED
    BY <1>1, <2>1, <2>4, <2>5, <2>6 DEF OInv, OverflowHasACause, Taken
<1>3. CASE ~ok
  BY <1>3 DEF ConfigureDht, OInv, OverflowHasACause, Taken
<1> QED
  BY <1>2, <1>3

\* Of a DHT in the table the second row is in it too.
LEMMA PollStaysInTable ==
  ASSUME VInv, NEW heard, Poll(heard)
  PROVE  beyond' = beyond
<1>1. ~beyond /\ PairInv
  BY DEF Poll, VInv
<1>2. beyond' = (beyond \/
        ~({r \in 1 .. MaxSensors : IsRead(r - 1) /\ sensor_type[r - 1] = "dht"} \subseteq Rows))
  BY DEF Poll, Writes
<1>3. ASSUME NEW r \in 1 .. MaxSensors, IsRead(r - 1), sensor_type[r - 1] = "dht"
      PROVE  r \in Rows
  <2>1. r - 1 \in Rows /\ (r - 1) + 1 = r
    BY <1>3, Sizes DEF Rows
  <2>2. ~IsSecond(r - 1)
    BY <1>1, <1>3, <2>1, ReadsTheFirstRows DEF ReadRows
  <2> QED
    BY <1>1, <1>3, <2>1, <2>2 DEF PairInv, DhtRow
<1>4. {r \in 1 .. MaxSensors : IsRead(r - 1) /\ sensor_type[r - 1] = "dht"} \subseteq Rows
  BY <1>3
<1> QED
  BY <1>2, <1>4 DEF VInv, SInv, TypeOK, SearchTypeOK

LEMMA NextOInv == MInv /\ VInv /\ OInv /\ [Next]_vars => OInv'
<1> SUFFICES ASSUME MInv, VInv, OInv, [Next]_vars PROVE OInv'
  OBVIOUS
<1>1. CASE UNCHANGED <<beyond, junk, dht, count, sensor_type>>
  BY <1>1 DEF OInv, OverflowHasACause, Taken
<1>2. CASE ~beyond /\ Search
  <2>1. /\ UNCHANGED <<dht, count, sensor_type>>
        /\ beyond' = (beyond \/ ~(count .. count + Room - 1 \subseteq Rows))
    BY <1>2 DEF Search, SearchDevices, Writes
  <2>2. count .. count + Room - 1 \subseteq Rows
    BY <1>2, RoomIsLeft DEF MInv
  <2>3. ~beyond'
    BY <1>2, <2>1, <2>2
  <2> QED
    BY <1>2, <2>1, <2>3 DEF OInv, OverflowHasACause, Taken
<1>3. CASE Searching
  <2>1. beyond' = beyond
    BY <1>3, SearchStaysInTable DEF Searching, MInv, SInv
  <2> QED
    BY <1>1, <1>3, <2>1 DEF Searching, config, history
<1>4. CASE \E b \in Buses, d \in Loose : PlugOrPull(b, d)
  BY <1>1, <1>4 DEF PlugOrPull, Plug, config, history
<1>5. ASSUME NEW heard \in SUBSET Rows, Poll(heard)
      PROVE  OInv'
  BY <1>1, <1>5, PollStaysInTable DEF Poll, history
<1>6. CASE Restart
  <2>1. beyond' = FALSE /\ count' = 0 /\ \A r \in Rows : ~(r < 0)
    BY <1>6 DEF Restart, Rows
  <2> QED
    BY <2>1 DEF OInv, OverflowHasACause, Taken
<1>7. CASE UNCHANGED vars
  BY <1>1, <1>7 DEF vars, owiVars, config, history
<1> QED
  BY <1>2, <1>3, <1>4, <1>5, <1>6, <1>7, ConfigureDevicesOInv, ConfigureDhtOInv DEF Next, Boot

\* Neither the search nor a poll, nor any devices that are plugged or pulled, make the box
\* write behind the end of all_sensors: only an fcnt that did not begin at 0, or a DHT
\* behind a table that has at most one row left (search_and_configure_sensors()).
THEOREM OverflowAlwaysHasACause == Spec => []OverflowHasACause
<1>1. MInv /\ VInv /\ OInv /\ [Next]_vars => (MInv /\ VInv /\ OInv)'
  BY NextMInv, NextVInv, NextOInv
<1>2. Init => MInv /\ VInv /\ OInv
  BY InitMInv, InitVInv, InitOInv
<1>3. OInv => OverflowHasACause
  BY DEF OInv
<1> QED
  BY <1>1, <1>2, <1>3, PTL DEF Spec
===============================================================================
