------------------------------- MODULE OwiSearch ------------------------------
(***************************************************************************)
(* The search of a 1-Wire bus, OWI_SearchDevices() and OWI_SearchRom(),    *)
(* one action for each bit of an id.  Every pass over the bus follows the  *)
(* id found last up to lastDeviation and takes the other branch there.     *)
(*                                                                         *)
(* The line is a wired AND: a read is 1 only if no device that still takes *)
(* part pulls it down, so that nobody there reads as 1 and 1.  Devices may *)
(* be plugged and pulled at any time; one that is plugged takes part from  *)
(* the next reset on.  The CRC is abstracted to the set of the ids that    *)
(* pass it, of which all zeros is one.                                     *)
(***************************************************************************)
EXTENDS Integers, FiniteSets

CONSTANTS
  Buses,
  IdBits,       \* bits of an id (64)
  DevicesOf,    \* the ids of the devices there are for each bus
  ValidIds,     \* the ids whose CRC is right
  MaxSensors,   \* rows of all_sensors (MAX_SENSORS, 5)
  FcntGarbage   \* what the uninitialised fcnt may hold

Bits == 1 .. IdBits
Ids  == [Bits -> {0, 1}]
Rows == 0 .. MaxSensors - 1
Devices == UNION {DevicesOf[b] : b \in Buses}
ZeroId == [i \in Bits |-> 0]
Failed == 255   \* OWI_ROM_SEARCH_FAILED and SEARCH_ERROR

ASSUME IdsAssumption ==
  /\ IdBits \in 1 .. Failed - 1
  /\ DevicesOf \in [Buses -> SUBSET ValidIds]
  /\ ValidIds \subseteq Ids
  /\ ZeroId \in ValidIds

ASSUME TableAssumption ==
  /\ MaxSensors \in 1 .. 255
  /\ FcntGarbage \subseteq 0 .. 255

VARIABLES
  attached,         \* the devices on each bus
  step,             \* where OWI_SearchDevices() is; "idle": not called
  bus,              \* its arguments: the pin,
  first,            \*   the row that devices points to,
  numDevices,       \*   the rows it may fill,
  num,              \*   the counter of the devices found, the caller's fcnt
  id,               \* all_sensors[].id
  beyond,           \* something was written behind the end of all_sensors
  numFoundDevices,
  lastDeviation,
  newDeviation,     \* of OWI_SearchRom()
  currentBit,
  listening,        \* the devices that still take part in this pass
  disturbed         \* history: plugged or pulled since the search began

locals == <<numFoundDevices, lastDeviation, newDeviation, currentBit, listening>>
allButBeyond == <<attached, step, bus, first, numDevices, num, id, locals, disturbed>>
owiVars == <<allButBeyond, beyond>>

NoLocals ==
  /\ numFoundDevices = 0
  /\ lastDeviation = 0
  /\ newDeviation = 0
  /\ currentBit = 1
  /\ listening = {}

OwiInit ==
  /\ attached \in [Buses -> SUBSET Devices]
  /\ \A b \in Buses : attached[b] \subseteq DevicesOf[b]
  /\ step = "idle"
  /\ bus \in Buses
  /\ first = 0
  /\ numDevices = 0
  /\ num = 0
  /\ id = [r \in Rows |-> ZeroId]
  /\ beyond = FALSE
  /\ NoLocals
  /\ disturbed = FALSE

-------------------------------------------------------------------------------
(* The bus. *)

Presence(b) == attached[b] # {}

\* A read of the bit, or of its complement, from those that still take part.
ReadBit == IF \E d \in listening : d[currentBit] = 0 THEN 0 ELSE 1
ReadComplement == IF \E d \in listening : d[currentBit] = 1 THEN 0 ELSE 1

Plug(b, d) ==
  /\ d \in DevicesOf[b]
  /\ attached' = [attached EXCEPT ![b] = IF d \in @ THEN @ \ {d} ELSE @ \cup {d}]
  /\ listening' = IF b = bus THEN listening \ {d} ELSE listening
  /\ disturbed' = (disturbed \/ (step # "idle" /\ b = bus))
  /\ UNCHANGED <<step, bus, first, numDevices, num, id, beyond, numFoundDevices, lastDeviation,
                 newDeviation, currentBit>>

-------------------------------------------------------------------------------
(* OWI_SearchDevices(): the call, and the head of its loop. *)

\* Rows of all_sensors are written.
Writes(rows) == beyond' = (beyond \/ ~(rows \subseteq Rows))

SearchDevices(b, f, n) ==
  /\ step = "idle"
  /\ step' = "pass"
  /\ bus' = b
  /\ first' = f
  /\ numDevices' = n
  /\ num' \in FcntGarbage
  /\ id' = [r \in Rows |-> IF r \in f .. f + n - 1 THEN ZeroId ELSE id[r]]
  /\ Writes(f .. f + n - 1)
  /\ disturbed' = FALSE
  /\ UNCHANGED <<attached, locals>>

NewRow == first + numFoundDevices

\* Variants of the next two and of DeviationAfter: each pass follows the first id; the
\* end of the table is seen too late; a branch left behind is forgotten.
FirstRow == first
FullBehindTheEnd == numFoundDevices > numDevices
DeviationsBehind(bit) ==
  IF bit = 0 /\ currentBit > lastDeviation THEN currentBit ELSE newDeviation

CurrentRow == IF numFoundDevices = 0 THEN first ELSE NewRow - 1

TableFull == numFoundDevices >= numDevices

\* Of the locals nothing is left.
Return ==
  /\ step' = "idle"
  /\ numFoundDevices' = 0
  /\ lastDeviation' = 0
  /\ newDeviation' = 0
  /\ currentBit' = 1
  /\ listening' = {}

\* A pass begins with the id found last.
CopyLast == id' = [id EXCEPT ![NewRow] = id[CurrentRow]] /\ Writes({NewRow})

\* No presence pulse: an error, and *num is not touched.
NobodyThere ==
  /\ step = "pass"
  /\ ~TableFull
  /\ ~Presence(bus)
  /\ CopyLast
  /\ Return
  /\ UNCHANGED <<attached, disturbed, bus, first, numDevices, num>>

BeginPass ==
  /\ step = "pass"
  /\ ~TableFull
  /\ Presence(bus)
  /\ step' = "bits"
  /\ CopyLast
  /\ newDeviation' = 0
  /\ currentBit' = 1
  /\ listening' = attached[bus]
  /\ UNCHANGED <<attached, disturbed, bus, first, numDevices, num, numFoundDevices,
                 lastDeviation>>

-------------------------------------------------------------------------------
(* OWI_SearchRom(): one bit. *)

\* A variant of the next: a failed pass takes no row.
RowsAfterFound(deviation) == numFoundDevices + IF deviation = Failed THEN 0 ELSE 1

RowsAfter(deviation) == numFoundDevices + 1

\* Each pass, failed or not, takes a row, and its result is the next lastDeviation.
EndPass(deviation) ==
  /\ step' = IF deviation = 0 THEN "crc" ELSE "pass"
  /\ lastDeviation' = deviation
  /\ numFoundDevices' = RowsAfter(deviation)

\* The bit that is followed, and written to the row.
Take(bit, deviation) ==
  /\ id' = [id EXCEPT ![NewRow][currentBit] = bit]
  /\ listening' = {d \in listening : d[currentBit] = bit}
  /\ newDeviation' = deviation
  /\ IF currentBit = IdBits
       THEN EndPass(deviation) /\ UNCHANGED currentBit
       ELSE currentBit' = currentBit + 1 /\ UNCHANGED <<step, lastDeviation, numFoundDevices>>
  /\ UNCHANGED <<attached, disturbed, bus, first, numDevices, num, beyond>>

NoAnswer ==
  /\ step = "bits"
  /\ ReadBit = 1 /\ ReadComplement = 1
  /\ EndPass(Failed)
  /\ UNCHANGED <<attached, disturbed, bus, first, numDevices, num, id, beyond, newDeviation,
                 currentBit, listening>>

SameBit ==
  /\ step = "bits"
  /\ ReadBit # ReadComplement
  /\ Take(ReadBit, newDeviation)

\* Where they differ: 1 at the last deviation, 0 behind it, before it as found last.
BranchTaken ==
  IF currentBit = lastDeviation THEN 1
  ELSE IF currentBit > lastDeviation THEN 0
  ELSE id[NewRow][currentBit]

DeviationAfter(bit) == IF bit = 0 THEN currentBit ELSE newDeviation

Conflict ==
  /\ step = "bits"
  /\ ReadBit = 0 /\ ReadComplement = 0
  /\ Take(BranchTaken, DeviationAfter(BranchTaken))

-------------------------------------------------------------------------------

\* The CRC check counts the rows up to the first whose CRC is wrong.
FoundRows == first .. first + numFoundDevices - 1
GoodRows == {r \in FoundRows : \A q \in first .. r : id[q] \in ValidIds}

CheckRoms ==
  /\ step = "crc" \/ (step = "pass" /\ TableFull)
  /\ num' = (num + Cardinality(GoodRows)) % 256
  /\ Return
  /\ UNCHANGED <<attached, disturbed, bus, first, numDevices, id, beyond>>

SearchStep ==
  NobodyThere \/ BeginPass \/ NoAnswer \/ SameBit \/ Conflict \/ CheckRoms

\* The order in which ids are found: by the first bit in which they differ.
Precedes(d, e) == \E i \in Bits : d[i] = 0 /\ e[i] = 1 /\ \A j \in 1 .. i - 1 : d[j] = e[j]

-------------------------------------------------------------------------------
(* Properties. *)

SearchTypeOK ==
  /\ attached \in [Buses -> SUBSET Devices]
  /\ step \in {"idle", "pass", "bits", "crc"}
  /\ bus \in Buses
  /\ first \in 0 .. MaxSensors
  /\ numDevices \in 0 .. MaxSensors - first
  /\ num \in 0 .. 255
  /\ id \in [Rows -> Ids]
  /\ beyond \in BOOLEAN
  /\ numFoundDevices \in 0 .. numDevices
  /\ lastDeviation \in 0 .. IdBits \cup {Failed}
  /\ newDeviation \in 0 .. IdBits
  /\ currentBit \in Bits
  /\ listening \in SUBSET Devices
  /\ disturbed \in BOOLEAN
===============================================================================
