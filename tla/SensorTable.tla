------------------------------ MODULE SensorTable -----------------------------
(***************************************************************************)
(* The table of the sensors, all_sensors: main() fills it, port after      *)
(* port, with the DS18B20s that the search finds or else with the two rows *)
(* of a DHT; exe_sensors() polls it every five seconds.                    *)
(***************************************************************************)
EXTENDS OwiSearch, Sequences

CONSTANTS
  Ports,        \* the buses in the order in which main() searches them
  Loose         \* the devices that are plugged and pulled under power

ASSUME PortsAssumption ==
  /\ Ports \in Seq(Buses) /\ Len(Ports) > 0
  /\ \A i, j \in 1 .. Len(Ports) : Ports[i] = Ports[j] => i = j
  /\ Loose \subseteq Devices
  /\ MaxSensors >= 2

VARIABLES
  dht,          \* is there a DHT at the port, instead of 1-Wire devices?
  stage,        \* of search_and_configure_sensors(); then of the main loop, "loop"
                \*   until the first poll and "polled" from it on
  port,         \* the port it is at
  count,        \* buf[0]: rows taken
  pin,          \* of the rows
  sensor_type,
  error,
  value,        \* the reading that a row's value comes from
  \* History, since the start:
  searched,     \* the devices on each bus when its search began,
  junk,         \* what fcnt held then,
  upset         \* and the buses disturbed while they were searched

config  == <<stage, port, count, pin, sensor_type>>
history == <<searched, junk, upset>>
vars    == <<owiVars, dht, config, error, value, history>>

Unset == "unset"

Reading(b, quantity, d) == [bus |-> b, quantity |-> quantity, id |-> d]
Loaded == Reading(Unset, Unset, ZeroId)   \* not read since the start

Init ==
  /\ OwiInit
  /\ dht \in [Buses -> BOOLEAN]
  /\ \A b \in Buses : dht[b] => attached[b] = {}
  /\ stage = "call"
  /\ port = 1
  /\ count = 0
  /\ pin = [r \in Rows |-> Unset]
  /\ sensor_type = [r \in Rows |-> Unset]
  /\ error = [r \in Rows |-> 0]
  /\ value = [r \in Rows |-> Loaded]
  /\ upset = {}
  /\ searched = [b \in Buses |-> {}]
  /\ junk = [b \in Buses |-> 0]

\* What ReadDHT() and DS18B20_ReadTemperature_Fast_Float() return if nothing disturbs
\* the transmission.
DhtAnswers(b) == dht[b]
DsAnswers(b, d) == d \in attached[b]

-------------------------------------------------------------------------------
(* search_and_configure_sensors(). *)

\* A variant of the next: the rows already taken are not subtracted.
WholeTable == MaxSensors

Room == (MaxSensors - count) % 256

Search ==
  /\ stage = "call"
  /\ stage' = "search"
  /\ SearchDevices(Ports[port], count, Room)
  /\ searched' = [searched EXCEPT ![Ports[port]] = attached[Ports[port]]]
  /\ junk' = [junk EXCEPT ![Ports[port]] = num']
  /\ UNCHANGED <<dht, port, count, pin, sensor_type, error, value, upset>>

Searching ==
  /\ stage = "search"
  /\ SearchStep
  /\ UNCHANGED <<dht, config, error, value, history>>

\* The rows that are about to be configured as sensors of the port.
Configure(rows, type) ==
  /\ pin' = [r \in Rows |-> IF r \in rows THEN Ports[port] ELSE pin[r]]
  /\ sensor_type' = [r \in Rows |-> IF r \in rows THEN type ELSE sensor_type[r]]
  /\ Writes(rows)

NextPort ==
  /\ port' = port + 1
  /\ stage' = IF port = Len(Ports) THEN "loop" ELSE "call"
  /\ upset' = IF disturbed THEN upset \cup {Ports[port]} ELSE upset
  /\ UNCHANGED <<allButBeyond, dht, error, value, searched, junk>>

Returned == stage = "search" /\ step = "idle"

ConfigureDevices ==
  /\ Returned
  /\ num # 0
  /\ Configure(count .. count + num - 1, "ds18b20")
  /\ count' = (count + num) % 256
  /\ NextPort

\* Without a DS18B20, a DHT is looked for; ok: the second ReadDHT() succeeds.
ConfigureDht(ok) ==
  /\ Returned
  /\ num = 0
  /\ ok => DhtAnswers(Ports[port])
  /\ IF ok
       THEN Configure({count, count + 1}, "dht") /\ count' = (count + 2) % 256
       ELSE UNCHANGED <<pin, sensor_type, beyond, count>>
  /\ NextPort

-------------------------------------------------------------------------------
(* exe_sensors(), the loop over the rows. *)

\* A variant of the next: the second row of a DHT is not skipped.
EveryRowIsRead(r) == TRUE

\* Row r is read by itself, not as the second row of the DHT before it.
IsRead(r) ==
  LET read[q \in Rows] == q = 0 \/ ~(read[q - 1] /\ sensor_type[q - 1] = "dht")
  IN  read[r]

\* heard: the rows whose sensor answers without an error of transmission.
Succeeds(r, heard) ==
  /\ r \in heard
  /\ IF sensor_type[r] = "dht" THEN DhtAnswers(pin[r]) ELSE DsAnswers(pin[r], id[r])

Poll(heard) ==
  /\ stage \in {"loop", "polled"} /\ ~beyond
  /\ stage' = "polled"
  /\ LET isDs(r)   == IsRead(r) /\ sensor_type[r] = "ds18b20"
         isHum(r)  == IsRead(r) /\ sensor_type[r] = "dht"
         isTerm(r) == r > 0 /\ isHum(r - 1)
         error2(r) == IF Succeeds(r, heard) THEN 0 ELSE 1
     IN  /\ error' = [r \in Rows |->
              IF isTerm(r) THEN error2(r - 1)
              ELSE IF isDs(r) \/ isHum(r) THEN error2(r) ELSE error[r]]
         /\ value' = [r \in Rows |->
              IF isTerm(r) /\ Succeeds(r - 1, heard)
                THEN Reading(pin[r - 1], "temperature", ZeroId)
              ELSE IF isHum(r) /\ Succeeds(r, heard) THEN Reading(pin[r], "humidity", ZeroId)
              ELSE IF isDs(r) /\ Succeeds(r, heard) THEN Reading(pin[r], "temperature", id[r])
              ELSE value[r]]
         /\ Writes({r \in 1 .. MaxSensors : isHum(r - 1)})
  /\ UNCHANGED <<allButBeyond, dht, port, count, pin, sensor_type, history>>

-------------------------------------------------------------------------------

PlugOrPull(b, d) ==
  /\ ~dht[b] /\ ~beyond
  /\ Plug(b, d)
  /\ UNCHANGED <<dht, config, error, value, history>>

\* The box starts again and loads the rows as they were saved, or the defaults: all of
\* their values count as Loaded, and none has an error, which would hide it.  main()
\* clears the types (main.c:140); what else is loaded is overwritten before it is used.
\* Of a start during the search nothing else is left.  Bound: what a write behind the
\* table does to the RAM there is not followed; of such a box comes the next start.
Restart ==
  /\ stage \in {"loop", "polled"} \/ (stage = "call" /\ beyond)
  /\ stage' = "call"
  /\ port' = 1
  /\ count' = 0
  /\ pin' = [r \in Rows |-> Unset]
  /\ sensor_type' = [r \in Rows |-> Unset]
  /\ error' = [r \in Rows |-> 0]
  /\ value' = [r \in Rows |-> Loaded]
  /\ beyond' = FALSE
  /\ upset' = {}
  /\ id' = [r \in Rows |-> ZeroId]
  /\ num' = 0
  /\ searched' = [b \in Buses |-> {}]
  /\ junk' = [b \in Buses |-> 0]
  /\ UNCHANGED <<attached, disturbed, step, bus, first, numDevices, locals, dht>>

Boot ==
  /\ ~beyond
  /\ \/ Search
     \/ Searching
     \/ ConfigureDevices
     \/ \E ok \in BOOLEAN : ConfigureDht(ok)

Next ==
  \/ Boot
  \/ \E heard \in SUBSET Rows : Poll(heard)
  \/ \E b \in Buses, d \in Loose : PlugOrPull(b, d)
  \/ Restart

\* The boot does not wait for anything.
Spec == Init /\ [][Next]_vars /\ WF_vars(Boot)

-------------------------------------------------------------------------------
(* Properties. *)

TypeOK ==
  /\ SearchTypeOK
  /\ dht \in [Buses -> BOOLEAN]
  /\ stage \in {"call", "search", "loop", "polled"}
  /\ port \in 1 .. Len(Ports) + 1
  /\ count \in 0 .. 255
  /\ pin \in [Rows -> Buses \cup {Unset}]
  /\ sensor_type \in [Rows -> {Unset, "ds18b20", "dht"}]
  /\ error \in [Rows -> {0, 1}]
  /\ value \in [Rows -> [bus : Buses \cup {Unset}, id : Ids,
                        quantity : {"temperature", "humidity", Unset}]]
  /\ searched \in [Buses -> SUBSET Devices]
  /\ junk \in [Buses -> 0 .. 255]
  /\ upset \subseteq Buses

\* "all the sensors" have their row in all_sensors (term.h:61); the search stops at
\* its end since a "bug fix" (OWIHighLevelFunctions.c:289), and no other row is
\* written behind it either.
NoRowBeyondTable == ~beyond

\* Two things alone make the box write behind the table: an fcnt that did not begin at 0
\* (it is never set, protocol.c:268-270) and the second row of a DHT, which nobody compares
\* with MAX_SENSORS, when the rows before it are taken (protocol.c:286-292).
OverflowHasACause ==
  beyond => \/ \E b \in Buses : junk[b] # 0
            \/ (\E b \in Buses : dht[b]) /\ \A r \in Rows : sensor_type[r] # Unset

RowsOf(b) == {r \in Rows : sensor_type[r] = "ds18b20" /\ pin[r] = b}

\* A search that nobody disturbs and whose fcnt begins at 0 gives each device of the bus
\* one row, in the order of the ids, as far as the table goes, whatever fcnt begins at for
\* other buses (OWIHighLevelFunctions.c:156-316, protocol.c:265-301).  Names and
\* corrections are saved by row: they stay with their sensor over a restart because this
\* order depends on nothing else.
TableMatchesBuses ==
  stage \in {"loop", "polled"} /\ ~beyond =>
    \A b \in Buses \ upset : junk[b] = 0 =>
      LET rows  == RowsOf(b)
          given == {id[r] : r \in rows}
      IN  /\ given \subseteq searched[b]
          /\ \A q, r \in rows : q < r => Precedes(id[q], id[r])
          /\ \A d \in searched[b] \ given :
               count = MaxSensors /\ \A r \in rows : Precedes(id[r], d)

\* From the first poll on, a row that is sent to a logger, one with a type and without
\* an error (protocol.c:1752-1755), has the reading of its own sensor and never one
\* that was saved when the row was another's; of a DHT's rows the first is the
\* humidity (protocol.c:978-1004).
IsSent(r) == sensor_type[r] # Unset /\ error[r] = 0

ReadingIsOfItsRow ==
  stage = "polled" =>
    \A r \in Rows : IsSent(r) =>
      value[r] = IF sensor_type[r] = "ds18b20" THEN Reading(pin[r], "temperature", id[r])
                 ELSE IF \E q \in 0 .. r - 1 : pin[q] = pin[r]
                   THEN Reading(pin[r], "temperature", ZeroId)
                 ELSE Reading(pin[r], "humidity", ZeroId)

\* Whatever is plugged or pulled during the search, it ends: every pass takes a row.
SearchEnds == stage \in {"call", "search"} ~> stage \in {"loop", "polled"} \/ beyond

\* The ids found so far, and the order they are found in.
FoundSoFar ==
  IF step = "idle" THEN <<>> ELSE [i \in 1 .. numFoundDevices |-> id[first + i - 1]]
SearchOrder == {pair \in Ids \X Ids : Precedes(pair[1], pair[2])}

\* The search keeps its promise.
Promise ==
  INSTANCE BusSearch WITH
    Order     <- SearchOrder,
    searching <- step # "idle",
    devices   <- attached[bus],
    room      <- numDevices,
    found     <- FoundSoFar
KeepsPromise == Promise!Spec
===============================================================================
