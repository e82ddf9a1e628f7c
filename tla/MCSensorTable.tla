----------------------------- MODULE MCSensorTable ----------------------------
(* Two ports, of which the devices of the first have all kinds of common      *)
(* beginnings; together they are one more than the rows.  The CRC of an id is *)
(* one bit, its parity.                                                       *)
EXTENDS SensorTable
CONSTANTS p6, p7

MCPorts == <<p6, p7>>
MCValidIds == {d \in Ids : (d[1] + d[2] + d[3] + d[4]) % 2 = 0}
MCDevicesOf ==
  [b \in Buses |-> IF b = p6
                   THEN {<<0, 0, 1, 1>>, <<0, 1, 0, 1>>, <<1, 0, 0, 1>>, <<1, 0, 1, 0>>}
                   ELSE {<<0, 1, 1, 0>>, <<1, 1, 0, 0>>}]
MCLoose == {<<0, 1, 0, 1>>}
===============================================================================
