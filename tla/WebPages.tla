-------------------------------- MODULE WebPages ------------------------------
(***************************************************************************)
(* How long the pages of the web server are (protocol.c).  fill_tcp_data() *)
(* puts text behind text into the one frame buffer and never asks whether  *)
(* it still fits; what a page needs depends on the settings it shows.  A   *)
(* number below is the length of a literal, in the order of the calls.     *)
(***************************************************************************)
EXTENDS Naturals, Sequences

CONSTANT BUFFER_SIZE

ASSUME BufferAssumption == BUFFER_SIZE \in Nat

MAX_SENSORS == 5
\* buf has BUFFER_SIZE + 1 bytes; behind 14 + 20 + 20 of headers begins the text.
RoomForText == BUFFER_SIZE + 1 - 54

\* The longest texts of numbers: a session, a port, an address, a MAC, a reading
\* or a correction with its two digits (as "-127.00"), its unit, a firmware
\* version with its date, days of uptime.  Bound: corrections are between -999.99
\* and 9999.99; the code takes any number (atof()) and prints it in full.
SidLength == 10
PortLength == 5
IpLength == 15
MacLength == 17
ValueLength == 7
UnitLength == 6
VersionLength == 21
DaysLength == 3

\* What the passes of a loop add.
Total(lengths) ==
  LET total[n \in 0..Len(lengths)] == IF n = 0 THEN 0 ELSE total[n - 1] + lengths[n]
  IN  total[Len(lengths)]

http200ok == 62
http404 == 54
page_header == 55
TopLocation == 68
NewLocation == 57 + IpLength + 11

input_type_text_name_2(start, name, val, end) == start + 22 + name + 8 + val + 2 + end
Checked(on) == IF on THEN 8 ELSE 0

print_webpage_mainframe ==
  http200ok + 68 + 21 + SidLength + 9 + 20 + SidLength + 9 + 32 + SidLength + 9 + 18

\* The form of ip? and pi?: address, MAC, mask, gateway and name server.
print_webpage_tcpip_settings(dhcp) ==
  http200ok + page_header + 22
  + input_type_text_name_2(5, 1, IpLength, 9) + input_type_text_name_2(0, 1, MacLength, 9)
  + input_type_text_name_2(0, 1, IpLength, 9) + input_type_text_name_2(0, 1, IpLength, 9)
  + input_type_text_name_2(0, 1, IpLength, 0)
  + 32 + Checked(dhcp) + 44 + SidLength + 59

\* The intervals a logger's page offers, in seconds, and the lengths of their names.
RefreshTimes == <<5, 30, 60, 305, 605>>
update_time  == <<2, 3, 2, 2, 3>>
\* Variant: the intervals from the chosen one on are selected.
OptionsFrom(a, chosen) ==
  14 + 1 + (IF RefreshTimes[a] >= chosen THEN 9 ELSE 0) + 1 + update_time[a] + 9
Option(a, chosen) ==
  14 + 1 + (IF RefreshTimes[a] = chosen THEN 9 ELSE 0) + 1 + update_time[a] + 9

print_webpage_logger_settings(server) ==
  http200ok + 17 + 28 + Checked(server.enable) + 32
  + input_type_text_name_2(0, 4, Len(server.server_name), 13)
  + input_type_text_name_2(12, 4, PortLength, 0)
  + input_type_text_name_2(12, 4, Len(server.script_path), 32)
  + Total([a \in 1..Len(update_time) |-> Option(a, server.refresh_time)])
  + 44 + 1 + 54 + SidLength + 8

print_webpage_login == http200ok + page_header + 105
print_webpage_parol_change(flag) ==
  http200ok + page_header + (IF flag THEN 8 ELSE 138 + SidLength + 9)
print_webpage_info == http200ok + page_header + 4 + VersionLength + 7
print_webpage_reboot == http200ok + 37 + SidLength + 11

print_webpage_sensor_config(row, saved) ==
  http200ok + page_header + 6 + (IF saved THEN 77 ELSE 0) + 17 + 7 + 16 + 36
  + Checked(row.enable)
  + input_type_text_name_2(34, 2, Len(row.name), 13)
  + input_type_text_name_2(14, 2, ValueLength, 21)
  + ValueLength + UnitLength + 18 + ValueLength + UnitLength + 34 + 1 + 35 + SidLength + 47

add_target_and_session(param, name) == 9 + param + 4 + SidLength + 11 + name + 8
print_webpage_leftmenu ==
  http200ok + page_header + add_target_and_session(3, 6) + add_target_and_session(3, 8)
  + add_target_and_session(5, 8) + add_target_and_session(5, 8)
  + add_target_and_session(4, 6) + add_target_and_session(3, 4)

\* The menu and the list of the sensors, of the rows that hold one.
MenuRow(row) == 17 + 1 + 5 + SidLength + 11 + Len(row.name) + 8
print_webpage_sensors_left_menu(rows) ==
  http200ok + page_header + 40 + Total([a \in 1..Len(rows) |-> MenuRow(rows[a])])

IndexRow(row) ==
  IF row.enable
  THEN 3 + (IF Len(row.name) < 15 THEN 15 ELSE Len(row.name)) + ValueLength + UnitLength + 4 + 2
  ELSE 0
print_webpage_index(rows) ==
  http200ok + page_header + 123 + Total([a \in 1..Len(rows) |-> IndexRow(rows[a])])
  + 62 + 8 + DaysLength + 6 + 2 + 1 + 2 + 1 + 2 + 14
===============================================================================
