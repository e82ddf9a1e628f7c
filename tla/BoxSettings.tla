------------------------------- MODULE BoxSettings ----------------------------
(***************************************************************************)
(* The box's settings in EEPROM and in RAM: the boot that reads them or    *)
(* writes the defaults, the web pages and UDP commands that change them,   *)
(* and the restarts that follow (main.c, task_config.c, protocol.c).  An   *)
(* EEPROM block is written byte by byte, and the power may go meanwhile.   *)
(* Interrupted once, a block is Mixed of two settings, or Ragged where its *)
(* bytes had never been written.                                           *)
(***************************************************************************)
EXTENDS WebPages, FormText

CONSTANTS
  RowOrder,       \* the sensor rows, in the order of their blocks
  Passwords,      \* what users type for the login
  ServerSettings, \*   for a logger
  RowSettings,    \*   for a sensor
  Addresses,      \*   for the network: of the box, mask, gateway and name server
  Macs,
  DefPassword, DefServer1, DefServer2, DefRow, DefAddresses, DefMac,
  LeasedAddresses,
  Erased, Ragged, Mixed, Unset,
  MaxRequests,    \* bound: settings changed
  MaxCuts         \* bound: interruptions of the power

Rows == ToSet(RowOrder)
Loggers == {"log1", "log2"}
Blocks == {"pass", "net"} \cup Loggers \cup Rows
\* What a user relies on: the MAC is kept when the rest of its block is not.
Items == Blocks \cup {"mac"}
Holes == {Erased, Ragged, Mixed}

ASSUME BlocksAssumption ==
  /\ RowOrder \in Seq(Rows)
  /\ Rows \cap ({"pass", "net", "mac"} \cup Loggers) = {}

DefNet == [addr |-> DefAddresses, mac |-> DefMac, dhcp |-> FALSE]
Default(b) ==
  CASE b = "pass" -> DefPassword
    [] b = "log1" -> DefServer1
    [] b = "log2" -> DefServer2
    [] b = "net"  -> DefNet
    [] OTHER      -> DefRow

\* Bytes of MPasswd, of a page handler's copy of a text, and of server_name and script_path.
PasswordSize == 15
TmpstrSize   == 25
NameSize     == 26
PathSize     == 46

\* What a block may hold: numbers of a byte or two, and texts.
Texts == Seq(STRING)
RowNames == {name \in Texts : Len(name) <= 14}
AllAddresses == [{"i", "s", "g", "d"} -> Seq(Bytes)]
Nets == [addr : AllAddresses, mac : Seq(Bytes) \cup Holes, dhcp : BOOLEAN]
Servers == [enable : BOOLEAN, server_name : Texts, script_path : Texts, port : 0..(UnsignedInts - 1),
            refresh_time : ToSet(RefreshTimes)]
SensorRows == [enable : BOOLEAN, name : RowNames, offset : Texts]
ValuesOf(b) ==
  CASE b = "pass" -> Texts
    [] b = "net" -> Nets
    [] b \in Loggers -> Servers
    [] OTHER -> SensorRows

\* What escapes are made of is characters (of a literal the provers do not know it).
ASSUME CharactersAssumption == {"%", "+", "2", "3", "A", "F", ":", "/", " ", "other"} \subseteq STRING

\* What is typed is not longer than what the handlers can take without writing over
\* the next variable, or the next logger's record.
ASSUME SettingsAssumption ==
  /\ \A b \in Blocks : Default(b) \in ValuesOf(b)
  /\ \A new \in Passwords :
       new \in Texts /\ IsPlain(new) /\ Len(UrlEncoded(new)) < TmpstrSize
  /\ \A typed \in ServerSettings :
       /\ typed \in Servers /\ IsPlain(typed.server_name) /\ IsPlain(typed.script_path)
       /\ Len(UrlEncoded(typed.server_name)) <= NameSize + PathSize
       /\ Len(typed.script_path) < PathSize
  /\ \A typed \in RowSettings : typed \in SensorRows /\ IsPlain(typed.name)
  /\ \A addr \in Addresses : addr \in AllAddresses /\ \A a \in DOMAIN addr : addr[a] # <<>>
  /\ LeasedAddresses \in AllAddresses
  /\ \A mac \in Macs : mac \in Seq(Bytes) /\ mac # <<>>
\* No setting looks like an interruption's trace, or like none.
ASSUME HolesAssumption ==
  /\ Mixed \notin {Erased, Ragged} /\ Unset \notin Holes
  /\ \A trace \in Holes \cup {Unset}, b \in Blocks : trace \notin ValuesOf(b)

VARIABLES
  phase,    \* "off"; main() at "button", "config", "password" and "lease"; "up", the
            \*   main loop; "writing"
  eeprom,   \* what each block holds
  mark,     \* is the first byte SPECIALOP?
  ram,      \* MPasswd, server_data, NetworkParam and all_sensors
  leased,   \* has DHCP replaced the addresses of NetworkParam?
  todo,     \* the blocks that are still to be written
  half,     \* is the first of them written in part?
  after,    \* the phase that follows the writing
  \* History.
  promised, \* what was saved at the user's word, and not changed since
  due,      \* what the request that is being served will have promised
  lostBy,   \* whose writing left the block of the mark without it
  requests, cuts

stable == <<eeprom, mark, promised, lostBy>>
vars == <<phase, stable, ram, leased, todo, half, after, due, requests, cuts>>

Nothing == [i \in Items |-> Unset]
Init ==
  /\ phase = "off"
  /\ eeprom = [b \in Blocks |-> Erased]
  /\ mark = FALSE
  /\ ram = [b \in Blocks |-> Unset]
  /\ leased = FALSE
  /\ todo = <<>> /\ half = FALSE /\ after = "off"
  /\ promised = Nothing /\ due = Nothing
  /\ lostBy = "new"
  /\ requests = 0 /\ cuts = 0

-------------------------------------------------------------------------------
(* Writing, a block at a time; "kind" is the function of avr-libc, by "job".    *)
(* eeprom_write_block() writes every byte, eeprom_update_block() those that     *)
(* differ.                                                                     *)

Write(b, value, job) ==
  [block |-> b, value |-> value, kind |-> IF job = "page" THEN "update" ELSE "write", job |-> job]

\* A page's password and sensor row are written in full.
WriteInFull(b, value) == [Write(b, value, "page") EXCEPT !.kind = "write"]

\* Variant: a page's save with eeprom_write_block().
NeverKeeps(w) == FALSE
Keeps(w) == w.kind = "update"
BeginBlock ==
  LET w == Head(todo) IN
  /\ phase = "writing" /\ ~half
  /\ half' = TRUE
  /\ IF Keeps(w) /\ eeprom[w.block] = w.value
       THEN UNCHANGED <<eeprom, mark, lostBy>>
       ELSE /\ eeprom' = [eeprom EXCEPT ![w.block] = IF @ \in {Erased, Ragged} THEN Ragged ELSE Mixed]
            /\ IF w.block # "net" \/ (Keeps(w) /\ mark)
                 THEN UNCHANGED <<mark, lostBy>>
                 ELSE \E kept \in BOOLEAN : mark' = kept /\ lostBy' = IF kept THEN "none" ELSE w.job
  /\ UNCHANGED <<phase, ram, leased, todo, after, promised, due, requests, cuts>>

EndBlock ==
  LET w == Head(todo) IN
  /\ phase = "writing" /\ half
  /\ half' = FALSE
  /\ todo' = Tail(todo)
  /\ eeprom' = [eeprom EXCEPT ![w.block] = w.value]
  /\ IF w.block = "net" THEN mark' = TRUE /\ lostBy' = "none" ELSE UNCHANGED <<mark, lostBy>>
  /\ IF todo' # <<>>
       THEN UNCHANGED <<phase, after, promised, due>>
       ELSE /\ phase' = after /\ after' = "off"
            /\ promised' = [i \in Items |-> IF due[i] = Unset THEN promised[i] ELSE due[i]]
            /\ due' = Nothing
  /\ UNCHANGED <<ram, leased, requests, cuts>>

-------------------------------------------------------------------------------
(* The boot.                                                                   *)

PowerOn ==
  /\ phase = "off"
  /\ phase' = "button"
  /\ UNCHANGED <<stable, ram, leased, todo, half, after, due, requests, cuts>>

\* default_network() in RAM, and its writes.
MacOf(net) == IF net \in Holes THEN net ELSE net.mac
DefaultNet(level, net) == IF level = 0 THEN DefNet ELSE [DefNet EXCEPT !.mac = MacOf(net)]
\* Variant: the block of the mark first.
MarkFirst(net) ==
  <<Write("net", net, "defaults"), Write("pass", DefPassword, "defaults"),
    Write("log1", DefServer1, "defaults"), Write("log2", DefServer2, "defaults")>>
  \o [n \in DOMAIN RowOrder |-> Write(RowOrder[n], DefRow, "defaults")]
DefaultWrites(net) ==
  <<Write("pass", DefPassword, "defaults"), Write("log1", DefServer1, "defaults"),
    Write("log2", DefServer2, "defaults"), Write("net", net, "defaults")>>
  \o [n \in DOMAIN RowOrder |-> Write(RowOrder[n], DefRow, "defaults")]
default_network(net, next) ==
  /\ ram' = [b \in Blocks |-> CASE b = "pass" -> ram[b] [] b = "net" -> net [] OTHER -> Default(b)]
  /\ todo' = DefaultWrites(net)
  /\ phase' = "writing" /\ after' = next

\* The pin of the button, held at the start: all defaults.
Button(held) ==
  /\ phase = "button"
  /\ IF held
       THEN /\ default_network(DefNet, "config")
            /\ promised' = Nothing
       ELSE /\ phase' = "config"
            /\ UNCHANGED <<ram, todo, after, promised>>
  /\ UNCHANGED <<eeprom, mark, leased, half, due, lostBy, requests, cuts>>

\* Without the mark the defaults again.  That breaks no promise where a request
\* that rewrites the mark was cut short; a page's save never is one.
MayForget == lostBy \in {"new", "defaults", "udp"}
SetConfig ==
  /\ phase = "config"
  /\ IF mark
       THEN /\ ram' = [b \in Blocks |-> IF b = "pass" THEN ram[b] ELSE eeprom[b]]
            /\ phase' = "password"
            /\ UNCHANGED <<todo, after, promised>>
       ELSE /\ default_network(DefNet, "password")
            /\ promised' = IF MayForget THEN Nothing ELSE promised
  /\ UNCHANGED <<eeprom, mark, leased, half, due, lostBy, requests, cuts>>

UsesDhcp(net) == IF net \in Holes THEN BOOLEAN ELSE {net.dhcp}
\* Variant: MPasswd is never read.
NoPassword ==
  /\ phase = "password"
  /\ \E dhcp \in UsesDhcp(ram["net"]) : phase' = IF dhcp THEN "lease" ELSE "up"
  /\ UNCHANGED <<ram, stable, leased, todo, half, after, due, requests, cuts>>
ReadPassword ==
  /\ phase = "password"
  /\ ram' = [ram EXCEPT !["pass"] = eeprom["pass"]]
  /\ \E dhcp \in UsesDhcp(ram["net"]) : phase' = IF dhcp THEN "lease" ELSE "up"
  /\ UNCHANGED <<stable, leased, todo, half, after, due, requests, cuts>>

\* dhcp_get_my_ip() replaces the addresses in RAM.
Lease ==
  /\ phase = "lease"
  /\ phase' = "up"
  /\ leased' = TRUE
  /\ ram' = [ram EXCEPT !["net"] = IF @ \in Holes THEN @ ELSE [@ EXCEPT !.addr = LeasedAddresses]]
  /\ UNCHANGED <<stable, todo, half, after, due, requests, cuts>>

\* GoApp() jumps to address 0: the C startup clears RAM as after power on.
PowerCut ==
  /\ phase # "off" /\ cuts < MaxCuts
  /\ cuts' = cuts + 1
  /\ phase' = "off"
  /\ ram' = [b \in Blocks |-> Unset]
  /\ leased' = FALSE /\ todo' = <<>> /\ half' = FALSE /\ after' = "off" /\ due' = Nothing
  /\ UNCHANGED <<stable, requests>>

GoApp ==
  /\ phase = "restart"
  /\ phase' = "button"
  /\ ram' = [b \in Blocks |-> Unset]
  /\ leased' = FALSE
  /\ UNCHANGED <<stable, todo, half, after, due, requests, cuts>>

-------------------------------------------------------------------------------
(* What a browser sends for a form, in the order of the page's fields, and what *)
(* the handlers read from it.  The fields between the settings are the session  *)
(* and the button.                                                             *)

Sid == Field(<<"s", "i", "d">>, <<"1", "0">>)
PartOfAddress == [i |-> <<"i">>, s |-> <<"s">>, g |-> <<"g">>, d |-> <<"d">>]

NetForm(net) ==
  <<Field(<<"i">>, IpText(net.addr.i)), Field(<<"m">>, UrlEncoded(MacText(net.mac))),
    Field(<<"s">>, IpText(net.addr.s)), Field(<<"g">>, IpText(net.addr.g)),
    Field(<<"d">>, IpText(net.addr.d))>>
  \o CheckBox(<<"d", "h">>, net.dhcp) \o <<Sid>>
ReadNet(form, page, old) ==
  [addr |-> [a \in DOMAIN PartOfAddress |-> data_get(findstr(form, PartOfAddress[a]), ".", 10)],
   mac  |-> IF page = "ip" THEN MacOf(old)
            ELSE data_get(urldecode(findstr(form, <<"m">>)), ":", 16),
   dhcp |-> IsOn(findstr(form, <<"d", "h">>))]

PasswordForm(new) == <<Field(<<"n", "e", "w">>, UrlEncoded(new)), Sid>>
\* The handler copies the text as it was sent, and so does the login that compares it.
ReadNewPassword(form) == findstr(form, <<"n", "e", "w">>)
\* What eeprom_write_block() takes of it; the terminator of 15 characters does not fit.
Kept(text) == IF Len(text) <= PasswordSize THEN text ELSE SubSeq(text, 1, PasswordSize)

ServerForm(server) ==
  CheckBox(<<"e", "n">>, server.enable)
  \o <<Field(<<"h", "o", "s", "t">>, UrlEncoded(server.server_name)),
       Field(<<"p", "o", "r", "t">>, DecimalText(server.port)),
       Field(<<"p", "a", "t", "h">>, UrlEncoded(server.script_path)),
       Field(<<"s", "p">>,
             DecimalText(SelectInSeq(RefreshTimes, LAMBDA t : t = server.refresh_time) - 1)), Sid>>
\* The host is stored as it was sent.  One that does not fit loses its terminator to
\* the path, which is written behind it: from then on the name goes on with the path.
NameInField(name, path) ==
  IF Len(name) < NameSize THEN name ELSE SubSeq(name, 1, NameSize) \o path
ReadServer(form) ==
  [enable       |-> IsOn(findstr(form, <<"e", "n">>)),
   server_name  |-> NameInField(findstr(form, <<"h", "o", "s", "t">>),
                                urldecode(findstr(form, <<"p", "a", "t", "h">>))),
   script_path  |-> urldecode(findstr(form, <<"p", "a", "t", "h">>)),
   port         |-> ATOI(findstr(form, <<"p", "o", "r", "t">>), 10),
   refresh_time |-> RefreshTimes[ATOI(findstr(form, <<"s", "p">>), 10) + 1]]

\* atof() reads the correction as it was printed.
RowForm(row) ==
  CheckBox(<<"e", "n">>, row.enable)
  \o <<Field(<<"n", "a">>, UrlEncoded(row.name)), Field(<<"o", "f">>, row.offset), Sid>>
ReadRow(form) ==
  [enable |-> IsOn(findstr(form, <<"e", "n">>)),
   name   |-> urldecode(findstr(form, <<"n", "a">>)),
   offset |-> findstr(form, <<"o", "f">>)]

-------------------------------------------------------------------------------
(* The requests.  Each changes RAM, then EEPROM, and is then answered.  (SETQ   *)
(* is answered before it does anything; it has promised nothing until then.)   *)

\* Items in "changed" are no longer promised; "new" is, once the request is done.
Request(changed, new, writes, next) ==
  /\ requests' = requests + 1
  /\ promised' = [i \in Items |-> IF i \in changed THEN Unset ELSE promised[i]]
  /\ due' = new
  /\ todo' = writes
  /\ phase' = "writing" /\ after' = next
  /\ UNCHANGED <<eeprom, mark, leased, half, lostBy, cuts>>

\* A text promises nothing when the place it goes to is too short for it as it is sent.
IfItFits(typed, text, size) == IF Len(UrlEncoded(text)) < size THEN typed ELSE Unset

\* Variant: MPasswd is left as it is.
SavePasswordForLater(new) ==
  LET text == ReadNewPassword(PasswordForm(new)) IN
  /\ text # <<>>
  /\ Request({"pass"}, [Nothing EXCEPT !["pass"] = IfItFits(new, new, PasswordSize)],
             <<WriteInFull("pass", Kept(text))>>, "up")
  /\ UNCHANGED ram
\* strcpy() puts the whole text into MPasswd, wherever it ends.
SavePassword(new) ==
  LET text == ReadNewPassword(PasswordForm(new)) IN
  /\ text # <<>>
  /\ Request({"pass"}, [Nothing EXCEPT !["pass"] = IfItFits(new, new, PasswordSize)],
             <<WriteInFull("pass", Kept(text))>>, "up")
  /\ ram' = [ram EXCEPT !["pass"] = text]

\* The two loggers' settings lie one behind the other.
BlockOf(l) == l
SaveLogger(l, typed) ==
  LET server == ReadServer(ServerForm(typed)) IN
  /\ Request({l}, [Nothing EXCEPT ![l] = IfItFits(typed, typed.server_name, NameSize)],
             <<Write(BlockOf(l), server, "page")>>, "up")
  /\ ram' = [ram EXCEPT ![l] = server]

SaveRow(r, typed) ==
  LET row == ReadRow(RowForm(typed)) IN
  /\ Request({r}, [Nothing EXCEPT ![r] = typed], <<WriteInFull(r, row)>>, "up")
  /\ ram' = [ram EXCEPT ![r] = row]

\* ip?, and the page pi? that no menu names, which sets the MAC too.
SaveNet(page, typed) ==
  LET net == ReadNet(NetForm(typed), page, ram["net"])
      mac == IF page = "pi" THEN typed.mac ELSE promised["mac"]
  IN
  /\ Request({"net", "mac"}, [Nothing EXCEPT !["net"] = typed, !["mac"] = mac],
             <<Write("net", net, "page")>>, "restart")
  /\ ram' = [ram EXCEPT !["net"] = net]

SETQ(addr) == \E dhcp \in UsesDhcp(ram["net"]) :
  LET net == [addr |-> addr, mac |-> MacOf(ram["net"]), dhcp |-> dhcp] IN
  /\ Request({"net", "mac"}, [Nothing EXCEPT !["net"] = net, !["mac"] = promised["mac"]],
             <<Write("net", net, "udp")>>, "restart")
  /\ ram' = [ram EXCEPT !["net"] = net]

\* R**T: the defaults, but for the MAC.
ResetToDefaults ==
  LET net == DefaultNet(1, ram["net"]) IN
  /\ Request(Items, [Nothing EXCEPT !["mac"] = promised["mac"]], DefaultWrites(net), "restart")
  /\ ram' = [b \in Blocks |-> CASE b = "pass" -> ram[b] [] b = "net" -> net [] OTHER -> Default(b)]

Requests ==
  /\ phase = "up" /\ requests < MaxRequests
  /\ \/ \E new \in Passwords : SavePassword(new)
     \/ \E l \in Loggers, typed \in ServerSettings : SaveLogger(l, typed)
     \/ \E r \in Rows, typed \in RowSettings : SaveRow(r, typed)
     \/ \E page \in {"ip", "pi"}, addr \in Addresses, mac \in Macs, dhcp \in BOOLEAN :
         SaveNet(page, [addr |-> addr, mac |-> mac, dhcp |-> dhcp])
     \/ \E addr \in Addresses : SETQ(addr)
     \/ ResetToDefaults

Next ==
  \/ PowerOn \/ (\E held \in BOOLEAN : Button(held)) \/ SetConfig \/ ReadPassword \/ Lease
  \/ BeginBlock \/ EndBlock \/ GoApp \/ PowerCut
  \/ Requests

Spec == Init /\ [][Next]_vars

-------------------------------------------------------------------------------
\* Every block holds a setting of its kind or the trace of an interruption, and
\* what is being written, promised and done next fits together.
TypeOK ==
  /\ phase \in {"off", "button", "config", "password", "lease", "up", "writing", "restart"}
  /\ \A b \in Blocks : eeprom[b] \in ValuesOf(b) \cup Holes /\ ram[b] \in ValuesOf(b) \cup Holes \cup {Unset}
  /\ mark \in BOOLEAN /\ leased \in BOOLEAN /\ half \in BOOLEAN
  /\ phase = "writing" <=> todo # <<>>
  /\ half => phase = "writing"
  /\ phase = "up" => mark /\ \A b \in Blocks : ram[b] # Unset
  /\ mark <=> lostBy = "none"

\* What a user has saved on a page, and the MAC through R**T and SETQ too, is in
\* EEPROM until the user changes it again, whatever is saved besides and whenever the
\* power goes: no save touches another block and none leaves the board without its
\* mark.  Addresses, MAC, paths, ports and rows are there as they were typed; a password
\* as a login with it is sent; a host name as the browser has encoded it, because its
\* handler does not decode it (protocol.c:2102).  Nothing is claimed of a password of
\* more than 14 characters, or a host of more than 25, in their encoding.
Holds(value, b) ==
  CASE b = "mac" -> eeprom["net"] \notin Holes /\ eeprom["net"].mac = value
    [] b = "net" -> /\ eeprom["net"] \notin Holes
                    /\ eeprom["net"].addr = value.addr /\ eeprom["net"].dhcp = value.dhcp
    [] b = "pass" -> eeprom[b] = UrlEncoded(value)
    [] b \in Loggers -> eeprom[b] = [value EXCEPT !.server_name = UrlEncoded(value.server_name)]
    [] OTHER -> eeprom[b] = value
AnsweredSaveIsDurable == \A i \in Items : promised[i] # Unset => Holds(promised[i], i)

\* In the main loop the box works with what the next start will read.  Only the
\* addresses may be the DHCP server's, and of a password longer than its 15 bytes,
\* which RAM has in full until then, the next start reads the first 15 characters
\* (protocol.c:2031-2032): a box that takes the long one today does so for another
\* text tomorrow.
RamIsWhatIsSaved ==
  phase = "up" =>
    \A b \in Blocks :
      \/ ram[b] = eeprom[b]
      \/ b = "net" /\ leased /\ ram[b].mac = eeprom[b].mac /\ ram[b].addr = LeasedAddresses
      \/ b = "pass" /\ ram[b] \notin Holes /\ Len(ram[b]) > PasswordSize /\ eeprom[b] = Kept(ram[b])

\* With its mark the board has a password and two loggers that were written to
\* their end at least once: a first start cut short begins anew.
MarkMeansWritten == mark => \A b \in {"pass"} \cup Loggers : eeprom[b] \notin {Erased, Ragged}

\* Every page fits into the frame buffer with the settings it may have to show,
\* and a logger's does as long as its host name and path are not longer than
\* NamesThatFit together (the two fields hold 25 and 45 characters).  Readings and
\* corrections are of the length that WebPages gives them.
NamesThatFit == 55
Fits(length) == length <= RoomForText
PagesFit ==
  phase = "up" =>
    /\ \A length \in {print_webpage_mainframe, print_webpage_login, print_webpage_info,
                       print_webpage_reboot, print_webpage_leftmenu, http404,
                       http200ok + TopLocation, http200ok + NewLocation,
                       print_webpage_parol_change(TRUE), print_webpage_parol_change(FALSE)} :
         Fits(length)
    /\ \A dhcp \in UsesDhcp(ram["net"]) : Fits(print_webpage_tcpip_settings(dhcp))
    /\ \A r \in Rows : ram[r] \notin Holes =>
         LET rows == [a \in 1..MAX_SENSORS |-> ram[r]] IN
         /\ \A saved \in BOOLEAN : Fits(print_webpage_sensor_config(ram[r], saved))
         /\ Fits(print_webpage_sensors_left_menu(rows)) /\ Fits(print_webpage_index(rows))
    /\ \A l \in Loggers :
         /\ ram[l] \notin Holes
         /\ Len(ram[l].server_name) + Len(ram[l].script_path) <= NamesThatFit
         => Fits(print_webpage_logger_settings(ram[l]))
===============================================================================
