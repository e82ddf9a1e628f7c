# A TLA+ model of the WebMeteoBox-Mini firmware

WebMeteoBox-Mini is a weather box: an ATmega with an ENC28J60 Ethernet chip,
1-Wire and DHT sensors, a small web server for its settings and two "data
loggers" that POST the readings to servers on the Internet. The program is
about 7800 lines of C in `src/WebMeteoBox3/Source`, without an operating
system: `main()` starts the parts, waits for a DHCP lease and then calls
`process_http_server()` and `exe_sensors()` alternately, for ever. Three
interrupts run between the instructions of that loop: the 10 ms timer, the
timer of the LED display and the watchdog (2 s). The repository has no tests.

What is modelled is the build of `protocol.h` at this commit: Ethernet, DHCP or
fixed address, the two loggers (`ADD_LOGGER_2`), the UDP configurator,
`REBOOT_AFTER` 1. Relays, radio, pressure sensor, current clamp, dosimeter and
the JSON page are compiled out of it.

## Inventory

| component | state it keeps | operations | modelled in |
|---|---|---|---|
| data loggers (`protocol.c`, `process_http_server`) | `Wt0/1`, `TimeWt0/1`, `dns_state`, `otherside_www_ip`, `start_web_client`, `sec`, `reboot_counter`, `xbuf` | one call per iteration of the main loop | `LoggerUplink`, `LoggerUplinkLive` |
| timer interrupt (`protocol.c`, `TIMER0_COMPA`) | `sec`, `sec_cnt`, the soft timers, `dhcp_6sec_cnt` | a tick every 10 ms | `LoggerUplink` (`Tick`), `DhcpClient` (`Tick6`) |
| TCP client, ARP resolver, packet loop (`ip_arp_udp_tcp.c`) | `tcp_client_state`, `tcp_otherside_ip`, pointers to the POST's text buffers, `arpip_state` | a frame; an idle call | `LoggerUplink` |
| DNS resolver (`dnslkup.c`) | tid, answer | request, answer | `LoggerUplink` |
| DHCP client (`dhcp_client.c`) | tid, offered address, server, lease, counters | boot loop, renewal | `DhcpClient` |
| ping and web server of the packet loop (`ip_arp_udp_tcp.c`) | `seqnum`; nothing of a connection | a SYN, a request, a FIN, a ping | `WebServer` |
| Ethernet driver (`enc28j60.c`) | ring pointer, copy of the bank, filters, link | init, send, receive | `EthRegisters`, `EthChip`; length limit and broadcast filter in `DhcpClient`, link and reset in `LoggerUplink` too |
| pages, login (`protocol.c`) | `sessionid`, `Time_ms`, settings in RAM | GET | `WebServer` (session, restarts), `WebPages` (lengths), `FormText` and `BoxSettings` (forms); their effect on the loggers in `LoggerUplink` |
| configuration (`task_config.c`) | EEPROM blocks and their validity mark | load, save, default | `BoxSettings` |
| UDP configurator (`protocol.c`) | none | SRCH, SETQ, R\*\*T | `LoggerUplink` (`UdpSearch`, `Restart`), `BoxSettings` (`SETQ`, `ResetToDefaults`) |
| 1-Wire search (`OWI*.c`, `term.c`) | ROM bits, last deviation | search, read | `OwiSearch`, with `BusSearch` as its abstract specification |
| sensor table, polling (`protocol.c`) | `all_sensors`, `Tr0` | configure at the start, poll | `SensorTable`; the poll's timer and the chip's reset are in `LoggerUplink` |
| DHT (`DHT.c`) | pulse timing | read | whether it answers, in `SensorTable` |
| LED display | `LCD_BUF` | show | not modelled |

How they interact:

* The loop and the interrupt share the soft timers and `sec`, without locks:
  the interrupt only counts, the loop clears.
* The two loggers share one lookup, one web client, one text buffer and one
  seconds counter. Nothing in these says whose they are; `current_logger` is
  computed anew in every iteration.
* The web client hands *pointers* to `client_http_post()`; the TCP client follows
  them when the server's SYN-ACK comes, iterations later, and calls back into
  the loggers (`browserresult_callback`).
* Pages and the configurator write the settings that the loggers read, and
  their texts go through `xbuf`, which also holds the body of a pending POST.
* `exe_sensors()` resets the Ethernet chip when `reboot_counter` says that the
  loggers get no answers.
* The DHCP client takes over the packet loop before the main loop starts, and
  sees every frame after that.
* The driver and the chip share the receive ring, the bank register and the
  transmit buffer; the chip goes on receiving and sending between any two
  accesses of the driver.
* The web server answers in the buffer that holds the request: numbers, ports
  and addresses of an answer are those of the frame it answers.

What makes each of them correct, and hard:

* *Loggers*: a POST leaves with the readings (it need not: `UplinkBody`) and to an
  address that was looked up (of which logger the code does not say: see Runs); an
  answer is taken for the question it answers; POSTs do not overlap; lookups are not
  repeated too soon; the uplink never wedges, whatever is lost; a dead uplink leads to
  a reset of the chip.
  (Interleaving of two loggers, pages and late answers; timeouts that share one
  counter of eight bits.)
* *DHCP*: a box runs with the address acknowledged to it and no two boxes run with
  the same; the lease is renewed before it ends; a box whose messages are lost
  asks again. (Loss, delay and duplication; several boxes on one LAN.)
* *Driver*: every frame that was received is read once, whole and in order; every
  access reaches the register of its own bank; what goes out is one packet. (The
  chip runs beside the program; the program restarts without it, and it is reset
  without the program.)
* *Configuration*: a configuration that counts as valid is one that was saved, and
  what a page has answered is there after every start. (Power loss between two
  writes or inside of one; settings kept twice, in RAM and EEPROM; texts that are
  printed into a form and read back from it.)
* *Web server*: an answer fits the connection it is for, although none is kept; a page
  restarts the box only for the number of a login since the last start (SETQ and R\*\*T
  restart it without any login); every request of a page is answered.
  (Segments repeated, late, reordered, also from before a restart.)
* *1-Wire and sensor table*: every device on the bus is found once; rows are written
  beyond the table only for the two reasons that `Sensors` names; a row shows its own
  sensor; the search ends whatever is plugged or pulled meanwhile.

The hazards, each at its line, are in `PROJECT.json`.

## Modules

| module | what it is |
|---|---|
| `LoggerUplink` | the two loggers, lookup, web client, gateway, seconds counter |
| `LoggerUplinkLive` | the same between two restarts, with the scheduling the firmware gives it |
| `LoggerUplinkProofs` | theorems about `LoggerUplink`, for every value of the constants |
| `DhcpClient` | the DHCP clients of the boxes on one LAN, with their servers |
| `DhcpClientProofs` | theorems about `DhcpClient` |
| `BusSearch` | what a search of a 1-Wire bus promises |
| `OwiSearch` | the search, bit by bit, on a bus with devices that come and go |
| `SensorTable` | `OwiSearch`, and the table that the start fills port after port and the poll reads |
| `SensorTableProofs` | theorems about `SensorTable`, and that its search implements `BusSearch` |
| `EthRegisters` | the banks of the chip's registers, and which of them the driver's functions use |
| `EthChip` | the driver, and the chip beside it: ring, transmitter, resets |
| `EthChipProofs` | theorems about `EthChip` |
| `WebPages` | how long every page is, by the settings it shows |
| `FormText` | the texts of addresses and forms, printed, encoded and read back |
| `BoxSettings` | settings in EEPROM and RAM: the boot, saves, resets, power cuts |
| `CountingProofs` | facts that several proofs need: first numbers, intervals, functions defined by recursion |
| `FormTextProofs` | what `FormText` prints, the browser encodes and the handlers read is what was printed |
| `BoxSettingsProofs` | theorems about `BoxSettings`, with what each form's handler reads |
| `WebServer` | the web server without connections, its session, browsers and a network |
| `WebServerProofs` | theorems about `WebServer` |
| `MCLoggerSettings`, `MCLoggerUplink`, `MCLoggerUplinkLive`, `MCDhcpClient`, `MCSensorTable`, `MCEthChip`, `MCBoxSettings`, `MCWebServer` | values of the constants for TLC |

`EthChip` extends `EthRegisters`; `BoxSettings` extends `WebPages` and `FormText`;
`WebServer` extends `WebPages`; `SensorTable` extends `OwiSearch`. The modules that
model one loop from two sides do not import each other: `LoggerUplink` sees a page as
a frame that spoils `xbuf`, `WebServer` sees what it answers, `BoxSettings` what it
saves. Each keeps the whole of the handler's effect on its own state.

### LoggerUplink

One call of `process_http_server()` is one action; `pc` makes it alternate with
`PollSensors` (`exe_sensors()`), and `Tick` (the interrupt) may come between any
two. A call that received no frame is one of `NothingToPost`, `RequestLookup`,
`AwaitLookup`, `Post` and `AwaitCallback`: the five ways through
`protocol.c:1685-1783`. Their common parts are operators: `GatewayStage` for
lines 1657-1683, `RearmDisabled` for the timers of disabled loggers,
`Current`, `PostFlag`, `Resolved`, `Destination` for what the nested
conditions compute. A call that received a frame is `GatewayAnswers`,
`DnsAnswers`, `Segment`, `UdpSearch`, `WebPage`, `SaveLogger`, `OtherRequest` or
`OtherFrame`. `Segment(s, own)` is the TCP client's whole branch for a segment
of kind `s`; `own` says whether the bits that the client compares in the
port are those of its last POST. `Restart` is every way to start again.

`DnsAnswers(t)` is an answer to the last request that had the number `t`; `Accepts` is
the comparison of that number (`dnslkup.c:159`), the only one that the code makes, so
that the address taken is that of the answered question and not of the one asked.
`questions` keeps, like the network, what was asked with each number, also over a
restart; `tid` is `dnstid_l`. `RequestLookup(up, still)` has both looks at the link:
the logger's, and `dnslkup_request()`'s own, after which nothing may have been sent.

Texts are abstracted to what the properties tell apart: `xbuf` holds the
"readings" or "other" text, an address is the host it belongs to, `sent` is
what the iteration put on the wire. The history variables `exclusive` and
`lookupAge` count the ticks for which a POST owns the client and for which a
lookup must not be repeated, `asked` is the host whose lookup is under way; no guard
reads them.

The network is arbitrary: any frame may come in any iteration, any number of
times or never, and the link may be down in any. The calls are atomic: the
interrupt only changes timers and `sec`, which a call reads once (`sec`) or
compares with 0.

### DhcpClient

`phase` is the loop a box is in: "boot" for `main.c:236`, "run" for the main
loop. An iteration of the boot loop is `BootDelay`, `FirstDiscover`,
`RetryDiscover`, `TakeOffer`, `TakeAck` or `BootIgnores`; one of the main loop is
`RunIdle`, `Renew` or `RunReceives`. `Tick6` is `dhcp_6sec_tick()`; the six
seconds allow at most `IterPerTick` iterations of the boot loop (each sleeps
100 ms in `leddebugsignal(1)`) and at least one. `asked` is all that the boxes
sent and servers may still answer: `Replies` derives every answer from it, so
answers may be lost, repeated and arbitrarily late, and a box that has
broadcasts enabled hears the answers for other boxes too. An answer is told by
`ForMe` (the one byte TID, all that the code compares) and `Readable` (what
the receive limit leaves of a frame). The servers are external: their `Terms`
are a constant.

`acked`, `leaseLeft` and `renewAge` are history: the address of the ACK taken,
what is left of the lease, the time for which a renewal must not be repeated.

### BusSearch, OwiSearch, SensorTable

`OwiSearch` has one action for each bit of an id, because devices may be plugged
and pulled between any two (`Plug`). `step` says where `OWI_SearchDevices()` is:
"pass" is the head of its loop (`NobodyThere`, `BeginPass`), "bits" is inside
`OWI_SearchRom()` (`NoAnswer`, `SameBit`, `Conflict`: its three branches), "crc"
the loop at its end (`CheckRoms`). The line is a wired AND, so a bit and its
complement are computed from the devices that still take part in the pass
(`listening`). `lastDeviation` may be 255, the code of an error, as in the source.
Local variables are set back when the function returns, which hides no behaviour
and saves states. A CRC is a set of ids, `ValidIds`; all zeros is in it.

`SensorTable` extends it by `search_and_configure_sensors()` (`Search`,
`Searching`, `ConfigureDevices`, `ConfigureDht`), called for one port after the
other, the poll of all rows (`Poll`; `heard` are the rows whose transmission goes
well) and a restart. A value is abstracted to the `Reading` it comes from. What
the settings load into the rows is `Loaded`; the main loop polls before it can
send (the first lookup takes more than one iteration), so claims about what is sent
begin at the first poll. `beyond` records a write behind the end of the table, which
comes in two ways: a DHT whose second row nobody counts, and `fcnt`, which the search
counts up from whatever it holds (`FcntGarbage`). What such a write does to the RAM
there is not followed: the model goes on with the next start. `searched`, `junk`,
`upset` and `disturbed` are history: the devices there at the beginning of a search,
what `fcnt` held then, and whether it was left alone.

`BusSearch` knows no bits and no deviations: it holds the devices, the room and
what has been found, and each step finds the first of the remaining devices. A
pass of `OwiSearch` implements that step at its last bit, every other step of a
pass stutters. `KeepsPromise` checks it.

### EthRegisters, EthChip

`EthRegisters` says in which bank a register is, what `enc28j60SetBank()` does, and
which registers each function of the driver uses in which order; `Accesses` follows
such a list. An access by `enc28j60WriteOp()` without a bank (`Direct`) relies on the
bank selected before; `astray` tells that it was another's.

`EthChip` has the chip's own actions (`ReceiveFrame`, `TransmitHalf`,
`TransmitEnd`, `TransmitError`) between any two steps of the driver. `pc` is the step
of `enc28j60PacketReceive()` that is next: `Poll` (the count), `ReadHeader`,
`ReadBody`, `Release` (`ERXRDPT`), `CountDown` (`PKTDEC`). `Send` is
`enc28j60PacketSend()` from the end of its wait to the request to transmit. `InitChip`
is the reset, at the start and whenever the link is found down; `Restart` is a
restart of the program, which does not reset the chip. `mem` holds for each word of
the ring the frame it belongs to, so that a header or a body that was overwritten is
seen as such: what the driver then reads is a choice (`JunkPointers`). The chip is
external; that it stores a frame if it fits into the room between its pointers is the
data sheet's, and with `ERXRDPT` outside of the ring, of which the data sheet says
nothing, it may store any. `frames`, `taken`, `delivered` and `smashed` are history.

### WebPages, FormText, BoxSettings

`WebPages` adds up the literals that a page's function hands to `fill_tcp_data()`, in
their order, and the longest texts of what it prints between them.

`FormText` translates `ATOI()`, `data_get()`, `urldecode()`, `findstr()`, the printing of
addresses and the fields of a form; texts are sequences of characters, because the property is
about them: a setting goes through the page's text, the browser's encoding and the
handler's reading before it is saved. Not every handler decodes: paths and names are
decoded, a password and a host are stored as the browser has encoded them
(`protocol.c:2026`, 2102). For a password that does no harm, because the login compares
what is encoded in the same way; a host with an escaped character is stored as another
name.

`BoxSettings` follows `main()` through `phase`: the button at the start (`Button`),
`set_config()` (`SetConfig`), the password (`ReadPassword`), DHCP (`Lease`), the main
loop ("up"). Each request changes `ram` and lists the blocks that it writes in `todo`;
`BeginBlock` and `EndBlock` write one, between them the block is `Mixed` or `Ragged`,
and the first byte of "net", the mark, is set, kept or gone. `eeprom_update_block()`
skips bytes that are the same, `eeprom_write_block()` does not: `kind` tells which is
called. `PowerCut` may come anywhere. `promised` (history) is what was saved at the
user's word and answered, unless its text did not fit (`IfItFits`).

Sizes of the places are part of it. `SavePassword` writes at most the first
`PasswordSize` 15 characters of the encoded text to EEPROM (`Kept`), while `strcpy()` puts
all of it into RAM: 14 typed characters, of which one is a `:` or a `/`, have 16 or more.
Such a box wants the whole text until it restarts, and after that its first 15
characters with whatever follows `MPasswd`; the model follows the settings and not what
lies behind `MPasswd`. A password of less than four encoded characters is saved too, and locks
its user out, as the login wants more than three (`protocol.c:1850`). A host of more than
25 loses its end to the path behind it (`NameInField`).

### WebServer

`HandleSyn`, `HandleFin` and `HandleGet` are the branches of
`packetloop_arp_icmp_tcp()` and `process_http_server()` for the server's port; the
disjuncts of `HandleGet` are the pages, told apart by what they do to the session and
the box. Answers are made by `make_tcphead()` and its callers from the segment that
is answered. `SessionAt` is the number that `lg` makes of `Time_ms`, a product of which
32 bits are kept (numbers of 32 bits are pairs of words); `Accepts` is the check of it,
which is `strstr()` on the request's text. `Reboot` answers and then restarts, for
`reb?yes` and for Save on the network's pages; `PowerCut` is every other restart, those
by UDP commands included, which need no login. `ClientSyn` is the box's own client, which
takes its numbers from the same `seqnum`.

Browsers and the network are external: a segment that was sent may arrive any number
of times, at any later moment, in any order, or never, because `net` keeps it; `Lose`
takes away an answer that is waited for. A browser takes the first SYN-ACK, sends its
request, takes an acknowledgement and the page, and sends its FIN. `login` (the text that
the last login since the start showed), `restarted` (the session text that the last step
restarted the box for) and `echo` are history.

## Runs

| run | question | result |
|---|---|---|
| `Uplink` | do the two loggers keep POSTs apart, lookups spaced and routed, every counter in its width? | holds, 1 661 829 states |
| `UplinkLive` | does the uplink make progress, does a dead one reset the chip, is no late answer taken for another's? | holds, 513 552 states |
| `UplinkBody` | is the body of a POST what it was asked for with? | violated: a page or SRCH before the SYN-ACK replaces it |
| `Dhcp` | one box, one server: right address, lease renewed in time, renewals spaced, address obtained in the end? | holds, 49 052 states |
| `DhcpBoxes` | do two boxes switched on together get two addresses? | violated: both ask with TID 1 |
| `DhcpRetry` | does a box ask until it has an address? | violated: an OFFER ends the retries, also when the ACK never comes |
| `DhcpRenew` | is the answer to a renewal taken? | violated: it is longer than the receive limit |
| `Sensors` | does the search find every device once and in order and end, do rows show their own sensor, and leave the table only for one of the two known reasons? | holds, 361 202 states |
| `SensorsDht` | do all rows lie in the table when a DHT comes after four DS18B20? | violated: its second row is `all_sensors[5]` |
| `Chip` | are frames taken once, whole, in order and all of them, registers reached in their bank, packets sent whole? | holds, 236 135 states |
| `Settings` | is what was saved there after every start, RAM what is in EEPROM, a marked board complete, does every page fit? | holds, 140 218 states |
| `Web` | do answers fit their connections, restarts need a login, pings check out, is every request answered? | holds, 265 807 states |

Each violated property quotes the line of the source or of its comments that
it comes from; the findings in `PROJECT.json` tell the counterexamples in the
terms of the code. Where the code does something that nothing in the repository says
it should not, there is no such run; the properties then say how far they reach, and
the notes of the hazards in `PROJECT.json` tell the rest:

* The loggers share one lookup: a logger that falls due while the other's lookup is
  out posts, with its own `Host` line, to the address of the other's
  (`protocol.c:1687`). With both timers run out, a POST is made for the second
  logger also when it is disabled (1689). An answered POST counts as a failure when
  no logger is due before the timeout has passed (1776).
* A lookup whose request was not sent, because the link dropped between the two looks
  at it, has the number of the one before, and takes its late answer
  (`LookupAnswersItsQuestion` excepts it).
* A password or a host that does not fit into its place as it is encoded is not what is
  read after the next start (`AnsweredSaveIsDurable`, `RamIsWhatIsSaved`).
* The text of a session from before a restart is accepted if the digits of the present
  number are a part of it (`protocol.c:1945`): `RestartsNeedALogin` says "shows", and
  `Web` has two such sessions.
* `fcnt` is never set (`protocol.c:268-270`): where it holds garbage, rows that nobody
  found are configured, and rows behind the table written (`OverflowHasACause`;
  `TableMatchesBuses` is about the buses for which it held 0).
* A logger's page with a host name and a path of 56 characters or more together does
  not fit into the frame buffer (`PagesFit` claims it up to `NamesThatFit`).
* `ERXRDPT` is released to 0x1FFF, outside of the ring, when a frame ends at the ring's
  end; then, and only then, the chip may overwrite frames that were not taken
  (`OverwritesOnlyWhenAstray`).
* A power cut during SETQ or R\*\*T leaves the board without its mark and so with the
  defaults (`MayForget`); one during a page's save does not.
* A ping's answer has a wrong checksum for one in 8192 checksums (`PongsCheckOut`
  names them). A page that is lost is not sent again, and a request with the right
  session for a page that there is not is never answered (`AskedIsAcked`).

### Bounds

* Times are scaled, their order is the code's: a POST waits fewer seconds than
  `sec` can count, a lookup waits longer than that or as long and wraps
  neither. `Uplink` has `TicksPerSec` 2, so that `sec` can be cleared in the
  middle of a second, `SecMod` 3, so that it wraps, and `RebootMod` 2, so that
  `reboot_counter` wraps too. The proofs hold for the code's 100, 8, 60 and 256.
* The loggers' refresh times are 0: a timer that was started still runs for one
  tick at least, and every longer wait is a number of ticks in which
  nothing falls due.
* `UplinkLive` has DNS numbers modulo 2 (the code's 256), so that the answer to the other
  logger's question may come late and the numbers turn over; it has no restarts. `Uplink`
  has restarts and `TidMod` 1, where no answer is late: the number only matters to
  `LookupAnswersItsQuestion`, which the theorem has with both. In every model an
  answer can come as long as its number was not given again: later by 256 requests it
  would be taken by the code, and so would one from before a restart whose number
  was given again since. That is left out.
* Three hosts: two names and a dotted address. The second logger can be given
  another host and be switched off at any time; the first posts to its name.
* `Dhcp` uses the code's 6 s counter limits (5 and 8 ticks), receive limits and
  message length; `CntMod` 16 still exceeds both limits by enough to show that
  the counter never wraps, `TidMod` 3 lets the TID wrap. The boot delay is 20
  instead of 0x5fff iterations, and `IterPerTick` is 2 instead of 60: as
  in the code (0x5fff / 60 = 409 ticks) the first retry comes long before the
  delay ends. Leases are 29 and 70 ticks (174 s and 420 s) or without end: the
  code rounds leases under 320 s up to five minutes, and those shorter than 174 s do
  run out.
* `asked` needs no bound: it is a set over the TIDs.
* `Sensors` has ids of 4 bits instead of 64 and the code's five rows and two ports.
  Of the six ids that pass the (one bit) CRC and are not zero, four are on the first port
  (two pairs, with common beginnings of none, one and two bits) and two on the second,
  together one more than the rows. All subsets of them are start states, as is a DHT in
  place of either port's, so that the table is filled exactly, overrun by one device, or
  half empty. One device is plugged and pulled without limit. `FcntGarbage` is {0, 1} for
  each search: 1 is enough to configure a row that nobody found, to take a row from the
  next port, and to write behind the table; the theorems are about any. `SensorsDht` has
  `FcntGarbage` {0}, so that its trace is the DHT's alone.
* `Chip` has a ring of eight words (`RXSTOP_INIT` 15), frames of 6 and 10 bytes
  and up to four of them between two resets of the chip: the ring fills, wraps inside
  a frame, between two frames, and exactly at its end, which is the case that
  `gNextPacketPtr - 1` gets wrong. The proofs hold for any ring, frames and number of
  frames.
* `Settings` has one sensor row, one value of each kind besides the default, three
  changes of settings and two power cuts: a change, another that interferes with it,
  and one that replaces it, each cut anywhere. Without further requests the box
  changes no settings, and the model stops (`CHECK_DEADLOCK FALSE`). A logger's host and
  path are 25 and 30 characters long, the longest that `PagesFit` claims, or the host is too long for
  its field when it is encoded; the sensor's name has a blank, which the browser encodes.
  The passwords are one that fits and one that does not in its encoding.
* `PagesFit` takes readings and corrections to print in seven characters
  (`ValueLength`); a correction is any number that `atof()` reads, printed with `%2.2f`,
  and a longer one makes its pages longer.
* `Web` has two connections, which may be two browsers or one that comes again; `Kinds`
  shares the pages among them, so that a login can come before, between or after each
  protected page. There are `MaxSyns` 2 SYNs, answered or sent by the box's client,
  between two restarts, so that a repeated one gets another number, and any number of
  restarts. There is one time of login, and one of a login before the first start
  (`EarlierTimes`) whose number turned over and whose text contains the other's. With two
  connections a login, its Exit and another page of the same session do not come
  together; the theorem is about any connections and times.
  Pings keep no state and come before the first browser; 24 words lie
  around both borders of the carry.

### Fairness

`LiveSpec` (`LoggerUplinkLive`) has no restarts and the link up. The loop makes
iterations again and again (the watchdog restarts a box that does not), and
at least one in each second receives no frame: `WF` on the interrupt and on
`exe_sensors()`, `SF` on the idle iteration, which frames may push aside but not
for ever. A gateway and a name server that are asked again and again answer in
the end (`SF`); nothing is assumed of the servers posted to.

`FairSpec` (`DhcpClient`) is `WF` on time and on the iterations of the main loop,
`SF` on those of the boot loop that see no frame and a link. `ReliableSpec` adds
that of the DISCOVERs repeated for ever some arrive, and that an OFFER and an
ACK that can be heard again and again are heard in the end. `GetsAnAddress`
needs it: `DhcpRetry` shows that it fails without.

`Spec` of `SensorTable` is `WF` on the start: it is one thread that waits for
nothing. The devices have no fairness; `SearchEnds` holds although one may be
pulled and plugged between any two bits for ever.

`Spec` of `EthChip`: the program goes on (`WF` on `GoOn`), the main loop polls again
and again although pages, resets and POSTs come in between (`SF` on `Poll`), the chip
ends what it sends (`WF` on `Transmit`).

`Spec` of `WebServer`: a request that is sent again and again until it is acknowledged
arrives in the end (`WF` on `BoxAnswers`), and of answers that come again and again the
browser takes one (`SF` on `BrowserGets`). Nothing is assumed of a page that was sent
once.

`BoxSettings` has no fairness: it promises nothing that must happen.

## Proofs

### Loggers

`LoggerUplinkProofs` proves, for any number of ticks in a second, any timeouts
that `sec` can count, any widths of `sec` and `reboot_counter`, and any hosts
and settings: `TypeOK`, `LookupAnswersItsQuestion`, `OnePostAtATime`,
`LookupRetrySpacing` and `NamedPostIsRouted`. They rest on the named assumptions
of the module (`HostsAssumption`, `SettingsAssumption`, `TimingAssumption`: the
timeouts are smaller than `SecMod`), which TLC evaluates in every run.
`LookupAnswersItsQuestion` (theorem `AnswersMatch`) is about any width of the request's
number, with restarts and late answers.

The argument is one inductive invariant, `IInv`:

* `PostInv`: while a POST owns the client (`exclusive > 0`), it has been asked for
  (`start_web_client = 2`) and `exclusive` is at most the number of ticks until
  `sec` reaches `PostTimeout`, which is `(PostTimeout - sec) * TicksPerSec -
  sec_cnt`. Clearing `sec` for another purpose only makes that wait longer, and
  the wrap of `sec` comes too late to matter, when `exclusive` has run out.
* `LookupInv`: the same of `lookupAge`, `DnsTimeout` and `dns_state`.
* `RouteInv`: a lookup under way or done had the gateway's MAC, and `dns_state` 2
  has an address.
* `AskedInv`: the question under way is the one that has the present number, and the
  answer held, if there is one, is that question's. An answer to another question has
  another number, which `Accepts` refuses.
* `ClientHasBuffers`: a client with an address has been handed a logger's buffers,
  without which the type of `sent` is not inductive.

Each step of `Next` preserves `IInv` (one lemma per kind of step), and the action
properties follow from it in a state where the step is enabled.

### DHCP

`DhcpClientProofs` proves `TypeOK` and `RenewalSpacing` for any boxes and servers,
and `RunsWithAckedAddress` and `LeaseHeldIsValid` for one box and one server
(`OneOfEach`), the latter if leases last 29 ticks or more (`LongLeases`). Its
invariants:

* `AskedInv`, `AskedInPhase`: what may be answered was asked in the phase that asks
  it, so that `HeardIs` can name the three kinds of answers.
* `SpacingInv`: while a renewal must not be repeated, what is left of that time,
  with the counter, is at most nine ticks for each minute of `lease` above two.
  It needs that the iteration that notices a full minute comes before the next
  tick (`iters >= 1 => cnt <= 8`), which `Tick6`'s guard gives.
* `OfferInv`: a box that holds an OFFER has left the boot delay, so that it
  discovers no more, and holds what its server offers for its present number.
* `LeaseInv`: nine ticks for each minute of `lease` above two, less what the
  counter has already counted, are left of the lease. Three cases: the counter below
  nine, nine and not yet noticed, and beyond nine, which a boot that took long
  leaves behind.

### Search and table

`SensorTableProofs` is about any ports (each listed once), any number of rows, ids of any
length, any devices that come and go, and any beginning of `fcnt`; no theorem has a
condition on it. What a write behind `all_sensors` may change is not followed
(`beyond`), so the invariants are about the table until then and again from the next
start on.

* `OverflowHasACause` by `OInv`: `CallInv` says that a search is given the rows not taken
  and returns no more than these if its `fcnt` began at 0, so that the rows it gives are
  in the table. The rows below `count` have a type (`Taken`), so a DHT that writes further
  has found all of them taken, or all but one. The poll goes through the table and writes
  behind it only for a DHT's second row, which `PairInv` keeps inside.
* `KeepsPromise`, the refinement of `BusSearch`. `PassInv` is the argument. Outside of a
  pass: what was found is on the bus and in order, everything else comes after it, and
  `lastDeviation` is the highest place at which the last id took a 0 and a device goes on
  with a 1 (`DeviationKept`). Inside of one (`Following`): the devices that listen are
  those with the prefix read so far, and the pass follows the last id up to the
  deviation, takes a 1 there and the lowest branch behind it. At the last bit exactly
  one device listens, and it is the first of those that remain; every other step of a
  pass stutters. Devices of a bus that is disturbed during its search promise nothing,
  in both specifications.
* `TableMatchesBuses` by `MInv`: beside that, a bus that is done has exactly the rows of
  the devices found on it, one that is to come has none, and no row from `count` on is
  configured. A bus whose `fcnt` did not begin at 0 is excepted, and its rows disturb no
  other bus's.
* `ReadingIsOfItsRow` by `VInv`: the rows of a DHT come in pairs, the humidity first and
  the temperature behind it (`PairInv`), so that the poll, which skips every second one,
  writes both readings of a pair into their own rows.
* `TypeOK`.

### Driver and chip

`EthChipProofs` is about a ring of any size that ends at an odd address and is less than
the 8 kB, even frame sizes and any number of frames (`ChipAssumption`):

* `TransmitsWhole`: a stalled transmitter has its interrupt flag set (`TxInv`).
* `DriverFollowsChip`, `ReleasesOddAddress`: `RingInv` says that the chip puts frame behind
  frame, that the frames not yet released are intact while none was overwritten, and, for
  each `pc`, which of them the driver's pointer and the count name. The step that needs
  all of it is `ReadHeader`: the header found at the pointer is the next frame's.
* `FramesInOrder`: `OrderInv`, what was delivered is increasing and is exactly the good
  frames among those read so far (`ReadSoFar`, which counts a frame as soon as its body is
  read, before it is released and counted down).
* `OverwritesOnlyWhenAstray`: `RoomInv`. Frames are given offsets from the first one that
  is not released, along the ring; they lie less than once round it. The room that the
  chip computes from its two pointers, in one of two ways as they lie, is then the
  distance that is left, while `ERXRDPT` is inside of the ring; so the words of a new
  frame are none of an old one's.
* `RegistersInTheirBank`: `BankInv`. Outside of the boot the copy of the bank is right. For
  each list of accesses one lemma says what it needs of the bank before and leaves behind
  (`Access` is one, `Accesses` follows a list); the reset of the chip relies on nothing.
* `TypeOK`, with `CountInv`: count and frames agree also after one was overwritten.

### Settings

`BoxSettingsProofs` is about any rows and settings and any number of requests and power
cuts. `SettingsAssumption` says of the settings what the code requires of them: addresses
and MACs are bytes and not empty; passwords, hosts, paths and sensors' names are plain
(`IsPlain`: without `+` and `%`, which the abstract browser leaves as they are); and no
text is so long that `strcpy()` writes over another variable than those modelled: an
encoded password is shorter than `tmpstr` (25), an encoded host fits into its own field
and the path's (26 and 46), a path into its own. `CharactersAssumption`: the characters
that an escape is made of are characters. `HolesAssumption`: the three traces of an
interruption are no settings.

* `MarkMeansWritten`: `IInv` says that the writes to come are `Orderly` (the block of the
  mark comes behind the vital ones that are not written yet, and no write is of a value
  that stands for a hole) and that from the password on the board has its mark or is
  about to write it.
* `AnsweredSaveIsDurable`: `PromiseInv`, what is promised is in its block and no write to
  come is of that block; what the request under way will have promised is what it writes.
  What is promised is the text that is typed, but the encoded one for a password and a
  host, and nothing where it does not fit (`IfItFits`).
  `WritesInv` tells whose the writes to come are, so that a cut can only lose the mark
  during a UDP command or the defaults.
* `RamIsWhatIsSaved`: `RamInv`, from each point of the boot on, each block in RAM is what
  EEPROM holds or what is about to be written there; for a password of more than 15
  characters that is the first 15 of them (`Kept`).
* `PagesFit`, for a frame buffer of 700 bytes or more (the build has 700): the lengths that
  a page adds up, with a sensor's name of at most 14 characters (`RowNames`: its field has
  15 bytes) and a logger's two names as `PagesFit` bounds them. A logger's page then takes
  647 bytes at most, which is all of the room, so `NamesThatFit` is exact.
* `TypeOK`: every block holds a setting of its kind or a trace. This needs that what the
  handlers read *is* a setting, and the four forms are the heart of it: `NetFormIsRead`
  and `RowFormIsRead` say that the handler reads from the form that the page prints and
  the browser sends what the user typed, `PasswordFormIsRead` that it reads the encoded
  text, and `ServerFormIsRead` the encoded host beside the path as it was typed.

`FormTextProofs` has what these rest on, for all texts: decimal texts of numbers of 16
bits and hexadecimal ones of bytes are read back by `ATOI()`; a list of them printed with
a delimiter is read back by `data_get()`; what a browser escapes `urldecode()` gives back;
`findstr()` finds the field. The functions are recursive over the length of a text; the
proofs go by induction on an interval (`CountingProofs`: `Recursion` gives the recursive
equation of such a function, `RecursionIsOne` that it is the only one that satisfies it,
`SequenceInduction` and sets of numbers in place of the library's theorems, whose
parameter is an operator).

### Web server

`WebServerProofs` is about any connections, requests, times and pages (`TimesAssumption`:
a time has 32 bits, in two words). A login at which the product is 0, as it is at time 0,
makes no session, and nothing is accepted until the next one.

* `RestartsNeedALogin`: a session that is not 0 is the last login's since the start, and
  no Exit came after it (`SessionInv`). So what `Accepts` finds in a request's text is the
  number that this login showed; with 0, which has a text as well, it would be none.
* `AnswersAreAcceptable`: `IInv` says of every segment in the network that it fits its
  connection (`Fits`): a request follows the first number that its browser took, and an
  answer the request it was made of, as `make_tcphead()` exchanges the two numbers. It
  is kept because a connection's numbers, once taken, stay (`Grown`), and because what
  the box does not know it does not use.
* `NumbersDoNotOverlap`: `FirstsInv`, every first number in the network or taken by a
  browser is a multiple of 768 above the first one of all, and a page lies behind one of
  them and is shorter. It holds up to 81 SYNs, answered and sent, between two
  starts (`MaxSyns <= 81`). That
  bound is real: `seqnum` is a byte that goes up by three, and 256 is no multiple of
  three, so after it has turned over the first numbers lie 256 or 512 behind those of
  the turn before, among the numbers of a page if one is late by that many connections.
* `PongsCheckOut`: the sum of the words of a request (`EchoAssumption`: words have 16
  bits) with its end-around carries is computed in closed form, and the correction of the
  high byte adds to it what the changed type takes away, but for the checksums that the
  property excepts.
* `TypeOK`: with a frame buffer of 700 bytes or more (the build has 700)
  every page of the web server's model fits behind the headers (`PagesAreShort`).

### What is only model-checked

Liveness (`UplinkNeverWedges`, `DeadUplinkResetsChip`, `GetsAnAddress`, `SearchEnds`,
`FramesAreTaken`, `AskedIsAcked`) is out of the prover's reach, as `ENABLED` is.
Nothing can be proved of single characters of a TLA+ string, which is one reason why texts
are sequences of characters here.

## Not modelled, and why

* The waveforms of 1-Wire and DHT, the DHT's checksum, and the display: pulse lengths
  and formatting. A 1-Wire bus that is held low reads zeros that pass the CRC; it is not
  modelled. The display's interrupt may show a half-written text for one refresh;
  nothing reads it back.
* The texts of pages beyond their lengths, of the POST and of the configurator's
  replies.
* The answer to an ARP request and the UDP reply: they are made of the frame they
  answer and keep no state (`OtherFrame`).
* The RAM behind `all_sensors` and behind `MPasswd`, where the code writes past their
  ends: what is changed there is not followed.
* Requests that no page of the box makes: `findstr()` with an end that is missing, a
  type of 0 in an address of a page, a MAC text of other than 17 characters. The
  forms are those that the pages print.
* SPI transfers are atomic, as no interrupt uses the bus.
* Torn writes of 32 bit timers while the interrupt decrements them: the model's
  assignments are atomic. A torn value changes how long a logger waits.
* TCP sequence numbers of the client (`LoggerUplink`): it keeps none.
* What is compiled out of this commit: relays, radio, pressure sensor, current clamp,
  dosimeter, the JSON page.

## Plan

What could still be added:

1. The DHT's forty bits and checksum, and a bus held low.
2. An abstract specification of the web client (one POST at a time, each ends) and of
   the lookup, implemented by `LoggerUplink`.
