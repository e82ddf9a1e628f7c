----------------------------- MODULE LoggerUplink -----------------------------
(***************************************************************************)
(* The data loggers of the weather box: process_http_server() as the main  *)
(* loop calls it, exe_sensors(), and the 10 ms timer interrupt.            *)
(*                                                                         *)
(* Two loggers share one lookup (dns_state, otherside_www_ip), one web     *)
(* client (start_web_client and the TCP client below it), one text buffer  *)
(* (xbuf) and one seconds counter (sec).  When a logger's timer has run    *)
(* out the loop resolves its host, writes the readings into xbuf and asks  *)
(* for a POST; the POST's text is fetched from xbuf only when the server's *)
(* SYN-ACK arrives, iterations later.                                      *)
(*                                                                         *)
(* One call of process_http_server() is one action: what it does depends   *)
(* on whether a frame was received.  The interrupt runs between calls.     *)
(* The network is arbitrary: any frame may arrive at any iteration.        *)
(***************************************************************************)
EXTENDS Integers

CONSTANTS
  Hosts,          \* what server_name can name
  NumericHosts,   \* those written as a dotted IP address: no lookup is made
  NoHost,         \* no address, no name
  Settings,       \* per logger, the [enable, host, refresh] it can be given
  DefaultSettings,\* the loggers' settings after default_network()
  TicksPerSec,    \* interrupts in a second (100)
  PostTimeout,    \* seconds to wait for the callback of a POST (8)
  DnsTimeout,     \* seconds to wait for the DNS answer (60)
  SecMod,         \* sec is a uint8_t (256)
  TidMod,         \* and so is dnstid_l, the number of a DNS request (256)
  Recharge,       \* ticks both loggers wait after the chip was reset (1000)
  SensorPeriod,   \* ticks between two polls of the sensors (500)
  RebootAfter,    \* failed attempts before the chip is reset (1)
  RebootMod       \* reboot_counter is a char (256)

Loggers == {0, 1}
Tids    == 0 .. TidMod - 1

ASSUME HostsAssumption ==
  /\ NumericHosts \subseteq Hosts
  /\ NoHost \notin Hosts

ASSUME SettingsAssumption ==
  /\ Settings \in [Loggers -> SUBSET [enable : BOOLEAN, host : Hosts, refresh : Nat]]
  /\ DefaultSettings \in [Loggers -> Settings[0] \cup Settings[1]]
  /\ \A k \in Loggers : DefaultSettings[k] \in Settings[k]

ASSUME TimingAssumption ==
  /\ TicksPerSec \in Nat \ {0}
  /\ PostTimeout \in Nat \ {0}
  /\ DnsTimeout \in Nat
  /\ SecMod \in Nat
  /\ PostTimeout < SecMod
  /\ DnsTimeout + 1 < SecMod
  /\ TidMod \in Nat \ {0}
  /\ Recharge \in Nat
  /\ SensorPeriod \in Nat
  /\ RebootAfter \in Nat \ {0}
  /\ RebootMod \in Nat
  /\ RebootAfter < RebootMod

VARIABLES
  pc,               \* what the main loop calls next: "http" or "sensors"
  sec, sec_cnt,     \* seconds counter; ticks into the current second
  Wt, TimeWt,       \* [Loggers -> ..]: timer is running; ticks it has left
  Tr0, TimeTs0,     \* the same of the sensor timer
  server_data,      \* the loggers' settings, in RAM and in EEPROM
  gw_arp_state,     \* gateway's MAC: 0 not asked, 1 asked, 2 known
  arpip_state,      \* the ARP resolver: "none", "initial", "waiting", "have"
  dns_state,        \* 0 no lookup, 1 asked, 2 otherside_www_ip is filled
  tid,              \* dnstid_l: the number of the last DNS request
  questions,        \* the host that the last request with each number named
  answer,           \* the host whose address dnslkup.c holds, NoHost: no answer
  otherside,        \* the host whose address otherside_www_ip is
  start_web_client, \* 0 at boot, 1 may post, 2 posted, 3 called back
  tcp_client_state, \* 0..7, as numbered in ip_arp_udp_tcp.c
  tcp_otherside,    \* the host whose address tcp_otherside_ip is
  hoststr,          \* client_hoststr: the logger whose server_name it points to
  xbuf,             \* what xbuf holds: the "readings" of a POST or "other" text
  reboot_counter,
  sent,             \* the POST that this iteration put on the wire, or NoPost
  asked,            \* history: the host whose lookup is under way and was sent
  exclusive,        \* history: ticks a POST owns the client unless answered
  lookupAge         \* history: ticks before a lookup may be repeated

NoPost == [to |-> NoHost, host |-> NoHost, body |-> "other"]
NoLogger == 2

timers   == <<sec, sec_cnt, Wt, TimeWt, Tr0, TimeTs0>>
resolver == <<gw_arp_state, arpip_state>>
lookup   == <<dns_state, tid, questions, answer, otherside>>
client   == <<start_web_client, tcp_client_state, tcp_otherside, hoststr>>
history  == <<asked, exclusive, lookupAge>>
vars == <<pc, timers, server_data, resolver, lookup, client, xbuf,
          reboot_counter, sent, history>>

\* The fewest ticks in which sec can count n seconds after it was cleared:
\* sec_cnt is not cleared with it.
SecondsInTicks(n) == (n - 1) * TicksPerSec + 1

\* RAM as the C start-up code and main() leave it when the loop begins.  sec is
\* arbitrary: interrupts run while main() waits for its DHCP lease.
Boot ==
  /\ pc = "http"
  /\ sec \in 0 .. SecMod - 1
  /\ sec_cnt \in 0 .. TicksPerSec - 1
  /\ Wt = [k \in Loggers |-> 0]
  /\ TimeWt = [k \in Loggers |-> 0]
  /\ Tr0 = 0
  /\ TimeTs0 = 0
  /\ gw_arp_state = 0
  /\ arpip_state = "none"
  /\ dns_state = 0
  /\ tid = 0
  /\ answer = NoHost
  /\ otherside = NoHost
  /\ start_web_client = 0
  /\ tcp_client_state = 0
  /\ tcp_otherside = NoHost
  /\ hoststr = NoLogger
  /\ xbuf = "other"
  /\ reboot_counter = 0
  /\ sent = NoPost
  /\ asked = NoHost
  /\ exclusive = 0
  /\ lookupAge = 0

\* The loggers' settings, each with one its page can save.
Configured(settings) ==
  \A k \in Loggers : settings[k] \in Settings[k]

Init ==
  /\ Boot
  /\ questions = [t \in Tids |-> NoHost]
  /\ server_data \in [Loggers -> Settings[0] \cup Settings[1]]
  /\ Configured(server_data)

-------------------------------------------------------------------------------
(* The timer interrupt, TIMER0_COMPA_vect. *)

SecondPassed == sec_cnt + 1 >= TicksPerSec

CountDown(flag, time) == IF flag = 1 /\ time > 0 THEN time - 1 ELSE time
Expire(flag, time)    == IF flag = 1 /\ time = 0 THEN 0 ELSE flag

Less1(n) == IF n > 0 THEN n - 1 ELSE 0

Tick ==
  /\ sec_cnt' = IF SecondPassed THEN 0 ELSE sec_cnt + 1
  /\ sec' = IF SecondPassed THEN (sec + 1) % SecMod ELSE sec
  /\ Wt' = [k \in Loggers |-> Expire(Wt[k], TimeWt[k])]
  /\ TimeWt' = [k \in Loggers |-> CountDown(Wt[k], TimeWt[k])]
  /\ Tr0' = Expire(Tr0, TimeTs0)
  /\ TimeTs0' = CountDown(Tr0, TimeTs0)
  /\ exclusive' = Less1(exclusive)
  /\ lookupAge' = Less1(lookupAge)
  /\ sent' = NoPost
  /\ UNCHANGED <<pc, server_data, resolver, lookup, client, xbuf, reboot_counter, asked>>

-------------------------------------------------------------------------------
(* exe_sensors(), of which the loggers see only the chip's reset. *)

PollSensors ==
  /\ pc = "sensors"
  /\ pc' = "http"
  /\ IF Tr0 = 0
       THEN /\ Tr0' = 1
            /\ TimeTs0' = SensorPeriod
            /\ IF reboot_counter >= RebootAfter
                 THEN /\ reboot_counter' = 0
                      /\ Wt' = [k \in Loggers |-> 1]
                      /\ TimeWt' = [k \in Loggers |-> Recharge]
                 ELSE UNCHANGED <<reboot_counter, Wt, TimeWt>>
       ELSE UNCHANGED <<Tr0, TimeTs0, reboot_counter, Wt, TimeWt>>
  /\ sent' = NoPost
  /\ UNCHANGED <<sec, sec_cnt, server_data, resolver, lookup, client, xbuf, history>>

-------------------------------------------------------------------------------
(* The parts of process_http_server() that several cases share. *)

\* One iteration calls process_http_server() and then exe_sensors().
Iteration == pc = "http" /\ pc' = "sensors"

Due(k) == Wt[k] = 0
Active(k) == server_data[k].enable
Current == IF Due(1) THEN 1 ELSE 0
PostFlag == \E k \in Loggers : Due(k) /\ Active(k)
Named(k) == server_data[k].host \notin NumericHosts

\* A logger that is due and disabled only has its timer started again.
Rearmed(k) == Due(k) /\ ~Active(k)
RearmDisabled ==
  /\ Wt' = [k \in Loggers |-> IF Rearmed(k) THEN 1 ELSE Wt[k]]
  /\ TimeWt' = [k \in Loggers |->
                  IF Rearmed(k) THEN server_data[k].refresh ELSE TimeWt[k]]

\* The gateway's MAC, once the packet loop left the ARP resolver in state arp.
GatewayStage(arp) ==
  IF gw_arp_state = 0
    THEN arpip_state' = "initial" /\ gw_arp_state' = 1
    ELSE /\ arpip_state' = arp
         /\ gw_arp_state' = IF arp = "have" /\ gw_arp_state = 1 THEN 2
                                                               ELSE gw_arp_state

\* An iteration without a frame sends the pending ARP request and SYN.
WhoHasSent(up) == IF arpip_state = "initial" /\ up THEN "waiting" ELSE arpip_state
SynSent(up) == IF tcp_client_state = 1 /\ up THEN 2 ELSE tcp_client_state

\* Variants of the definitions below: a counter without its width, no counter,
\* a second too early, no timeout at all.
CountFailureUnwrapped == reboot_counter' = reboot_counter + 1
CountNoFailure == UNCHANGED reboot_counter
PostTimedOutEarly == sec + 1 >= PostTimeout
PostNeverTimesOut == FALSE
LookupTimedOutEarly == sec >= DnsTimeout

CountFailure == reboot_counter' = (reboot_counter + 1) % RebootMod
PostTimedOut == sec >= PostTimeout
LookupTimedOut == sec > DnsTimeout

\* The address for the current logger is at hand: no lookup is needed or the
\* lookup is done.
LookupDone == dns_state = 2 \/ (dns_state = 1 /\ answer # NoHost)
Resolved == ~Named(Current) \/ LookupDone
Destination ==
  CASE ~Named(Current) -> server_data[Current].host
    [] Named(Current) /\ dns_state = 1 -> answer
    [] OTHER -> otherside

-------------------------------------------------------------------------------
(* process_http_server() when no frame was received; up: the link is up. *)

\* Lines 1657-1683 without a frame, and the timers of disabled loggers.
Idle(up) ==
  /\ Iteration
  /\ GatewayStage(WhoHasSent(up))
  /\ sent' = NoPost
  /\ UNCHANGED <<sec_cnt, Tr0, TimeTs0, server_data, tcp_otherside>>

NothingToPost(up) ==
  /\ Idle(up)
  /\ ~PostFlag
  /\ RearmDisabled
  /\ tcp_client_state' = SynSent(up)
  /\ UNCHANGED <<sec, lookup, start_web_client, hoststr, xbuf, reboot_counter, history>>

\* A variant of the next: the gateway is not waited for.
MayLookupUnrouted == Named(Current) /\ dns_state = 0

MayLookup == Named(Current) /\ dns_state = 0 /\ gw_arp_state' = 2
AnswerAtRequest == NoHost
NextTid == (tid + 1) % TidMod

\* dnslkup_request() looks at the link once more; still: it is still up.
RequestLookup(up, still) ==
  /\ Idle(up)
  /\ PostFlag
  /\ MayLookup
  /\ RearmDisabled
  /\ tcp_client_state' = SynSent(up)
  /\ IF up
       THEN /\ sec' = 0
            /\ dns_state' = 1
            /\ answer' = AnswerAtRequest
            /\ lookupAge' = SecondsInTicks(DnsTimeout + 1)
            /\ IF still
                 THEN /\ tid' = NextTid
                      /\ asked' = server_data[Current].host
                      /\ questions' = [questions EXCEPT ![NextTid] = asked']
                 ELSE asked' = NoHost /\ UNCHANGED <<tid, questions>>
       ELSE UNCHANGED <<sec, dns_state, asked, tid, questions, answer, lookupAge>>
  /\ UNCHANGED <<otherside, start_web_client, hoststr, xbuf, reboot_counter, exclusive>>

AwaitLookup(up) ==
  /\ Idle(up)
  /\ PostFlag
  /\ ~MayLookup
  /\ ~Resolved
  /\ RearmDisabled
  /\ tcp_client_state' = SynSent(up)
  /\ IF LookupTimedOut
       THEN dns_state' = 0 /\ asked' = NoHost /\ CountFailure
       ELSE UNCHANGED <<dns_state, asked, reboot_counter>>
  /\ UNCHANGED <<sec, tid, questions, answer, otherside, start_web_client, hoststr, xbuf,
                 exclusive, lookupAge>>

\* The readings are written to xbuf and the POST is asked for; with the link
\* down client_http_post() returns at once and nothing here notices.
Post(up) ==
  /\ Iteration
  /\ GatewayStage(WhoHasSent(up))
  /\ PostFlag
  /\ ~MayLookup
  /\ Resolved
  /\ start_web_client = 1
  /\ start_web_client' = 2
  /\ otherside' = Destination
  /\ xbuf' = "readings"
  /\ IF up
       THEN tcp_client_state' = 1 /\ tcp_otherside' = Destination /\ hoststr' = Current
       ELSE UNCHANGED <<tcp_client_state, tcp_otherside, hoststr>>
  /\ sec' = 0
  /\ dns_state' = 0
  /\ Wt' = [k \in Loggers |-> IF k = Current \/ Rearmed(k) THEN 1 ELSE Wt[k]]
  /\ TimeWt' = [k \in Loggers |-> IF k = Current \/ Rearmed(k)
                                   THEN server_data[k].refresh ELSE TimeWt[k]]
  /\ exclusive' = SecondsInTicks(PostTimeout)
  /\ lookupAge' = 0
  /\ asked' = NoHost
  /\ sent' = NoPost
  /\ UNCHANGED <<sec_cnt, Tr0, TimeTs0, server_data, tid, questions, answer,
                 reboot_counter>>

\* The POST before this one was answered, or it is given up.
AwaitCallback(up) ==
  /\ Idle(up)
  /\ PostFlag
  /\ ~MayLookup
  /\ Resolved
  /\ start_web_client # 1
  /\ RearmDisabled
  /\ tcp_client_state' = SynSent(up)
  /\ otherside' = Destination
  /\ dns_state' = IF Named(Current) THEN 2 ELSE dns_state
  /\ start_web_client' = IF start_web_client = 3 \/ PostTimedOut
                          THEN 1 ELSE start_web_client
  /\ IF PostTimedOut THEN CountFailure ELSE UNCHANGED reboot_counter
  /\ UNCHANGED <<sec, tid, questions, answer, hoststr, xbuf, history>>

-------------------------------------------------------------------------------
(* process_http_server() when a frame was received. *)

\* What every frame has in common: the timers of disabled loggers are started.
Frame ==
  /\ Iteration
  /\ RearmDisabled
  /\ UNCHANGED <<sec, sec_cnt, Tr0, TimeTs0, asked, lookupAge>>

GatewayAnswers ==
  /\ Frame
  /\ arpip_state = "waiting"
  /\ GatewayStage("have")
  /\ sent' = NoPost
  /\ UNCHANGED <<server_data, lookup, client, xbuf, reboot_counter, exclusive>>

\* A variant of the next: no look at the number of the answer.
AcceptsAll(t) == TRUE
Accepts(t) == t = tid

\* The answer, with an address, to the last DNS request or to an earlier one:
\* late, repeated, of the other logger, or of before a restart.  It can come as
\* long as no later request had its number.
DnsAnswers(t) ==
  /\ Frame
  /\ GatewayStage(arpip_state)
  /\ questions[t] # NoHost
  /\ answer' = IF Accepts(t) THEN questions[t] ELSE answer
  /\ sent' = NoPost
  /\ UNCHANGED <<server_data, dns_state, tid, questions, otherside, client, xbuf,
                 reboot_counter, exclusive>>

\* Segments from the host last posted to.  All but "rst" carry ACK; "data" is
\* long enough for a status line.  own: the port's fd bits are those of the
\* last POST, else the segment belongs to an earlier connection.
Segments == {"synack", "ack", "data", "datafin", "fin", "rst"}
HasData(s) == s \in {"data", "datafin"}
HasFin(s)  == s \in {"datafin", "fin"}

CallsBack(s, own) == (s = "rst" /\ ~own) \/ (tcp_client_state = 3 /\ HasData(s))

NextTcpState(s) ==
  CASE s = "rst"                                     -> 6
    [] s # "rst" /\ tcp_client_state = 2             -> IF s = "synack" THEN 3 ELSE 1
    [] s # "rst" /\ tcp_client_state = 5             -> 6
    [] s # "rst" /\ tcp_client_state = 6             -> 7
    [] s # "rst" /\ tcp_client_state \notin {2, 5, 6} ->
         IF HasFin(s) THEN 5
         ELSE IF tcp_client_state = 3 /\ HasData(s) THEN 4 ELSE tcp_client_state

\* The POST as it leaves: built from the live text buffers, not from copies.
Request == [to |-> tcp_otherside, host |-> server_data[hoststr].host, body |-> xbuf]

Segment(s, own) ==
  /\ Frame
  /\ GatewayStage(arpip_state)
  /\ tcp_otherside # NoHost
  /\ tcp_client_state' = NextTcpState(s)
  /\ sent' = IF tcp_client_state = 2 /\ s = "synack" /\ own THEN Request ELSE NoPost
  /\ IF CallsBack(s, own)
       THEN /\ start_web_client' = IF start_web_client = 2 THEN 3 ELSE start_web_client
            /\ exclusive' = 0
       ELSE UNCHANGED <<start_web_client, exclusive>>
  /\ UNCHANGED <<server_data, lookup, tcp_otherside, hoststr, xbuf, reboot_counter>>

\* Frames nothing reacts to, pings and ARP requests among them.
OtherFrame ==
  /\ Frame
  /\ GatewayStage(arpip_state)
  /\ sent' = NoPost
  /\ UNCHANGED <<server_data, lookup, client, xbuf, reboot_counter, exclusive>>

\* SRCH of the UDP configurator: the reply is put together in xbuf.
UdpSearch ==
  /\ Frame
  /\ GatewayStage(arpip_state)
  /\ xbuf' = "other"
  /\ sent' = NoPost
  /\ UNCHANGED <<server_data, lookup, client, reboot_counter, exclusive>>

\* A request to the web server that is no GET is dropped at once.
OtherRequest ==
  /\ Frame
  /\ sent' = NoPost
  /\ UNCHANGED <<server_data, resolver, lookup, client, xbuf, reboot_counter, exclusive>>

\* A GET: its text passes through xbuf, and a page that is served proves the
\* network alive.  An authorised GET of no known page is not answered.
WebPage(served) ==
  /\ Frame
  /\ xbuf' = "other"
  /\ reboot_counter' = IF served THEN 0 ELSE reboot_counter
  /\ sent' = NoPost
  /\ UNCHANGED <<server_data, resolver, lookup, client, exclusive>>

\* "Save & Test" on a logger's page: the new settings are used at once.
SaveLogger(k, new) ==
  /\ Iteration
  /\ server_data' = [server_data EXCEPT ![k] = new]
  /\ Wt' = [j \in Loggers |-> IF j = k THEN 0 ELSE IF Rearmed(j) THEN 1 ELSE Wt[j]]
  /\ TimeWt' = [j \in Loggers |->
                  IF Rearmed(j) THEN server_data[j].refresh ELSE TimeWt[j]]
  /\ xbuf' = "other"
  /\ reboot_counter' = 0
  /\ sent' = NoPost
  /\ UNCHANGED <<sec, sec_cnt, Tr0, TimeTs0, resolver, lookup, client, history>>

\* The box starts again: the reboot page, new network settings, SETQ, R**T
\* (which restores the default settings first), or the watchdog.
Restart(settings) ==
  /\ pc' = "http"
  /\ sec' \in 0 .. SecMod - 1
  /\ sec_cnt' \in 0 .. TicksPerSec - 1
  /\ Wt' = [k \in Loggers |-> 0]
  /\ TimeWt' = [k \in Loggers |-> 0]
  /\ Tr0' = 0
  /\ TimeTs0' = 0
  /\ gw_arp_state' = 0
  /\ arpip_state' = "none"
  /\ dns_state' = 0
  /\ tid' = 0
  /\ UNCHANGED questions
  /\ answer' = NoHost
  /\ otherside' = NoHost
  /\ start_web_client' = 0
  /\ tcp_client_state' = 0
  /\ tcp_otherside' = NoHost
  /\ hoststr' = NoLogger
  /\ xbuf' = "other"
  /\ reboot_counter' = 0
  /\ sent' = NoPost
  /\ asked' = NoHost
  /\ exclusive' = 0
  /\ lookupAge' = 0
  /\ server_data' = settings

-------------------------------------------------------------------------------

IdleIteration == \E up \in BOOLEAN :
  \/ NothingToPost(up)
  \/ \E still \in BOOLEAN : RequestLookup(up, still)
  \/ AwaitLookup(up)
  \/ Post(up)
  \/ AwaitCallback(up)

FrameIteration ==
  \/ GatewayAnswers
  \/ \E t \in Tids : DnsAnswers(t)
  \/ \E s \in Segments, own \in BOOLEAN : Segment(s, own)
  \/ OtherFrame
  \/ UdpSearch
  \/ OtherRequest
  \/ \E served \in BOOLEAN : WebPage(served)
  \/ \E k \in Loggers : \E new \in Settings[k] : SaveLogger(k, new)

Next ==
  \/ IdleIteration
  \/ FrameIteration
  \/ PollSensors
  \/ Tick
  \/ \E settings \in {server_data, DefaultSettings} : Restart(settings)

Spec == Init /\ [][Next]_vars

-------------------------------------------------------------------------------
(* Properties. *)

TypeOK ==
  /\ pc \in {"http", "sensors"}
  /\ sec \in 0 .. SecMod - 1
  /\ sec_cnt \in 0 .. TicksPerSec - 1
  /\ Wt \in [Loggers -> {0, 1}]
  /\ TimeWt \in [Loggers -> Nat]
  /\ Tr0 \in {0, 1}
  /\ TimeTs0 \in Nat
  /\ server_data \in [Loggers -> Settings[0] \cup Settings[1]]
  /\ Configured(server_data)
  /\ gw_arp_state \in 0 .. 2
  /\ arpip_state \in {"none", "initial", "waiting", "have"}
  /\ dns_state \in 0 .. 2
  /\ asked \in Hosts \cup {NoHost}
  /\ tid \in Tids
  /\ questions \in [Tids -> Hosts \cup {NoHost}]
  /\ answer \in Hosts \cup {NoHost}
  /\ otherside \in Hosts \cup {NoHost}
  /\ start_web_client \in 0 .. 3
  /\ tcp_client_state \in 0 .. 7
  /\ tcp_otherside \in Hosts \cup {NoHost}
  /\ hoststr \in Loggers \cup {NoLogger}
  /\ xbuf \in {"readings", "other"}
  /\ reboot_counter \in 0 .. RebootMod - 1
  /\ sent \in [to : Hosts \cup {NoHost}, host : Hosts \cup {NoHost},
               body : {"readings", "other"}]
  /\ exclusive \in Nat
  /\ lookupAge \in Nat

PostStep   == start_web_client = 1 /\ start_web_client' = 2
LookupStep == dns_state = 0 /\ dns_state' = 1
ResetStep  == reboot_counter >= RebootAfter /\ pc = "sensors" /\ Tr0 = 0

\* The two loggers never use the one web client at the same time: a POST is
\* asked for only when the one before was called back or PostTimeout seconds
\* have passed since it was asked for, although sec is shared with the lookup
\* and wraps around (protocol.c:1745-1779).
OnePostAtATime == [][PostStep => exclusive = 0]_vars

\* A lookup is repeated only after a POST used it up or more than DnsTimeout
\* seconds passed, whichever logger asked (protocol.c:1693-1722).
LookupRetrySpacing == [][LookupStep => lookupAge = 0]_vars

\* While a lookup waits for its answer, or has it, dnslkup.c never holds the
\* address of another name: late and repeated answers to earlier lookups, of the
\* other logger or of before a restart, are told apart by the request's number
\* (dnslkup.c:81-90, 143-229).  A lookup whose request could not be sent is
\* excepted: its number is the one before's.
LookupAnswersItsQuestion ==
  asked # NoHost /\ answer # NoHost => answer = asked

\* A POST to a named host has an address to go to and the gateway's MAC to go
\* through, whatever the other logger did to the shared lookup in between
\* (protocol.c:1697-1722).
NamedPostIsRouted ==
  [][PostStep /\ Named(Current) => gw_arp_state = 2 /\ otherside' # NoHost]_vars

\* "postval is a string buffer which can only be de-allocated by the caller when
\* the post operation was really done" (ip_arp_udp_tcp.c:1292-1293): the body of
\* a POST on the wire is the readings it was asked for with.
BodyIsTheReadings == sent # NoPost => sent.body = "readings"
=============================================================================
