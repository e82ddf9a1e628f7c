------------------------------ MODULE DhcpClient ------------------------------
(***************************************************************************)
(* The DHCP client, dhcp_client.c, of the boxes on one LAN: the loop in    *)
(* main() that does not end before an address is assigned, and the renewal *)
(* handler that process_http_server() calls with every frame.              *)
(*                                                                         *)
(* A box asks with a transaction number of one byte and takes every answer *)
(* with that number for its own; the hardware address in the answer is not *)
(* looked at.  The servers and the LAN are external: an answer to anything *)
(* asked may arrive any number of times, or never, and answers to boot     *)
(* requests are broadcasts.                                                *)
(***************************************************************************)
EXTENDS Integers

CONSTANTS
  Boxes,
  Servers,
  Addresses,
  Nobody,       \* no address, no server
  Terms,        \* server -> box -> tid -> the [addr, lease] that it offers; the
                \* lease is in ticks of six seconds
  Forever,      \* a lease without an end (0xffffffff)
  InitialTid,   \* per box, the last byte of its MAC
  InitDelay,    \* idle iterations before the first DISCOVER (0x5fff)
  IterPerTick,  \* iterations the boot loop can make in six seconds (60)
  CntMod,       \* dhcp_6sec_cnt and dhcp_tid are uint8_t (256)
  TidMod,
  MessageLen,   \* bytes of a DHCP answer, headers included
  BootMaxLen,   \* maxlen of enc28j60PacketReceive() in main() (BUFFER_SIZE)
  RunMaxLen     \* and in process_http_server() (256)

Tids == 0 .. TidMod - 1
Infinite == 65535   \* dhcp_opt_leasetime_minutes of a lease without an end
Leases == 0 .. Infinite
TicksPerMinute == 9 \* of the countdown: a bit faster than a minute

ASSUME NamesAssumption ==
  /\ Nobody \notin Addresses \cup Servers
  /\ Forever \notin Nat
  /\ Terms \in [Servers -> [Boxes -> [Tids -> [addr : Addresses, lease : Nat \cup {Forever}]]]]
  /\ InitialTid \in [Boxes -> Tids]

ASSUME SizesAssumption ==
  /\ InitDelay \in Nat /\ InitDelay >= 2
  /\ IterPerTick \in Nat \ {0}
  /\ CntMod \in Nat /\ CntMod > TicksPerMinute
  /\ TidMod \in Nat /\ TidMod > 1
  /\ MessageLen \in Nat /\ BootMaxLen \in Nat /\ RunMaxLen \in Nat

VARIABLES
  phase,      \* "boot": main() waits for an address; "run": the main loop
  init,       \* the static countdown of packetloop_dhcp_initial_ip_assignment()
  cnt,        \* dhcp_6sec_cnt
  iters,      \* iterations since the last tick, counted up to IterPerTick
  tid,        \* dhcp_tid
  yiaddr,     \* dhcp_yiaddr; in phase "run" also NetworkParam.ip
  server_id,  \* dhcp_opt_server_id
  lease,      \* dhcp_opt_leasetime_minutes
  bcast,      \* the chip takes broadcasts (ERXFCON.BCEN)
  asked,      \* everything the boxes sent and servers can still answer
  acked,      \* history: the address of the ACK that ended the boot loop
  leaseLeft,  \* history: ticks this lease has left; Forever once a renewal was sent
  renewAge    \* history: ticks before a renewal may be repeated

box  == <<phase, init, cnt, iters, tid, yiaddr, server_id, lease, bcast>>
vars == <<box, asked, acked, leaseLeft, renewAge>>

Init ==
  /\ phase = [b \in Boxes |-> "boot"]
  /\ init = [b \in Boxes |-> InitDelay]
  /\ cnt = [b \in Boxes |-> 0]
  /\ iters = [b \in Boxes |-> 0]
  /\ tid = [b \in Boxes |-> 0]
  /\ yiaddr = [b \in Boxes |-> Nobody]
  /\ server_id = [b \in Boxes |-> Nobody]
  /\ lease = [b \in Boxes |-> 0]
  /\ bcast = [b \in Boxes |-> FALSE]
  /\ asked = {}
  /\ acked = [b \in Boxes |-> Nobody]
  /\ leaseLeft = [b \in Boxes |-> 0]
  /\ renewAge = [b \in Boxes |-> 0]

-------------------------------------------------------------------------------
(* The messages. *)

Asked(type, b, t, server, addr) ==
  [type |-> type, box |-> b, tid |-> t, server |-> server, addr |-> addr]

Reply(type, a, s, addr) ==
  [type |-> type, box |-> a.box, tid |-> a.tid, server |-> s, addr |-> addr,
   lease |-> Terms[s][a.box][a.tid].lease, renew |-> a.type = "renew"]

OfferOf(s, b, t) == Terms[s][b][t].addr

\* A server offers its terms, acknowledges the request for what it offered to
\* this box, and every renewal.
Replies ==
  {Reply("offer", a, s, OfferOf(s, a.box, a.tid)) :
     a \in {x \in asked : x.type = "discover"}, s \in Servers}
  \cup {Reply("ack", a, a.server, a.addr) :
     a \in {x \in asked : /\ x.type = "request"
                          /\ x.addr = OfferOf(x.server, x.box, x.tid)}}
  \cup {Reply("ack", a, s, a.addr) :
     a \in {x \in asked : x.type = "renew"}, s \in Servers}

\* Answers to renewals are unicasts, all others are broadcasts.
Heard(b) == {m \in Replies : IF m.renew THEN m.box = b ELSE bcast[b]}

\* The driver cuts a frame to maxlen - 1; the client drops what is shorter than
\* 0x100 bytes and looks for the options behind the first 282.
Readable(maxlen) ==
  LET plen == IF MessageLen > maxlen - 1 THEN maxlen - 1 ELSE MessageLen
  IN  plen >= 256 /\ plen >= 42 + 240 + 3

\* Variants of the next five: the number is not compared or not a byte, a minute
\* has 32 seconds, the renewal is repeated early, DISCOVERs are not repeated.
ForMeAlways(b, m) == m.tid \in Tids
MinutesOf32(l) == IF l = Forever THEN Infinite ELSE (6 * l) \div 32
NextTidUnwrapped(b) == tid[b] + 1
RenewedSoon == 3
RetryNever(b) == yiaddr[b] = Nobody /\ cnt[b] > 255

ForMe(b, m) == m.tid = tid[b]

NextTid(b) == (tid[b] + 1) % TidMod

Minutes(l) ==
  IF l = Forever THEN Infinite
  ELSE LET m == (6 * l) \div 64
       IN  IF m > 65533 THEN 65533 ELSE IF m < 5 THEN 5 ELSE m

Renewed == 5

RetryDue(b) == yiaddr[b] = Nobody /\ cnt[b] > 5

-------------------------------------------------------------------------------
(* The six second tick of the timer interrupt. *)

Less1(n) == IF n # Forever /\ n > 0 THEN n - 1 ELSE n

Tick6 ==
  /\ \A b \in Boxes : iters[b] >= 1
  /\ iters' = [b \in Boxes |-> 0]
  /\ cnt' = [b \in Boxes |-> (cnt[b] + 1) % CntMod]
  /\ leaseLeft' = [b \in Boxes |-> Less1(leaseLeft[b])]
  /\ renewAge' = [b \in Boxes |-> Less1(renewAge[b])]
  /\ UNCHANGED <<phase, init, tid, yiaddr, server_id, lease, bcast, asked, acked>>

-------------------------------------------------------------------------------
(* The boot loop: packetloop_dhcp_initial_ip_assignment().  An iteration takes *)
(* 100 ms, spent in leddebugsignal().                                          *)

BootIteration(b) ==
  /\ phase[b] = "boot"
  /\ iters[b] < IterPerTick
  /\ iters' = [iters EXCEPT ![b] = @ + 1]

\* The link is down, or the frame is none the client understands.
BootIgnores(b) ==
  /\ BootIteration(b)
  /\ UNCHANGED <<phase, init, cnt, tid, yiaddr, server_id, lease, bcast, asked, acked,
                 leaseLeft, renewAge>>

\* arrives: the DISCOVER is not lost.
Discover(b, t, arrives) ==
  /\ cnt' = [cnt EXCEPT ![b] = 0]
  /\ tid' = [tid EXCEPT ![b] = t]
  /\ bcast' = [bcast EXCEPT ![b] = TRUE]
  /\ asked' = asked \cup IF arrives THEN {Asked("discover", b, t, Nobody, Nobody)} ELSE {}
  /\ UNCHANGED <<phase, yiaddr, server_id, lease, acked, leaseLeft, renewAge>>

FirstDiscover(b, arrives) ==
  /\ BootIteration(b)
  /\ init[b] = 2
  /\ init' = [init EXCEPT ![b] = 1]
  /\ Discover(b, InitialTid[b], arrives)

RetryDiscover(b, arrives) ==
  /\ BootIteration(b)
  /\ init[b] # 2
  /\ RetryDue(b)
  /\ Discover(b, NextTid(b), arrives)
  /\ UNCHANGED init

BootDelay(b) ==
  /\ BootIteration(b)
  /\ init[b] # 2
  /\ ~RetryDue(b)
  /\ init' = [init EXCEPT ![b] = IF @ > 2 THEN @ - 1 ELSE @]
  /\ UNCHANGED <<phase, cnt, tid, yiaddr, server_id, lease, bcast, asked, acked,
                 leaseLeft, renewAge>>

\* Answers to an earlier renewal, of a box that was reset, are not taken.
BootTakes(b, m) == Readable(BootMaxLen) /\ ForMe(b, m) /\ ~m.renew

\* An OFFER is answered with a REQUEST, whatever was offered before.
TakeOffer(b, m) ==
  /\ BootIteration(b)
  /\ m.type = "offer"
  /\ BootTakes(b, m)
  /\ init' = [init EXCEPT ![b] = 1]
  /\ yiaddr' = [yiaddr EXCEPT ![b] = m.addr]
  /\ server_id' = [server_id EXCEPT ![b] = m.server]
  /\ lease' = [lease EXCEPT ![b] = Minutes(m.lease)]
  /\ asked' = asked \cup {Asked("request", b, tid[b], m.server, m.addr)}
  /\ UNCHANGED <<phase, cnt, tid, bcast, acked, leaseLeft, renewAge>>

\* An ACK ends the boot loop; its contents are not looked at.
TakeAck(b, m) ==
  /\ BootIteration(b)
  /\ m.type = "ack"
  /\ BootTakes(b, m)
  /\ init' = [init EXCEPT ![b] = 1]
  /\ phase' = [phase EXCEPT ![b] = "run"]
  /\ bcast' = [bcast EXCEPT ![b] = FALSE]
  /\ acked' = [acked EXCEPT ![b] = m.addr]
  /\ leaseLeft' = [leaseLeft EXCEPT ![b] = m.lease]
  /\ UNCHANGED <<cnt, tid, yiaddr, server_id, lease, asked, renewAge>>

-------------------------------------------------------------------------------
(* The main loop: packetloop_dhcp_renewhandler(). *)

\* What every iteration does: the lease counts down, broadcasts are enabled.
MinutePassed(b) == cnt[b] > 8
OneLess(l) == IF l < Infinite /\ l > 1 THEN l - 1 ELSE l
LeaseNow(b) == IF MinutePassed(b) THEN OneLess(lease[b]) ELSE lease[b]

RunIteration(b) ==
  /\ phase[b] = "run"
  /\ iters' = [iters EXCEPT ![b] = 1]
  /\ cnt' = [cnt EXCEPT ![b] = IF MinutePassed(b) THEN 0 ELSE @]
  /\ bcast' = [bcast EXCEPT ![b] = TRUE]
  /\ UNCHANGED <<phase, init, yiaddr, server_id, acked>>

\* No renewal is due, the link is down, or another frame came.
RunIdle(b) ==
  /\ RunIteration(b)
  /\ lease' = [lease EXCEPT ![b] = LeaseNow(b)]
  /\ UNCHANGED <<tid, asked, leaseLeft, renewAge>>

RenewDue(b) == LeaseNow(b) < 3

Renew(b) ==
  /\ RunIteration(b)
  /\ RenewDue(b)
  /\ tid' = [tid EXCEPT ![b] = NextTid(b)]
  /\ lease' = [lease EXCEPT ![b] = Renewed]
  /\ asked' = asked \cup {Asked("renew", b, tid'[b], Nobody, yiaddr[b])}
  /\ leaseLeft' = [leaseLeft EXCEPT ![b] = Forever]
  /\ renewAge' = [renewAge EXCEPT ![b] = 2 * TicksPerMinute + 1]

RunReceives(b, m) ==
  /\ RunIteration(b)
  /\ lease' = [lease EXCEPT ![b] =
                 IF Readable(RunMaxLen) /\ ForMe(b, m) /\ m.type = "ack" /\ m.renew
                   THEN Minutes(m.lease) ELSE LeaseNow(b)]
  /\ UNCHANGED <<tid, asked, leaseLeft, renewAge>>

-------------------------------------------------------------------------------

\* The box starts again.  It does not listen before its first DISCOVER, 36
\* seconds later, when the answers to what it asked before are gone.
Restart(b) ==
  /\ phase' = [phase EXCEPT ![b] = "boot"]
  /\ init' = [init EXCEPT ![b] = InitDelay]
  /\ cnt' = [cnt EXCEPT ![b] = 0]
  /\ iters' = [iters EXCEPT ![b] = 0]
  /\ tid' = [tid EXCEPT ![b] = 0]
  /\ yiaddr' = [yiaddr EXCEPT ![b] = Nobody]
  /\ server_id' = [server_id EXCEPT ![b] = Nobody]
  /\ lease' = [lease EXCEPT ![b] = 0]
  /\ bcast' = [bcast EXCEPT ![b] = FALSE]
  /\ asked' = {a \in asked : a.box # b}
  /\ acked' = [acked EXCEPT ![b] = Nobody]
  /\ leaseLeft' = [leaseLeft EXCEPT ![b] = 0]
  /\ renewAge' = [renewAge EXCEPT ![b] = 0]

BootNext(b) ==
  \/ BootIgnores(b)
  \/ \E arrives \in BOOLEAN : FirstDiscover(b, arrives) \/ RetryDiscover(b, arrives)
  \/ BootDelay(b)
  \/ \E m \in Heard(b) : TakeOffer(b, m) \/ TakeAck(b, m)

RunNext(b) ==
  \/ RunIdle(b)
  \/ Renew(b)
  \/ \E m \in Heard(b) : RunReceives(b, m)

Next ==
  \/ Tick6
  \/ \E b \in Boxes : BootNext(b) \/ RunNext(b) \/ Restart(b)

Spec == Init /\ [][Next]_vars

SendsDiscover(b) ==
  \E arrives \in BOOLEAN : FirstDiscover(b, arrives) \/ RetryDiscover(b, arrives)

\* Time passes and the loop makes its iterations, of those that do something
\* again and again one with the link up and without a frame.
FairSpec ==
  /\ Spec
  /\ WF_vars(Tick6)
  /\ \A b \in Boxes :
       /\ SF_vars(SendsDiscover(b))
       /\ SF_vars(BootDelay(b))
       /\ WF_vars(RunIdle(b) \/ Renew(b))

\* Of the DISCOVERs that are repeated some arrive, and what a server answers to
\* what did arrive is heard.
ReliableSpec ==
  /\ FairSpec
  /\ \A b \in Boxes :
       /\ SF_vars(RetryDiscover(b, TRUE))
       /\ SF_vars(\E m \in Heard(b) : TakeOffer(b, m))
       /\ SF_vars(\E m \in Heard(b) : TakeAck(b, m))

-------------------------------------------------------------------------------
(* Properties. *)

TypeOK ==
  /\ phase \in [Boxes -> {"boot", "run"}]
  /\ init \in [Boxes -> 1 .. InitDelay]
  /\ cnt \in [Boxes -> 0 .. CntMod - 1]
  /\ iters \in [Boxes -> 0 .. IterPerTick]
  /\ tid \in [Boxes -> Tids]
  /\ yiaddr \in [Boxes -> Addresses \cup {Nobody}]
  /\ server_id \in [Boxes -> Servers \cup {Nobody}]
  /\ lease \in [Boxes -> Leases]
  /\ bcast \in [Boxes -> BOOLEAN]
  /\ asked \subseteq [type : {"discover", "request", "renew"}, box : Boxes, tid : Tids,
                      server : Servers \cup {Nobody}, addr : Addresses \cup {Nobody}]
  /\ acked \in [Boxes -> Addresses \cup {Nobody}]
  /\ leaseLeft \in [Boxes -> Nat \cup {Forever}]
  /\ renewAge \in [Boxes -> Nat]

\* A box runs with the address that the ACK was about, although it takes it
\* from an OFFER and does not read the ACK (dhcp_client.c:431-450).  This is a
\* property of LANs with one server: of two that offer, one may be heard last
\* and the other acknowledge first.
RunsWithAckedAddress ==
  \A b \in Boxes : phase[b] = "run" => yiaddr[b] = acked[b]

\* Renewals are repeated "in two minutes if no answer" (dhcp_client.c:484):
\* never sooner, the one minute the counter is already in apart.
RenewalSpacing ==
  [][\A b \in Boxes : Renew(b) => renewAge[b] = 0]_vars

\* "it is better this expires too early than too late" (dhcp_client.c:473): as
\* long as the box does not ask for a renewal, its lease is not over.  Leases
\* shorter than 29 ticks, which Minutes() rounds up to five minutes, are not meant.
LeaseHeldIsValid ==
  \A b \in Boxes :
    phase[b] = "run" /\ lease[b] >= 3 => leaseLeft[b] # 0

\* A box that is not reset any more and whose REQUESTs are answered gets its
\* address, however many of its DISCOVERs are lost (dhcp_client.c:396-429).
GetsAnAddress ==
  \A b \in Boxes : <>[][~Restart(b)]_vars => <>[](phase[b] = "run")

\* The boxes "must all have different TIDs otherwise there will be an IP address
\* mess-up" (dhcp_client.c:385-386): two boxes never run with one address.
NoAddressMessUp ==
  \A b, c \in Boxes :
    b # c /\ phase[b] = "run" /\ phase[c] = "run" => yiaddr[b] # yiaddr[c]

\* Only without dhcp_6sec_tick() is the initial IP asked for "without retry in
\* case of failure" (dhcp_client.c:24-26): a box that is not reset asks again and
\* again until it has its address.
BootKeepsAsking ==
  \A b \in Boxes :
    <>[][~Restart(b)]_vars => <>(phase[b] = "run") \/ []<><<SendsDiscover(b)>>_vars

\* "success, DHCPACK, we have the IP ... get new lease time"
\* (dhcp_client.c:488-492): the answer to a renewal sets the lease.
RenewalIsTaken ==
  [][\A b \in Boxes : \A m \in Heard(b) :
       RunReceives(b, m) /\ m.renew /\ ForMe(b, m)
         => lease'[b] = Minutes(m.lease)]_vars
===============================================================================
