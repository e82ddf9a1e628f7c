-------------------------- MODULE LoggerUplinkProofs --------------------------
(***************************************************************************)
(* Proofs about LoggerUplink for every value of its constants: any number  *)
(* of ticks in a second, any timeouts that sec can count, any hosts and    *)
(* settings.                                                               *)
(***************************************************************************)
EXTENDS LoggerUplink, TLAPS

-------------------------------------------------------------------------------
(* Type correctness. *)

\* What an iteration can find in the variables GatewayStage assigns.
LEMMA GatewayType ==
  ASSUME TypeOK, NEW arp \in {"none", "initial", "waiting", "have"}, GatewayStage(arp)
  PROVE  gw_arp_state' \in 0 .. 2 /\ arpip_state' \in {"none", "initial", "waiting", "have"}
BY DEF TypeOK, GatewayStage

LEMMA WhoHasType ==
  ASSUME TypeOK, NEW up \in BOOLEAN
  PROVE  WhoHasSent(up) \in {"none", "initial", "waiting", "have"}
BY DEF TypeOK, WhoHasSent

LEMMA RefreshType ==
  ASSUME TypeOK, NEW k \in Loggers
  PROVE  /\ server_data[k] \in Settings[k]
         /\ server_data[k].refresh \in Nat
         /\ server_data[k].host \in Hosts
BY SettingsAssumption DEF TypeOK, Configured

LEMMA RearmType ==
  ASSUME TypeOK, RearmDisabled
  PROVE  Wt' \in [Loggers -> {0, 1}] /\ TimeWt' \in [Loggers -> Nat]
BY RefreshType DEF TypeOK, RearmDisabled

LEMMA CurrentType == Current \in Loggers
BY DEF Current, Loggers

LEMMA DestinationType ==
  ASSUME TypeOK, Resolved
  PROVE  Destination \in Hosts \cup {NoHost}
BY CurrentType, RefreshType DEF Destination, TypeOK

LEMMA ConstantsType ==
  /\ SecMod \in Nat /\ SecMod > 0
  /\ TicksPerSec \in Nat /\ TicksPerSec > 0
  /\ RebootMod \in Nat /\ RebootMod > 1
  /\ PostTimeout \in Nat /\ DnsTimeout \in Nat
  /\ NoHost \notin Hosts
  /\ 0 \in Tids /\ \A t \in Tids : (t + 1) % TidMod \in Tids
BY TimingAssumption, HostsAssumption DEF Tids

LEMMA CountType ==
  ASSUME TypeOK, CountFailure
  PROVE  reboot_counter' \in 0 .. RebootMod - 1
BY ConstantsType DEF TypeOK, CountFailure
LEMMA TickType ==
  ASSUME TypeOK, Tick
  PROVE  TypeOK'
<1>1. sec' \in 0 .. SecMod - 1 /\ sec_cnt' \in 0 .. TicksPerSec - 1
  BY ConstantsType DEF TypeOK, Tick, SecondPassed
<1>2. Wt' \in [Loggers -> {0, 1}] /\ TimeWt' \in [Loggers -> Nat]
  BY DEF TypeOK, Tick, Expire, CountDown
<1>3. Tr0' \in {0, 1} /\ TimeTs0' \in Nat
  BY DEF TypeOK, Tick, Expire, CountDown
<1>4. exclusive' \in Nat /\ lookupAge' \in Nat
  BY DEF TypeOK, Tick, Less1
<1>5. sent' \in [to : Hosts \cup {NoHost}, host : Hosts \cup {NoHost},
                 body : {"readings", "other"}]
  BY DEF Tick, NoPost
<1> QED
  BY <1>1, <1>2, <1>3, <1>4, <1>5
  DEF TypeOK, Tick, Configured, resolver, lookup, client

LEMMA PollSensorsType ==
  ASSUME TypeOK, PollSensors
  PROVE  TypeOK'
BY ConstantsType, TimingAssumption
DEF TypeOK, PollSensors, Configured, resolver, lookup, client, history, NoPost

LEMMA IdleType ==
  ASSUME TypeOK, NEW up \in BOOLEAN, Idle(up)
  PROVE  /\ pc' \in {"http", "sensors"}
         /\ gw_arp_state' \in 0 .. 2
         /\ arpip_state' \in {"none", "initial", "waiting", "have"}
         /\ sent' \in [to : Hosts \cup {NoHost}, host : Hosts \cup {NoHost},
                       body : {"readings", "other"}]
         /\ sec_cnt' \in 0 .. TicksPerSec - 1
         /\ Tr0' \in {0, 1}
         /\ TimeTs0' \in Nat
         /\ server_data' \in [Loggers -> Settings[0] \cup Settings[1]]
         /\ Configured(server_data)'
         /\ tcp_otherside' \in Hosts \cup {NoHost}
<1>1. gw_arp_state' \in 0 .. 2 /\ arpip_state' \in {"none", "initial", "waiting", "have"}
  BY WhoHasType, GatewayType DEF Idle
<1> QED
  BY <1>1 DEF TypeOK, Idle, Iteration, Configured, NoPost

LEMMA IdleStepsType ==
  ASSUME TypeOK, IdleIteration
  PROVE  TypeOK'
<1>1. PICK up \in BOOLEAN :
        \/ NothingToPost(up)
        \/ \E still \in BOOLEAN : RequestLookup(up, still)
        \/ AwaitLookup(up)
        \/ Post(up)
        \/ AwaitCallback(up)
  BY DEF IdleIteration
<1>2. SynSent(up) \in 0 .. 7
  BY DEF SynSent, TypeOK
<1>3. CASE NothingToPost(up)
  BY <1>2, <1>3, IdleType, RearmType DEF TypeOK, NothingToPost, lookup, history
<1>4. CASE \E still \in BOOLEAN : RequestLookup(up, still)
  <2>0. PICK still \in BOOLEAN : RequestLookup(up, still)
    BY <1>4
  <2>1. server_data[Current].host \in Hosts /\ NextTid \in Tids
    BY CurrentType, RefreshType, ConstantsType DEF TypeOK, NextTid
  <2>2. SecondsInTicks(DnsTimeout + 1) \in Nat
    BY ConstantsType DEF SecondsInTicks
  <2>3. /\ tid' \in Tids
        /\ questions' \in [Tids -> Hosts \cup {NoHost}]
        /\ asked' \in Hosts \cup {NoHost}
    BY <2>0, <2>1 DEF TypeOK, RequestLookup
  <2> QED
    BY <1>2, <2>0, <2>2, <2>3, IdleType, RearmType, ConstantsType
    DEF TypeOK, RequestLookup, AnswerAtRequest
<1>5. CASE AwaitLookup(up)
  BY <1>2, <1>5, IdleType, RearmType, CountType DEF TypeOK, AwaitLookup, history
<1>6. CASE Post(up)
  <2>1. gw_arp_state' \in 0 .. 2 /\ arpip_state' \in {"none", "initial", "waiting", "have"}
    BY <1>6, WhoHasType, GatewayType DEF Post
  <2>2. Destination \in Hosts \cup {NoHost}
    BY <1>6, DestinationType DEF Post
  <2>3. Wt' \in [Loggers -> {0, 1}] /\ TimeWt' \in [Loggers -> Nat]
    BY <1>6, RefreshType DEF TypeOK, Post
  <2>4. SecondsInTicks(PostTimeout) \in Nat
    BY TimingAssumption DEF SecondsInTicks
  <2> QED
    BY <1>6, <2>1, <2>2, <2>3, <2>4, CurrentType, ConstantsType
    DEF TypeOK, Post, Iteration, Configured, NoPost
<1>7. CASE AwaitCallback(up)
  <2>1. Destination \in Hosts \cup {NoHost}
    BY <1>7, DestinationType DEF AwaitCallback
  <2> QED
    BY <1>2, <1>7, <2>1, IdleType, RearmType, CountType DEF TypeOK, AwaitCallback, history
<1> QED
  BY <1>1, <1>3, <1>4, <1>5, <1>6, <1>7

\* The TCP client has a logger's text buffers whenever it has an address.
ClientHasBuffers == tcp_otherside # NoHost => hoststr \in Loggers

LEMMA FrameType ==
  ASSUME TypeOK, Frame
  PROVE  /\ pc' \in {"http", "sensors"}
         /\ sec' \in 0 .. SecMod - 1
         /\ sec_cnt' \in 0 .. TicksPerSec - 1
         /\ Wt' \in [Loggers -> {0, 1}]
         /\ TimeWt' \in [Loggers -> Nat]
         /\ Tr0' \in {0, 1}
         /\ TimeTs0' \in Nat
         /\ lookupAge' \in Nat
         /\ asked' \in Hosts \cup {NoHost}
BY RearmType DEF TypeOK, Frame, Iteration

LEMMA SegmentType ==
  ASSUME TypeOK, ClientHasBuffers, NEW s \in Segments, NEW own \in BOOLEAN, Segment(s, own)
  PROVE  TypeOK'
<1>1. gw_arp_state' \in 0 .. 2 /\ arpip_state' \in {"none", "initial", "waiting", "have"}
  BY GatewayType DEF Segment, TypeOK
<1>2. tcp_client_state' \in 0 .. 7
  BY DEF TypeOK, Segment, NextTcpState
<1>3. sent' \in [to : Hosts \cup {NoHost}, host : Hosts \cup {NoHost},
                 body : {"readings", "other"}]
  <2>1. server_data[hoststr].host \in Hosts
    BY RefreshType DEF Segment, ClientHasBuffers
  <2> QED
    BY <2>1 DEF TypeOK, Segment, Request, NoPost
<1>4. start_web_client' \in 0 .. 3 /\ exclusive' \in Nat
  BY DEF TypeOK, Segment
<1> QED
  <2>1. Frame
    BY DEF Segment
  <2>2. UNCHANGED <<server_data, lookup, tcp_otherside, hoststr, xbuf, reboot_counter>>
    BY DEF Segment
  <2> QED
    BY <1>1, <1>2, <1>3, <1>4, <2>1, <2>2, FrameType DEF TypeOK, Configured, lookup

LEMMA FrameStepsType ==
  ASSUME TypeOK, ClientHasBuffers, FrameIteration
  PROVE  TypeOK'
<1>1. CASE GatewayAnswers
  BY <1>1, FrameType, GatewayType
  DEF TypeOK, GatewayAnswers, Configured, lookup, client, NoPost
<1>2. CASE \E t \in Tids : DnsAnswers(t)
  <2>1. PICK t \in Tids : DnsAnswers(t)
    BY <1>2
  <2>2. answer' \in Hosts \cup {NoHost}
    BY <2>1 DEF TypeOK, DnsAnswers
  <2> QED
    BY <2>1, <2>2, FrameType, GatewayType DEF TypeOK, DnsAnswers, Configured, client, NoPost
<1>3. CASE \E s \in Segments, own \in BOOLEAN : Segment(s, own)
  BY <1>3, SegmentType
<1>4. CASE OtherFrame
  BY <1>4, FrameType, GatewayType DEF TypeOK, OtherFrame, Configured, lookup, client, NoPost
<1>5. CASE UdpSearch
  BY <1>5, FrameType, GatewayType DEF TypeOK, UdpSearch, Configured, lookup, client, NoPost
<1>6. CASE \E served \in BOOLEAN : WebPage(served)
  BY <1>6, FrameType, ConstantsType
  DEF TypeOK, WebPage, Configured, resolver, lookup, client, NoPost
<1>7. CASE \E k \in Loggers : \E new \in Settings[k] : SaveLogger(k, new)
  <2>1. PICK k \in Loggers : \E new \in Settings[k] : SaveLogger(k, new)
    BY <1>7
  <2>2. PICK new \in Settings[k] : SaveLogger(k, new)
    BY <2>1
  <2>3. Wt' \in [Loggers -> {0, 1}] /\ TimeWt' \in [Loggers -> Nat]
    BY <2>2, RefreshType DEF TypeOK, SaveLogger
  <2>4. /\ server_data' \in [Loggers -> Settings[0] \cup Settings[1]]
        /\ Configured(server_data)'
    BY <2>2 DEF TypeOK, SaveLogger, Configured, Loggers
  <2> QED
    BY <2>2, <2>3, <2>4, ConstantsType
    DEF TypeOK, SaveLogger, Iteration, resolver, lookup, client, history, NoPost
<1>8. CASE OtherRequest
  BY <1>8, FrameType DEF TypeOK, OtherRequest, Configured, resolver, lookup, client, NoPost
<1> QED
  BY <1>1, <1>2, <1>3, <1>4, <1>5, <1>6, <1>7, <1>8 DEF FrameIteration

LEMMA RestartType ==
  ASSUME TypeOK, NEW settings \in {server_data, DefaultSettings}, Restart(settings)
  PROVE  TypeOK'
<1>1. /\ settings \in [Loggers -> Settings[0] \cup Settings[1]]
      /\ Configured(settings)
  BY SettingsAssumption DEF TypeOK, Configured
<1> QED
  BY <1>1, ConstantsType DEF TypeOK, Restart, Configured, NoPost, Loggers

LEMMA ClientHasBuffersStep ==
  ASSUME TypeOK, ClientHasBuffers, [Next]_vars
  PROVE  ClientHasBuffers'
<1>1. CASE \E up \in BOOLEAN : Post(up)
  BY <1>1, CurrentType DEF Post, ClientHasBuffers
<1>2. CASE \E settings \in {server_data, DefaultSettings} : Restart(settings)
  BY <1>2 DEF Restart, ClientHasBuffers
<1>3. CASE UNCHANGED <<tcp_otherside, hoststr>>
  BY <1>3 DEF ClientHasBuffers
<1> QED
  BY <1>1, <1>2, <1>3
  DEF Next, IdleIteration, NothingToPost, RequestLookup, AwaitLookup, AwaitCallback, Idle,
      FrameIteration, GatewayAnswers, DnsAnswers, Segment, OtherFrame, UdpSearch, OtherRequest, WebPage,
      SaveLogger, PollSensors, Tick, client, vars

LEMMA TypeStep ==
  ASSUME TypeOK, ClientHasBuffers, [Next]_vars
  PROVE  TypeOK' /\ ClientHasBuffers'
<1>1. CASE UNCHANGED vars
  <2>1. TypeOK'
    BY <1>1 DEF TypeOK, Configured, vars, timers, resolver, lookup, client, history
  <2> QED
    BY <2>1, ClientHasBuffersStep
<1> QED
  BY <1>1, ClientHasBuffersStep, IdleStepsType, FrameStepsType, PollSensorsType, TickType,
     RestartType
  DEF Next

LEMMA TypeInit ==
  ASSUME Init
  PROVE  TypeOK /\ ClientHasBuffers
BY ConstantsType DEF Init, Boot, TypeOK, ClientHasBuffers, Configured, NoPost, Loggers

\* Every variable keeps its type, and the POST that leaves the box is built from
\* buffers that were handed over.
THEOREM TypeCorrect == Spec => [](TypeOK /\ ClientHasBuffers)
BY TypeInit, TypeStep, PTL DEF Spec
-------------------------------------------------------------------------------
(* The inductive invariant.                                                   *)
(*                                                                            *)
(* sec is shared by the POST's timeout and the lookup's, both actions clear   *)
(* it, and the tick it is in goes on counting; so neither deadline can be     *)
(* read off sec alone.  TicksUntil(n) is the number of interrupts after which *)
(* sec is n unless it is cleared.                                             *)

TicksUntil(n) == (n - sec) * TicksPerSec - sec_cnt

\* While a POST owns the web client its time has not run out.
PostInv ==
  /\ start_web_client # 2 => exclusive = 0
  /\ exclusive > 0 => sec < PostTimeout /\ exclusive <= TicksUntil(PostTimeout)

\* A lookup that was begun ends by its answer or by its timeout, not before.
LookupInv ==
  /\ dns_state = 0 => lookupAge = 0
  /\ dns_state = 1 /\ lookupAge > 0
       => sec <= DnsTimeout /\ lookupAge <= TicksUntil(DnsTimeout + 1)

\* The question of a lookup is the last one that was sent, and an answer that
\* was taken is the answer to it.
AskedInv ==
  asked # NoHost => asked = questions[tid] /\ answer \in {NoHost, asked}

\* A lookup is asked through the gateway, and its result is an address.
RouteInv ==
  /\ dns_state # 0 => gw_arp_state = 2
  /\ dns_state = 2 => otherside # NoHost

IInv ==
  /\ TypeOK
  /\ ClientHasBuffers
  /\ PostInv
  /\ LookupInv
  /\ RouteInv
  /\ AskedInv

\* An interrupt brings every deadline that is still ahead one tick nearer.
LEMMA TickNearer ==
  ASSUME TypeOK, Tick, NEW n \in Nat, n < SecMod, sec < n
  PROVE  TicksUntil(n)' = TicksUntil(n) - 1 /\ sec' <= n
<1>1. sec \in Nat /\ sec_cnt \in 0 .. TicksPerSec - 1 /\ TicksPerSec \in Nat \ {0} /\ SecMod \in Nat
  BY ConstantsType DEF TypeOK
<1>2. CASE SecondPassed
  <2>1. sec_cnt = TicksPerSec - 1 /\ sec_cnt' = 0
    BY <1>1, <1>2 DEF Tick, SecondPassed
  <2>2. sec' = sec + 1
    <3>1. sec + 1 \in 0 .. SecMod - 1
      BY <1>1
    <3>2. (sec + 1) % SecMod = sec + 1
      BY <1>1, <3>1
    <3> QED
      BY <1>2, <3>2 DEF Tick
  <2> QED
    BY <1>1, <2>1, <2>2 DEF TicksUntil
<1>3. CASE ~SecondPassed
  BY <1>1, <1>3 DEF Tick, TicksUntil
<1> QED
  BY <1>2, <1>3

\* A deadline that is ticks away is seconds away.
LEMMA AheadInSeconds ==
  ASSUME NEW n \in Nat, NEW s \in Nat, NEW c \in Nat, s <= n,
         (n - s) * TicksPerSec - c > 0
  PROVE  s < n
<1>1. CASE s = n
  <2>1. (n - s) * TicksPerSec = 0
    BY <1>1, ConstantsType
  <2> QED
    BY <2>1
<1> QED
  BY <1>1

\* Clearing sec moves no deadline nearer.
LEMMA ClearedIsLater ==
  ASSUME NEW n \in Nat, NEW s \in Nat, NEW c \in Nat
  PROVE  (n - s) * TicksPerSec - c <= n * TicksPerSec - c
<1>1. s * TicksPerSec >= 0
  BY ConstantsType
<1>2. (n - s) * TicksPerSec = n * TicksPerSec - s * TicksPerSec
  BY ConstantsType
<1> QED
  BY <1>1, <1>2, ConstantsType

\* A deadline set as sec is cleared is at least SecondsInTicks away, wherever in
\* its second the interrupt is.
LEMMA ClearedIsFar ==
  ASSUME NEW n \in Nat, NEW c \in 0 .. TicksPerSec - 1
  PROVE  SecondsInTicks(n) <= n * TicksPerSec - c
<1>1. (n - 1) * TicksPerSec = n * TicksPerSec - TicksPerSec
  BY ConstantsType
<1> QED
  BY <1>1, ConstantsType DEF SecondsInTicks
LEMMA PostInvStep ==
  ASSUME IInv, [Next]_vars
  PROVE  PostInv'
<1> USE DEF IInv
<1>1. /\ sec \in Nat /\ sec_cnt \in 0 .. TicksPerSec - 1
      /\ PostTimeout \in Nat /\ PostTimeout < SecMod
      /\ exclusive \in Nat
  BY TimingAssumption DEF TypeOK
<1>2. CASE Tick
  <2>1. start_web_client' = start_web_client /\ exclusive' = Less1(exclusive)
    BY <1>2 DEF Tick, client
  <2>2. CASE exclusive <= 1
    BY <1>1, <2>1, <2>2 DEF PostInv, Less1
  <2>3. CASE exclusive > 1
    <3>1. sec < PostTimeout /\ exclusive <= TicksUntil(PostTimeout)
      BY <1>1, <2>3 DEF PostInv
    <3>2. TicksUntil(PostTimeout)' = TicksUntil(PostTimeout) - 1 /\ sec' <= PostTimeout
      BY <1>1, <1>2, <3>1, TickNearer
    <3>3. TicksUntil(PostTimeout) \in Int
      BY <1>1, ConstantsType DEF TicksUntil
    <3>4. exclusive' <= TicksUntil(PostTimeout)' /\ TicksUntil(PostTimeout)' > 0
      BY <1>1, <2>1, <2>3, <3>1, <3>2, <3>3 DEF Less1
    <3>5. sec' \in Nat /\ sec_cnt' \in Nat
      BY <1>2, TickType, ConstantsType DEF TypeOK
    <3>6. sec' < PostTimeout
      BY <1>1, <3>2, <3>4, <3>5, AheadInSeconds DEF TicksUntil
    <3> QED
      BY <2>1, <2>3, <3>4, <3>6 DEF PostInv
  <2> QED
    BY <1>1, <2>2, <2>3
<1>3. CASE \E up \in BOOLEAN : Post(up)
  <2>1. /\ start_web_client' = 2 /\ sec' = 0 /\ sec_cnt' = sec_cnt
        /\ exclusive' = SecondsInTicks(PostTimeout)
    BY <1>3 DEF Post
  <2>2. exclusive' <= TicksUntil(PostTimeout)'
    BY <1>1, <2>1, ClearedIsFar DEF TicksUntil
  <2> QED
    BY <2>1, <2>2, TimingAssumption DEF PostInv
<1>4. CASE \E up, still \in BOOLEAN : RequestLookup(up, still)
  <2>1. UNCHANGED <<start_web_client, exclusive, sec_cnt>> /\ (sec' = 0 \/ sec' = sec)
    BY <1>4 DEF RequestLookup, Idle
  <2>2. TicksUntil(PostTimeout) <= TicksUntil(PostTimeout)'
    BY <1>1, <2>1, ClearedIsLater, ConstantsType DEF TicksUntil
  <2>3. TicksUntil(PostTimeout) \in Int /\ TicksUntil(PostTimeout)' \in Int
    BY <1>1, <2>1, ConstantsType DEF TicksUntil
  <2> QED
    BY <1>1, <2>1, <2>2, <2>3 DEF PostInv
<1>5. CASE \E up \in BOOLEAN : AwaitCallback(up)
  <2>1. UNCHANGED <<sec, sec_cnt, exclusive>>
    BY <1>5 DEF AwaitCallback, Idle, history
  <2>2. start_web_client = 2 /\ start_web_client' # 2 => exclusive = 0
    BY <1>1, <1>5 DEF AwaitCallback, PostTimedOut, PostInv
  <2>3. start_web_client # 2 => start_web_client' # 2
    BY <1>5 DEF AwaitCallback
  <2> QED
    BY <2>1, <2>2, <2>3 DEF PostInv, TicksUntil
<1>6. CASE \E s \in Segments, own \in BOOLEAN : Segment(s, own)
  <2>1. UNCHANGED <<sec, sec_cnt>>
    BY <1>6 DEF Segment, Frame
  <2>2. exclusive' = 0 \/ UNCHANGED <<start_web_client, exclusive>>
    BY <1>6 DEF Segment
  <2> QED
    BY <2>1, <2>2 DEF PostInv, TicksUntil
<1>7. CASE \E settings \in {server_data, DefaultSettings} : Restart(settings)
  BY <1>7 DEF Restart, PostInv
<1>8. CASE UNCHANGED <<start_web_client, exclusive, sec, sec_cnt>>
  BY <1>8 DEF PostInv, TicksUntil
<1> QED
  BY <1>2, <1>3, <1>4, <1>5, <1>6, <1>7, <1>8
  DEF Next, IdleIteration, NothingToPost, AwaitLookup, Idle, FrameIteration, Frame,
      GatewayAnswers, DnsAnswers, OtherFrame, UdpSearch, OtherRequest, WebPage, SaveLogger, PollSensors,
      client, history, timers, vars

LEMMA LookupInvStep ==
  ASSUME IInv, [Next]_vars
  PROVE  LookupInv'
<1> USE DEF IInv
<1> DEFINE limit == DnsTimeout + 1
<1>1. /\ sec \in Nat /\ sec_cnt \in 0 .. TicksPerSec - 1
      /\ DnsTimeout \in Nat /\ limit \in Nat /\ limit < SecMod
      /\ lookupAge \in Nat
  BY TimingAssumption DEF TypeOK
<1>2. CASE Tick
  <2>1. dns_state' = dns_state /\ lookupAge' = Less1(lookupAge)
    BY <1>2 DEF Tick, lookup
  <2>2. CASE lookupAge <= 1 \/ dns_state # 1
    BY <1>1, <2>1, <2>2 DEF LookupInv, Less1
  <2>3. CASE lookupAge > 1 /\ dns_state = 1
    <3>1. sec < limit /\ lookupAge <= TicksUntil(limit)
      BY <1>1, <2>3 DEF LookupInv
    <3>2. TicksUntil(limit)' = TicksUntil(limit) - 1 /\ sec' <= limit
      BY <1>1, <1>2, <3>1, TickNearer
    <3>3. TicksUntil(limit) \in Int
      BY <1>1, ConstantsType DEF TicksUntil
    <3>4. lookupAge' <= TicksUntil(limit)' /\ TicksUntil(limit)' > 0
      BY <1>1, <2>1, <2>3, <3>1, <3>2, <3>3 DEF Less1
    <3>5. sec' \in Nat /\ sec_cnt' \in Nat
      BY <1>2, TickType, ConstantsType DEF TypeOK
    <3>6. sec' < limit
      BY <1>1, <3>2, <3>4, <3>5, AheadInSeconds DEF TicksUntil
    <3> QED
      BY <1>1, <2>1, <2>3, <3>4, <3>5, <3>6 DEF LookupInv
  <2> QED
    BY <1>1, <2>2, <2>3
<1>3. CASE \E up \in BOOLEAN : Post(up)
  BY <1>3 DEF Post, LookupInv
<1>4. CASE \E up, still \in BOOLEAN : RequestLookup(up, still)
  <2>1. CASE UNCHANGED <<dns_state, lookupAge, sec>>
    BY <1>4, <2>1 DEF RequestLookup, Idle, LookupInv, TicksUntil
  <2>2. CASE /\ dns_state' = 1 /\ sec' = 0 /\ sec_cnt' = sec_cnt
             /\ lookupAge' = SecondsInTicks(limit)
    <3>1. lookupAge' <= TicksUntil(limit)'
      BY <1>1, <2>2, ClearedIsFar DEF TicksUntil
    <3> QED
      BY <1>1, <2>2, <3>1 DEF LookupInv
  <2> QED
    BY <1>4, <2>1, <2>2 DEF RequestLookup, Idle
<1>5. CASE \E up \in BOOLEAN : AwaitLookup(up)
  <2>1. UNCHANGED <<sec, sec_cnt, lookupAge>>
    BY <1>5 DEF AwaitLookup, Idle, history
  <2>2. dns_state' = dns_state \/ (dns_state' = 0 /\ dns_state # 2 /\ sec > DnsTimeout)
    BY <1>5 DEF AwaitLookup, LookupTimedOut, Resolved, LookupDone
  <2>3. dns_state \in 0 .. 2
    BY DEF TypeOK
  <2> QED
    BY <1>1, <2>1, <2>2, <2>3 DEF LookupInv, TicksUntil
<1>6. CASE \E up \in BOOLEAN : AwaitCallback(up)
  <2>1. UNCHANGED <<sec, sec_cnt, lookupAge>> /\ (dns_state' = 2 \/ dns_state' = dns_state)
    BY <1>6 DEF AwaitCallback, Idle, history
  <2> QED
    BY <2>1 DEF LookupInv, TicksUntil
<1>7. CASE \E settings \in {server_data, DefaultSettings} : Restart(settings)
  BY <1>7 DEF Restart, LookupInv
<1>8. CASE UNCHANGED <<dns_state, lookupAge, sec, sec_cnt>>
  BY <1>8 DEF LookupInv, TicksUntil
<1> QED
  BY <1>2, <1>3, <1>4, <1>5, <1>6, <1>7, <1>8
  DEF Next, IdleIteration, NothingToPost, Idle, FrameIteration, Frame,
      GatewayAnswers, DnsAnswers, Segment, OtherFrame, UdpSearch, OtherRequest, WebPage, SaveLogger,
      PollSensors, lookup, history, timers, vars
LEMMA RouteInvStep ==
  ASSUME IInv, [Next]_vars
  PROVE  RouteInv'
<1> USE DEF IInv
<1>1. CASE \E up \in BOOLEAN : Post(up) \/ AwaitLookup(up)
  <2>1. gw_arp_state = 2 => gw_arp_state' = 2
    BY <1>1 DEF Post, AwaitLookup, Idle, GatewayStage
  <2>2. dns_state' = 0 \/ UNCHANGED <<dns_state, otherside>>
    BY <1>1 DEF Post, AwaitLookup
  <2> QED
    BY <2>1, <2>2 DEF RouteInv
<1>2. CASE \E up, still \in BOOLEAN : RequestLookup(up, still)
  BY <1>2 DEF RequestLookup, MayLookup, RouteInv
<1>3. CASE \E up \in BOOLEAN : AwaitCallback(up)
  <2>1. gw_arp_state = 2 => gw_arp_state' = 2
    BY <1>3 DEF AwaitCallback, Idle, GatewayStage
  <2>2. otherside' = Destination /\ Resolved
    BY <1>3 DEF AwaitCallback
  <2>3. CASE Named(Current)
    <3>1. dns_state' = 2 /\ dns_state # 0
      BY <1>3, <2>2, <2>3 DEF AwaitCallback, Resolved, LookupDone
    <3>2. Destination # NoHost
      BY <2>2, <2>3 DEF Resolved, LookupDone, Destination, RouteInv
    <3> QED
      BY <2>1, <2>2, <3>1, <3>2 DEF RouteInv
  <2>4. CASE ~Named(Current)
    <3>1. Destination \in Hosts
      BY <2>4, CurrentType, RefreshType DEF Destination
    <3> QED
      BY <1>3, <2>1, <2>2, <2>4, <3>1, HostsAssumption DEF AwaitCallback, RouteInv
  <2> QED
    BY <2>3, <2>4
<1>4. CASE \E settings \in {server_data, DefaultSettings} : Restart(settings)
  BY <1>4 DEF Restart, RouteInv
<1>5. CASE UNCHANGED <<dns_state, otherside>> /\ (gw_arp_state = 2 => gw_arp_state' = 2)
  BY <1>5 DEF RouteInv
<1> QED
  BY <1>1, <1>2, <1>3, <1>4, <1>5
  DEF Next, IdleIteration, NothingToPost, Idle, FrameIteration,
      GatewayAnswers, DnsAnswers, Segment, OtherFrame, UdpSearch, OtherRequest, WebPage, SaveLogger,
      PollSensors, Tick, GatewayStage, lookup, resolver, vars

LEMMA AskedStep ==
  ASSUME IInv, [Next]_vars
  PROVE  AskedInv'
<1> USE DEF IInv
<1>1. CASE \E up, still \in BOOLEAN : RequestLookup(up, still)
  <2>1. PICK up \in BOOLEAN, still \in BOOLEAN : RequestLookup(up, still)
    BY <1>1
  <2>2. NextTid \in Tids /\ DOMAIN questions = Tids
    BY ConstantsType DEF TypeOK, NextTid
  <2>3. CASE up /\ still
    BY <2>1, <2>2, <2>3 DEF RequestLookup, AnswerAtRequest, AskedInv
  <2>4. CASE up /\ ~still
    BY <2>1, <2>4 DEF RequestLookup, AskedInv
  <2>5. CASE ~up
    BY <2>1, <2>5 DEF RequestLookup, AskedInv
  <2> QED
    BY <2>3, <2>4, <2>5
<1>2. CASE \E t \in Tids : DnsAnswers(t)
  <2>1. PICK t \in Tids : DnsAnswers(t)
    BY <1>2
  <2>2. UNCHANGED <<asked, tid, questions>>
    BY <2>1 DEF DnsAnswers, Frame
  <2>3. answer' = answer \/ answer' = questions[tid]
    BY <2>1 DEF DnsAnswers, Accepts
  <2> QED
    BY <2>2, <2>3 DEF AskedInv
<1>3. CASE asked' = NoHost
  BY <1>3 DEF AskedInv
<1>4. CASE UNCHANGED <<asked, tid, questions, answer>>
  BY <1>4 DEF AskedInv
<1> QED
  BY <1>1, <1>2, <1>3, <1>4
  DEF Next, IdleIteration, NothingToPost, AwaitLookup, Post, AwaitCallback, FrameIteration, Frame,
      GatewayAnswers, Segment, OtherFrame, UdpSearch, OtherRequest, WebPage, SaveLogger,
      PollSensors, Tick, Restart, lookup, history, vars

LEMMA InvStep == IInv /\ [Next]_vars => IInv'
BY TypeStep, PostInvStep, LookupInvStep, RouteInvStep, AskedStep DEF IInv

LEMMA InvInit == Init => IInv
<1> SUFFICES ASSUME Init PROVE IInv
  OBVIOUS
<1>1. PostInv /\ LookupInv /\ RouteInv /\ AskedInv
  BY DEF Init, Boot, PostInv, LookupInv, RouteInv, AskedInv
<1> QED
  BY <1>1, TypeInit DEF IInv

LEMMA Invariance == Spec => []IInv
BY InvInit, InvStep, PTL DEF Spec

-------------------------------------------------------------------------------
(* The properties. *)

\* A lookup never holds the address of another name, however late the answers to
\* the TidMod - 1 lookups before it come (dnslkup.c:81-90, 143-229).
THEOREM AnswersMatch == Spec => []LookupAnswersItsQuestion
<1>1. IInv => LookupAnswersItsQuestion
  BY DEF IInv, AskedInv, LookupAnswersItsQuestion
<1> QED
  BY <1>1, Invariance, PTL

\* The loggers never use the one web client at the same time
\* (protocol.c:1745-1779).
THEOREM OnePost == Spec => OnePostAtATime
<1>1. IInv /\ [Next]_vars => [PostStep => exclusive = 0]_vars
  BY DEF IInv, PostInv, PostStep
<1> QED
  BY <1>1, Invariance, PTL DEF Spec, OnePostAtATime

\* A lookup is not repeated before it was used or timed out
\* (protocol.c:1693-1722).
THEOREM LookupSpacing == Spec => LookupRetrySpacing
<1>1. IInv /\ [Next]_vars => [LookupStep => lookupAge = 0]_vars
  BY DEF IInv, LookupInv, LookupStep
<1> QED
  BY <1>1, Invariance, PTL DEF Spec, LookupRetrySpacing

\* A POST to a named host has an address and the gateway's MAC
\* (protocol.c:1697-1722).
THEOREM PostRouted == Spec => NamedPostIsRouted
<1>1. ASSUME IInv, [Next]_vars, PostStep, Named(Current)
      PROVE  gw_arp_state = 2 /\ otherside' # NoHost
  <2>1. PICK up \in BOOLEAN : Post(up)
    BY <1>1
    DEF PostStep, Next, IdleIteration, NothingToPost, RequestLookup, AwaitLookup,
        AwaitCallback, FrameIteration, GatewayAnswers, DnsAnswers, Segment, OtherFrame,
        UdpSearch, OtherRequest, WebPage, SaveLogger, PollSensors, Tick, Restart, client, vars
  <2>2. otherside' = Destination /\ LookupDone
    BY <1>1, <2>1 DEF Post, Resolved
  <2>3. dns_state # 0
    BY <2>2 DEF LookupDone
  <2> QED
    BY <1>1, <2>2, <2>3 DEF IInv, RouteInv, LookupDone, Destination
<1>2. IInv /\ [Next]_vars
        => [PostStep /\ Named(Current) => gw_arp_state = 2 /\ otherside' # NoHost]_vars
  BY <1>1
<1> QED
  BY <1>2, Invariance, PTL DEF Spec, NamedPostIsRouted
=============================================================================
