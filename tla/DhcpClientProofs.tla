--------------------------- MODULE DhcpClientProofs ---------------------------
(***************************************************************************)
(* Proofs about DhcpClient for every value of its constants: any number of *)
(* boxes and servers where nothing else is said, any terms of the servers, *)
(* any width of the counters above the nine ticks of a minute.             *)
(***************************************************************************)
EXTENDS DhcpClient, TLAPS

-------------------------------------------------------------------------------
(* Type correctness. *)

\* What is asked can be answered: a REQUEST names the server that offered.
AskedInv == \A a \in asked : a.type = "request" => a.server \in Servers

LEMMA InfiniteIs == Infinite \in Nat /\ Infinite = 65535
BY DEF Infinite

LEMMA LeaseIsNat ==
  ASSUME NEW l \in Leases
  PROVE  l \in Nat /\ l <= Infinite
BY InfiniteIs DEF Leases

LEMMA NatIsLease ==
  ASSUME NEW l \in Nat, l <= 65535
  PROVE  l \in Leases
<1>1. l <= Infinite
  BY InfiniteIs
<1>2. Infinite \in Nat
  BY InfiniteIs
<1> QED
  BY <1>1, <1>2 DEF Leases

LEMMA MinutesOfEnding ==
  ASSUME NEW l \in Nat
  PROVE  Minutes(l) \in Nat /\ Minutes(l) >= 5 /\ Minutes(l) <= 65533
<1> DEFINE m == (6 * l) \div 64
<1>1. m \in Nat
  OBVIOUS
<1>2. l # Forever
  BY NamesAssumption
<1>3. Minutes(l) = IF m > 65533 THEN 65533 ELSE IF m < 5 THEN 5 ELSE m
  BY <1>2 DEF Minutes
<1> HIDE DEF m
<1> QED
  BY <1>1, <1>3

LEMMA MinutesType ==
  ASSUME NEW l \in Nat \cup {Forever}
  PROVE  Minutes(l) \in Leases /\ Minutes(l) >= 5
<1>1. CASE l = Forever
  BY <1>1, InfiniteIs, NatIsLease DEF Minutes
<1>2. CASE l \in Nat
  <2>1. Minutes(l) \in Nat /\ Minutes(l) >= 5 /\ Minutes(l) <= 65535
    BY <1>2, MinutesOfEnding
  <2> QED
    BY <2>1, NatIsLease
<1> QED
  BY <1>1, <1>2

LEMMA OneLessType ==
  ASSUME NEW l \in Leases
  PROVE  OneLess(l) \in Leases
<1>1. l \in Nat /\ l <= Infinite /\ Infinite \in Nat
  BY LeaseIsNat, InfiniteIs DEF Leases
<1>2. l > 0 => l - 1 \in 0 .. Infinite
  BY <1>1
<1>3. OneLess(l) = l \/ (l > 0 /\ OneLess(l) = l - 1)
  BY <1>1 DEF OneLess
<1> QED
  BY <1>2, <1>3 DEF Leases

LEMMA SmallLeases == 0 \in Leases /\ Renewed \in Leases
BY NatIsLease DEF Renewed

LEMMA IterationBound == 0 \in 0 .. IterPerTick /\ 1 \in 0 .. IterPerTick
BY SizesAssumption

LEMMA CounterBound == 0 \in 0 .. CntMod - 1
BY SizesAssumption DEF TicksPerMinute

LEMMA DelayBound ==
  /\ 1 \in 1 .. InitDelay /\ InitDelay \in 1 .. InitDelay
  /\ \A n \in 1 .. InitDelay : n > 2 => n - 1 \in 1 .. InitDelay
BY SizesAssumption

LEMMA CounterStep ==
  ASSUME NEW n \in 0 .. CntMod - 1
  PROVE  (n + 1) % CntMod \in 0 .. CntMod - 1
BY SizesAssumption

LEMMA TidBound == 0 \in Tids
BY SizesAssumption DEF Tids

LEMMA Less1Type ==
  ASSUME NEW n \in Nat \cup {Forever}
  PROVE  /\ Less1(n) \in Nat \cup {Forever}
         /\ n \in Nat => Less1(n) \in Nat
         /\ n = Forever <=> Less1(n) = Forever
BY NamesAssumption DEF Less1

LEMMA TermsType ==
  ASSUME NEW s \in Servers, NEW b \in Boxes, NEW t \in Tids
  PROVE  OfferOf(s, b, t) \in Addresses /\ Terms[s][b][t].lease \in Nat \cup {Forever}
BY NamesAssumption DEF OfferOf

LEMMA ReplyFields ==
  ASSUME NEW type, NEW a, NEW s, NEW addr
  PROVE  LET m == Reply(type, a, s, addr)
         IN  /\ m.type = type /\ m.box = a.box /\ m.tid = a.tid /\ m.server = s
             /\ m.addr = addr /\ m.lease = Terms[s][a.box][a.tid].lease
             /\ m.renew = (a.type = "renew")
BY DEF Reply

\* m is what server s answers to a.
AnswerTo(m, a, s) ==
  /\ m.box = a.box /\ m.tid = a.tid /\ m.server = s
  /\ m.lease = Terms[s][a.box][a.tid].lease
  /\ m.renew = (a.type = "renew")
  /\ \/ a.type = "discover" /\ m.type = "offer" /\ m.addr = OfferOf(s, a.box, a.tid)
     \/ /\ a.type = "request" /\ m.type = "ack" /\ m.addr = a.addr
        /\ a.addr = OfferOf(s, a.box, a.tid)
     \/ a.type = "renew" /\ m.type = "ack" /\ m.addr = a.addr

\* Every message a box can hear is one of the three answers of a server.
LEMMA HeardIs ==
  ASSUME TypeOK, AskedInv, NEW b \in Boxes, NEW m \in Heard(b)
  PROVE  \E a \in asked, s \in Servers : AnswerTo(m, a, s)
<1>1. m \in Replies
  BY DEF Heard
<1>2. ASSUME NEW a \in asked, NEW s \in Servers, a.type = "discover",
             m = Reply("offer", a, s, OfferOf(s, a.box, a.tid))
      PROVE  AnswerTo(m, a, s)
  BY <1>2, ReplyFields DEF AnswerTo
<1>3. ASSUME NEW a \in asked, a.type = "request", a.addr = OfferOf(a.server, a.box, a.tid),
             m = Reply("ack", a, a.server, a.addr)
      PROVE  a.server \in Servers /\ AnswerTo(m, a, a.server)
  BY <1>3, ReplyFields DEF AnswerTo, AskedInv
<1>4. ASSUME NEW a \in asked, NEW s \in Servers, a.type = "renew",
             m = Reply("ack", a, s, a.addr)
      PROVE  AnswerTo(m, a, s)
  BY <1>4, ReplyFields DEF AnswerTo
<1> QED
  BY <1>1, <1>2, <1>3, <1>4 DEF Replies

LEMMA HeardType ==
  ASSUME TypeOK, AskedInv, NEW b \in Boxes, NEW m \in Heard(b)
  PROVE  /\ m.lease \in Nat \cup {Forever}
         /\ m.addr \in Addresses \cup {Nobody}
         /\ m.server \in Servers
         /\ ~m.renew => m.addr \in Addresses
<1>1. PICK a \in asked, s \in Servers : AnswerTo(m, a, s)
  BY HeardIs
<1>2. a.box \in Boxes /\ a.tid \in Tids /\ a.addr \in Addresses \cup {Nobody}
  BY DEF TypeOK
<1>3. OfferOf(s, a.box, a.tid) \in Addresses /\ Terms[s][a.box][a.tid].lease \in Nat \cup {Forever}
  BY <1>2, TermsType
<1> QED
  BY <1>1, <1>2, <1>3 DEF AnswerTo

LEMMA NextTidType ==
  ASSUME TypeOK, NEW b \in Boxes
  PROVE  NextTid(b) \in Tids
BY SizesAssumption DEF TypeOK, NextTid, Tids

LEMMA LeaseNowType ==
  ASSUME TypeOK, NEW b \in Boxes
  PROVE  LeaseNow(b) \in Leases
BY OneLessType DEF TypeOK, LeaseNow

LEMMA TypeInit == Init => TypeOK /\ AskedInv
BY DelayBound, CounterBound, IterationBound, TidBound, SmallLeases
DEF Init, TypeOK, AskedInv

LEMMA TickType ==
  ASSUME TypeOK, AskedInv, Tick6
  PROVE  TypeOK' /\ AskedInv'
<1>1. cnt' \in [Boxes -> 0 .. CntMod - 1] /\ iters' \in [Boxes -> 0 .. IterPerTick]
  BY CounterStep, IterationBound DEF TypeOK, Tick6
<1>2. leaseLeft' \in [Boxes -> Nat \cup {Forever}] /\ renewAge' \in [Boxes -> Nat]
  BY Less1Type DEF TypeOK, Tick6
<1> QED
  BY <1>1, <1>2 DEF TypeOK, AskedInv, Tick6

LEMMA BootIterationType ==
  ASSUME TypeOK, NEW b \in Boxes, BootIteration(b)
  PROVE  iters' \in [Boxes -> 0 .. IterPerTick]
BY SizesAssumption DEF TypeOK, BootIteration

LEMMA DiscoverType ==
  ASSUME TypeOK, AskedInv, NEW b \in Boxes, NEW t \in Tids, NEW arrives \in BOOLEAN,
         Discover(b, t, arrives), BootIteration(b), init' \in [Boxes -> 1 .. InitDelay]
  PROVE  TypeOK' /\ AskedInv'
<1>1. \A a \in asked' : a \in asked \/ a = Asked("discover", b, t, Nobody, Nobody)
  BY DEF Discover
<1>2. AskedInv'
  BY <1>1 DEF AskedInv, Asked
<1>3. asked' \subseteq [type : {"discover", "request", "renew"}, box : Boxes, tid : Tids,
                       server : Servers \cup {Nobody}, addr : Addresses \cup {Nobody}]
  BY <1>1 DEF TypeOK, Asked
<1> QED
  BY <1>2, <1>3, BootIterationType, CounterBound DEF TypeOK, Discover

LEMMA BootType ==
  ASSUME TypeOK, AskedInv, NEW b \in Boxes, BootNext(b)
  PROVE  TypeOK' /\ AskedInv'
<1>1. CASE BootIgnores(b)
  BY <1>1, BootIterationType DEF TypeOK, AskedInv, BootIgnores
<1>2. ASSUME NEW arrives \in BOOLEAN, FirstDiscover(b, arrives)
      PROVE  TypeOK' /\ AskedInv'
  <2>1. init' \in [Boxes -> 1 .. InitDelay] /\ InitialTid[b] \in Tids
    BY <1>2, DelayBound, NamesAssumption DEF TypeOK, FirstDiscover
  <2> QED
    BY <1>2, <2>1, DiscoverType DEF FirstDiscover
<1>3. ASSUME NEW arrives \in BOOLEAN, RetryDiscover(b, arrives)
      PROVE  TypeOK' /\ AskedInv'
  <2>1. init' \in [Boxes -> 1 .. InitDelay]
    BY <1>3 DEF TypeOK, RetryDiscover
  <2> QED
    BY <1>3, <2>1, DiscoverType, NextTidType DEF RetryDiscover
<1>4. CASE BootDelay(b)
  BY <1>4, BootIterationType, DelayBound DEF TypeOK, AskedInv, BootDelay
<1>5. ASSUME NEW m \in Heard(b), TakeOffer(b, m)
      PROVE  TypeOK' /\ AskedInv'
  <2>1. /\ m.lease \in Nat \cup {Forever} /\ m.addr \in Addresses \cup {Nobody}
        /\ m.server \in Servers
    BY HeardType
  <2>2. Minutes(m.lease) \in Leases
    BY <2>1, MinutesType
  <2>3. \A a \in asked' : a \in asked \/ a = Asked("request", b, tid[b], m.server, m.addr)
    BY <1>5 DEF TakeOffer
  <2> QED
    BY <1>5, <2>1, <2>2, <2>3, BootIterationType, DelayBound
    DEF TypeOK, AskedInv, TakeOffer, Asked
<1>6. ASSUME NEW m \in Heard(b), TakeAck(b, m)
      PROVE  TypeOK' /\ AskedInv'
  BY <1>6, HeardType, BootIterationType, DelayBound DEF TypeOK, AskedInv, TakeAck
<1> QED
  BY <1>1, <1>2, <1>3, <1>4, <1>5, <1>6 DEF BootNext

LEMMA RunIterationType ==
  ASSUME TypeOK, NEW b \in Boxes, RunIteration(b)
  PROVE  /\ iters' \in [Boxes -> 0 .. IterPerTick]
         /\ cnt' \in [Boxes -> 0 .. CntMod - 1]
         /\ bcast' \in [Boxes -> BOOLEAN]
BY IterationBound, CounterBound DEF TypeOK, RunIteration

LEMMA RunType ==
  ASSUME TypeOK, AskedInv, NEW b \in Boxes, RunNext(b)
  PROVE  TypeOK' /\ AskedInv'
<1>1. CASE RunIdle(b)
  BY <1>1, RunIterationType, LeaseNowType DEF TypeOK, AskedInv, RunIdle, RunIteration
<1>2. CASE Renew(b)
  <2>1. \A a \in asked' : a \in asked \/ a = Asked("renew", b, tid'[b], Nobody, yiaddr[b])
    BY <1>2 DEF Renew
  <2>2. tid' \in [Boxes -> Tids] /\ yiaddr[b] \in Addresses \cup {Nobody}
    BY <1>2, NextTidType DEF TypeOK, Renew
  <2>3. AskedInv'
    BY <2>1 DEF AskedInv, Asked
  <2>4. asked' \subseteq [type : {"discover", "request", "renew"}, box : Boxes, tid : Tids,
                         server : Servers \cup {Nobody}, addr : Addresses \cup {Nobody}]
    BY <2>1, <2>2 DEF TypeOK, Asked
  <2>5. renewAge' \in [Boxes -> Nat] /\ leaseLeft' \in [Boxes -> Nat \cup {Forever}]
    BY <1>2 DEF TypeOK, Renew, TicksPerMinute
  <2> QED
    BY <1>2, <2>2, <2>3, <2>4, <2>5, RunIterationType, SmallLeases
    DEF TypeOK, Renew, RunIteration
<1>3. ASSUME NEW m \in Heard(b), RunReceives(b, m)
      PROVE  TypeOK' /\ AskedInv'
  <2>1. Minutes(m.lease) \in Leases
    BY HeardType, MinutesType
  <2> QED
    BY <1>3, <2>1, RunIterationType, LeaseNowType
    DEF TypeOK, AskedInv, RunReceives, RunIteration
<1> QED
  BY <1>1, <1>2, <1>3 DEF RunNext

LEMMA RestartType ==
  ASSUME TypeOK, AskedInv, NEW b \in Boxes, Restart(b)
  PROVE  TypeOK' /\ AskedInv'
BY DelayBound, CounterBound, IterationBound, TidBound, SmallLeases
DEF TypeOK, AskedInv, Restart

LEMMA TypeStep == TypeOK /\ AskedInv /\ [Next]_vars => TypeOK' /\ AskedInv'
<1> SUFFICES ASSUME TypeOK, AskedInv, [Next]_vars PROVE TypeOK' /\ AskedInv'
  OBVIOUS
<1>1. CASE UNCHANGED vars
  BY <1>1 DEF TypeOK, AskedInv, vars, box
<1> QED
  BY <1>1, TickType, BootType, RunType, RestartType DEF Next

\* Every variable keeps its type, whatever servers answer and however late
\* (dhcp_client.c:381-498).
THEOREM TypeCorrect == Spec => []TypeOK
BY TypeInit, TypeStep, PTL DEF Spec

LEMMA TypeInvariance == Spec => [](TypeOK /\ AskedInv)
BY TypeInit, TypeStep, PTL DEF Spec

-------------------------------------------------------------------------------
(* The pace of renewals.  A renewal sets the lease to five minutes and the next  *)
(* is due below three; each minute ends when the counter exceeds eight, and the  *)
(* iteration that notices it comes before the next tick.                         *)

Paced(b) ==
  renewAge[b] > 0 =>
    /\ phase[b] = "run"
    /\ lease[b] >= 3
    /\ cnt[b] <= 9
    /\ renewAge[b] <= 19
    /\ iters[b] >= 1 => cnt[b] <= 8
    /\ renewAge[b] + cnt[b] <= 9 * lease[b] - 18

SpacingInv == \A b \in Boxes : Paced(b)

\* The numbers a box counts with.
LEMMA Numbers ==
  ASSUME TypeOK, NEW b \in Boxes
  PROVE  /\ lease[b] \in Nat /\ lease[b] <= Infinite
         /\ cnt[b] \in Nat /\ cnt[b] < CntMod
         /\ iters[b] \in Nat
         /\ renewAge[b] \in Nat
         /\ leaseLeft[b] \in Nat \cup {Forever}
<1>1. lease[b] \in Leases
  BY DEF TypeOK
<1>2. cnt[b] \in 0 .. CntMod - 1 /\ iters[b] \in 0 .. IterPerTick
  BY DEF TypeOK
<1>3. CntMod \in Nat /\ IterPerTick \in Nat
  BY SizesAssumption
<1> QED
  BY <1>1, <1>2, <1>3, LeaseIsNat DEF TypeOK

LEMMA CounterTicks ==
  ASSUME NEW n \in Nat, n < CntMod
  PROVE  /\ (n + 1) % CntMod \in Nat
         /\ n <= 8 => (n + 1) % CntMod = n + 1
         /\ n > 8 => (n + 1) % CntMod = 0 \/ (n + 1) % CntMod > 9
<1>1. CntMod \in Nat /\ CntMod > 9
  BY SizesAssumption DEF TicksPerMinute
<1>2. CASE n + 1 < CntMod
  BY <1>1, <1>2
<1>3. CASE n + 1 = CntMod
  BY <1>1, <1>3
<1> QED
  BY <1>1, <1>2, <1>3

LEMMA TickPaced ==
  ASSUME TypeOK, NEW b \in Boxes, Paced(b), Tick6
  PROVE  Paced(b)'
<1> DEFINE a == renewAge[b]  n == cnt[b]  l == lease[b]
<1>1. a \in Nat /\ n \in Nat /\ n < CntMod /\ l \in Nat /\ iters[b] \in Nat
  BY Numbers
<1>2. /\ renewAge'[b] = Less1(a) /\ cnt'[b] = (n + 1) % CntMod
      /\ iters'[b] = 0 /\ lease'[b] = l /\ phase'[b] = phase[b] /\ iters[b] >= 1
  BY DEF Tick6, TypeOK
<1>3. Less1(a) = IF a > 0 THEN a - 1 ELSE a
  BY <1>1, NamesAssumption DEF Less1
<1>4. CASE a = 0
  BY <1>1, <1>2, <1>3, <1>4 DEF Paced
<1>5. CASE a > 0
  <2>1. phase[b] = "run" /\ l >= 3 /\ n <= 8 /\ a <= 19 /\ a + n <= 9 * l - 18
    BY <1>2, <1>5 DEF Paced
  <2>2. cnt'[b] = n + 1 /\ renewAge'[b] = a - 1
    BY <1>1, <1>2, <1>3, <1>5, <2>1, CounterTicks
  <2> HIDE DEF a, n, l
  <2>3. (a - 1) + (n + 1) <= 9 * l - 18 /\ n + 1 <= 9 /\ a - 1 <= 19
    BY <1>1, <2>1
  <2> QED
    BY <1>2, <2>1, <2>2, <2>3 DEF Paced
<1> QED
  BY <1>1, <1>4, <1>5

LEMMA BootPaced ==
  ASSUME TypeOK, NEW b \in Boxes, Paced(b), NEW c \in Boxes, BootNext(c)
  PROVE  Paced(b)'
<1>1. phase[c] = "boot" /\ renewAge' = renewAge
  BY DEF BootNext, BootIteration, BootIgnores, BootDelay, FirstDiscover, RetryDiscover,
         Discover, TakeOffer, TakeAck
<1>2. CASE b = c
  <2>1. ~(renewAge[b] > 0)
    BY <1>1, <1>2 DEF Paced
  <2> QED
    BY <1>1, <2>1 DEF Paced
<1>3. CASE b # c
  <2>1. /\ phase'[b] = phase[b] /\ lease'[b] = lease[b] /\ cnt'[b] = cnt[b]
        /\ iters'[b] = iters[b]
    BY <1>3
    DEF TypeOK, BootNext, BootIteration, BootIgnores, BootDelay, FirstDiscover,
        RetryDiscover, Discover, TakeOffer, TakeAck
  <2> QED
    BY <1>1, <2>1 DEF Paced
<1> QED
  BY <1>2, <1>3

\* A renewal or an iteration without one, of the box itself.
LEMMA IterationCounts ==
  ASSUME TypeOK, NEW b \in Boxes, RunIteration(b)
  PROVE  /\ phase[b] = "run" /\ phase'[b] = "run" /\ iters'[b] = 1
         /\ cnt'[b] = IF cnt[b] > 8 THEN 0 ELSE cnt[b]
BY DEF TypeOK, RunIteration, MinutePassed

LEMMA LeaseCounts ==
  ASSUME TypeOK, NEW b \in Boxes
  PROVE  LeaseNow(b) = IF cnt[b] > 8 /\ lease[b] < Infinite /\ lease[b] > 1
                         THEN lease[b] - 1 ELSE lease[b]
<1>1. MinutePassed(b) \in BOOLEAN
  BY DEF MinutePassed
<1>2. CASE cnt[b] > 8
  BY <1>2 DEF LeaseNow, OneLess, MinutePassed
<1>3. CASE ~(cnt[b] > 8)
  BY <1>3 DEF LeaseNow, OneLess, MinutePassed
<1> QED
  BY <1>2, <1>3

LEMMA LongerLeasePaced ==
  ASSUME TypeOK, NEW b \in Boxes, Paced(b), RunIteration(b), renewAge'[b] = renewAge[b],
         lease'[b] \in Nat, lease'[b] >= LeaseNow(b)
  PROVE  Paced(b)'
<1> DEFINE a == renewAge[b]  n == cnt[b]  l == lease[b]  l2 == lease'[b]
<1>1. a \in Nat /\ n \in Nat /\ l \in Nat /\ l2 \in Nat
  BY Numbers
<1>2. CASE a > 0
  <2>1. l >= 3 /\ n <= 9 /\ a <= 19 /\ a + n <= 9 * l - 18
    BY <1>2 DEF Paced
  <2>2. l2 >= LeaseNow(b) /\ (n <= 8 => LeaseNow(b) = l) /\ (n = 9 => LeaseNow(b) >= l - 1)
        /\ LeaseNow(b) \in Nat
    BY <1>1, LeaseCounts
  <2>3. cnt'[b] = (IF n > 8 THEN 0 ELSE n) /\ phase'[b] = "run" /\ renewAge'[b] = a
    BY IterationCounts
  <2>4. ASSUME n <= 8 PROVE l2 >= 3 /\ a + n <= 9 * l2 - 18
    <3> HIDE DEF a, n, l, l2
    <3> QED
      BY <1>1, <2>1, <2>2, <2>4
  <2>5. ASSUME n = 9 PROVE l2 >= 3 /\ a <= 9 * l2 - 18
    <3> HIDE DEF a, n, l, l2
    <3>1. l2 >= l - 1 /\ a + 9 <= 9 * l - 18 /\ a > 0
      BY <1>1, <1>2, <2>1, <2>2, <2>5
    <3> QED
      BY <1>1, <3>1
  <2>6. n <= 8 \/ n = 9
    BY <1>1, <2>1
  <2> QED
    BY <1>1, <2>1, <2>3, <2>4, <2>5, <2>6 DEF Paced
<1>3. CASE a = 0
  BY <1>3 DEF Paced
<1> QED
  BY <1>1, <1>2, <1>3

LEMMA RunPaced ==
  ASSUME TypeOK, AskedInv, NEW b \in Boxes, Paced(b), NEW c \in Boxes, RunNext(c)
  PROVE  Paced(b)'
<1>1. CASE b # c
  <2>1. /\ phase'[b] = phase[b] /\ lease'[b] = lease[b] /\ cnt'[b] = cnt[b]
        /\ iters'[b] = iters[b] /\ renewAge'[b] = renewAge[b]
    BY <1>1 DEF TypeOK, RunNext, RunIteration, RunIdle, Renew, RunReceives
  <2> QED
    BY <2>1 DEF Paced
<1>2. CASE b = c /\ RunIdle(b)
  <2>1. lease'[b] = LeaseNow(b) /\ renewAge' = renewAge /\ RunIteration(b)
    BY <1>2 DEF TypeOK, RunIdle
  <2>2. LeaseNow(b) \in Nat
    BY LeaseNowType, LeaseIsNat
  <2> QED
    BY <2>1, <2>2, LongerLeasePaced
<1>3. CASE b = c /\ Renew(b)
  <2>1. /\ lease'[b] = 5 /\ renewAge'[b] = 19 /\ RunIteration(b)
    BY <1>3 DEF TypeOK, Renew, Renewed, TicksPerMinute
  <2>2. phase'[b] = "run" /\ cnt'[b] \in Nat /\ cnt'[b] <= 8
    BY <2>1, IterationCounts, Numbers
  <2> QED
    BY <2>1, <2>2 DEF Paced
<1>4. ASSUME b = c, NEW m \in Heard(b), RunReceives(b, m)
      PROVE  Paced(b)'
  <2>1. renewAge' = renewAge /\ RunIteration(b)
    BY <1>4 DEF RunReceives
  <2>2. LeaseNow(b) \in Nat /\ Minutes(m.lease) \in Nat /\ Minutes(m.lease) >= 5
    BY LeaseNowType, LeaseIsNat, MinutesType, HeardType
  <2>3. CASE lease'[b] = LeaseNow(b)
    BY <2>1, <2>2, <2>3, LongerLeasePaced
  <2>4. CASE lease'[b] = Minutes(m.lease)
    <3>1. phase'[b] = "run" /\ cnt'[b] \in Nat /\ cnt'[b] <= 8
      BY <2>1, IterationCounts, Numbers
    <3>2. renewAge'[b] \in Nat /\ (renewAge'[b] > 0 => renewAge'[b] <= 19)
      BY <2>1, Numbers DEF Paced
    <3> QED
      BY <2>2, <2>4, <3>1, <3>2 DEF Paced
  <2> QED
    BY <1>4, <2>3, <2>4 DEF TypeOK, RunReceives
<1> QED
  BY <1>1, <1>2, <1>3, <1>4 DEF RunNext

LEMMA SpacingInit == Init => SpacingInv
BY DEF Init, SpacingInv, Paced

LEMMA SpacingStep == TypeOK /\ AskedInv /\ SpacingInv /\ [Next]_vars => SpacingInv'
<1> SUFFICES ASSUME TypeOK, AskedInv, SpacingInv, [Next]_vars, NEW b \in Boxes
             PROVE  Paced(b)'
  BY DEF SpacingInv
<1>1. Paced(b)
  BY DEF SpacingInv
<1>2. CASE UNCHANGED vars
  BY <1>1, <1>2 DEF Paced, vars, box
<1>3. ASSUME NEW c \in Boxes, Restart(c)
      PROVE  Paced(b)'
  BY <1>1, <1>3 DEF TypeOK, Paced, Restart
<1> QED
  BY <1>1, <1>2, <1>3, TickPaced, BootPaced, RunPaced DEF Next

\* A renewal is never repeated within the two minutes the code promises
\* (dhcp_client.c:472-486).
THEOREM RenewalsSpaced == Spec => RenewalSpacing
<1>1. ASSUME TypeOK, SpacingInv, NEW b \in Boxes, Renew(b)
      PROVE  renewAge[b] = 0
  <2> DEFINE a == renewAge[b]  n == cnt[b]  l == lease[b]
  <2>1. a \in Nat /\ n \in Nat /\ l \in Nat /\ l <= Infinite
    BY <1>1, Numbers
  <2>2. LeaseNow(b) < 3
    BY <1>1 DEF Renew, RenewDue
  <2>3. ASSUME a > 0 PROVE FALSE
    <3>1. l >= 3 /\ n <= 9 /\ a + n <= 9 * l - 18
      BY <1>1, <2>3 DEF SpacingInv, Paced
    <3>2. l = 3 /\ n = 9
      BY <1>1, <2>1, <2>2, <3>1, LeaseCounts
    <3> HIDE DEF a, n, l
    <3> QED
      BY <2>1, <2>3, <3>1, <3>2
  <2> QED
    BY <2>1, <2>3
<1>2. TypeOK /\ SpacingInv /\ [Next]_vars
        => [\A b \in Boxes : Renew(b) => renewAge[b] = 0]_vars
  BY <1>1
<1>3. Spec => [](TypeOK /\ SpacingInv)
  BY TypeInvariance, SpacingInit, SpacingStep, PTL DEF Spec
<1> QED
  BY <1>2, <1>3, PTL DEF Spec, RenewalSpacing

-------------------------------------------------------------------------------
(* One box and one server.  The terms the server offers a box for its number do  *)
(* not change, and the box does not change its number between an OFFER and the   *)
(* ACK, so that the last OFFER and the ACK agree.                                *)

OneOfEach == (\E b \in Boxes : Boxes = {b}) /\ (\E s \in Servers : Servers = {s})

\* Once a box has an offer, it is what the server offers for its number.
HoldsOffer(b) ==
  phase[b] = "boot" /\ yiaddr[b] # Nobody =>
    /\ init[b] = 1
    /\ \A s \in Servers : /\ yiaddr[b] = OfferOf(s, b, tid[b])
                          /\ lease[b] = Minutes(Terms[s][b][tid[b]].lease)

\* Only a box with an offer has sent a REQUEST; only one that runs, a renewal.
AskedInPhase ==
  \A a \in asked :
    /\ a.type = "request" => yiaddr[a.box] # Nobody
    /\ a.type = "renew" => phase[a.box] = "run" /\ leaseLeft[a.box] = Forever

OfferInv == AskedInPhase /\ \A b \in Boxes : HoldsOffer(b)

LEMMA OfferInit == Init => OfferInv /\ RunsWithAckedAddress
BY DEF Init, OfferInv, AskedInPhase, HoldsOffer, RunsWithAckedAddress

\* What the box that is waiting for an ACK hears is about its last OFFER.
LEMMA AckAgrees ==
  ASSUME TypeOK, AskedInv, OfferInv, OneOfEach, NEW b \in Boxes, NEW m \in Heard(b),
         TakeAck(b, m)
  PROVE  yiaddr[b] = m.addr /\ lease[b] = Minutes(m.lease)
<1>1. PICK a \in asked, s \in Servers : AnswerTo(m, a, s)
  BY HeardIs
<1>2. m.type = "ack" /\ ~m.renew /\ m.tid = tid[b] /\ phase[b] = "boot"
  BY DEF TakeAck, BootTakes, ForMe, BootIteration
<1>3. a.type = "request" /\ a.box = b /\ a.tid = tid[b]
  BY <1>1, <1>2 DEF AnswerTo, OneOfEach, TypeOK
<1>4. m.addr = OfferOf(s, b, tid[b]) /\ m.lease = Terms[s][b][tid[b]].lease
  BY <1>1, <1>3 DEF AnswerTo
<1>5. yiaddr[b] # Nobody
  BY <1>3 DEF OfferInv, AskedInPhase
<1> QED
  BY <1>2, <1>4, <1>5 DEF OfferInv, HoldsOffer

LEMMA OneBox ==
  ASSUME OneOfEach, NEW b \in Boxes
  PROVE  \A c \in Boxes : c = b
BY DEF OneOfEach

LEMMA OfferStep ==
  ASSUME TypeOK, AskedInv, OfferInv, RunsWithAckedAddress, OneOfEach, [Next]_vars
  PROVE  OfferInv' /\ RunsWithAckedAddress'
<1>1. CASE UNCHANGED vars
  BY <1>1 DEF OfferInv, AskedInPhase, HoldsOffer, RunsWithAckedAddress, vars, box
<1>2. CASE Tick6
  <2>1. \A b \in Boxes : leaseLeft[b] = Forever => leaseLeft'[b] = Forever
    BY <1>2, Less1Type DEF TypeOK, Tick6
  <2>2. AskedInPhase'
    BY <1>2, <2>1 DEF TypeOK, OfferInv, AskedInPhase, Tick6
  <2> QED
    BY <1>2, <2>2 DEF OfferInv, HoldsOffer, RunsWithAckedAddress, Tick6
<1>3. ASSUME NEW b \in Boxes, BootIgnores(b) \/ BootDelay(b)
      PROVE  OfferInv' /\ RunsWithAckedAddress'
  <2>1. \A c \in Boxes : init[c] = 1 => init'[c] = 1
    BY <1>3 DEF TypeOK, BootIgnores, BootDelay
  <2>2. UNCHANGED <<phase, tid, yiaddr, lease, asked, acked, leaseLeft>>
    BY <1>3 DEF BootIgnores, BootDelay
  <2> QED
    BY <2>1, <2>2 DEF OfferInv, AskedInPhase, HoldsOffer, RunsWithAckedAddress
<1>4. ASSUME NEW b \in Boxes, NEW t \in Tids, NEW arrives \in BOOLEAN, BootIteration(b),
             Discover(b, t, arrives), yiaddr[b] = Nobody
      PROVE  OfferInv' /\ RunsWithAckedAddress'
  <2>1. \A a \in asked' : a \in asked \/ a.type = "discover"
    BY <1>4 DEF Discover, Asked
  <2>2. AskedInPhase'
    BY <1>4, <2>1 DEF OfferInv, AskedInPhase, Discover
  <2> QED
    BY <1>4, <2>2, OneBox DEF OfferInv, HoldsOffer, RunsWithAckedAddress, Discover, BootIteration
<1>5. ASSUME NEW b \in Boxes, NEW arrives \in BOOLEAN, RetryDiscover(b, arrives)
      PROVE  OfferInv' /\ RunsWithAckedAddress'
  BY <1>4, <1>5, NextTidType DEF RetryDiscover, RetryDue
<1>6. ASSUME NEW b \in Boxes, NEW m \in Heard(b), TakeOffer(b, m)
      PROVE  OfferInv' /\ RunsWithAckedAddress'
  <2>1. PICK a \in asked, s \in Servers : AnswerTo(m, a, s)
    BY HeardIs
  <2>2. m.type = "offer" /\ m.tid = tid[b] /\ phase[b] = "boot"
    BY <1>6 DEF TakeOffer, BootTakes, ForMe, BootIteration
  <2>3. a.type = "discover" /\ a.box = b /\ a.tid = tid[b]
    BY <2>1, <2>2, OneBox DEF AnswerTo, TypeOK
  <2>4. m.addr = OfferOf(s, b, tid[b]) /\ m.lease = Terms[s][b][tid[b]].lease
    BY <2>1, <2>2, <2>3 DEF AnswerTo
  <2>5. m.addr # Nobody
    BY <2>3, <2>4, TermsType, NamesAssumption DEF TypeOK
  <2>6. yiaddr'[b] = m.addr /\ lease'[b] = Minutes(m.lease) /\ tid' = tid /\ phase' = phase
        /\ init'[b] = 1
    BY <1>6 DEF TypeOK, TakeOffer
  <2>7. \A r \in asked' : r \in asked \/ r = Asked("request", b, tid[b], m.server, m.addr)
    BY <1>6 DEF TakeOffer
  <2>8. \A r \in asked' : /\ r.box = b
                          /\ r.type = "renew" => r \in asked
    BY <2>7, OneBox DEF TypeOK, Asked
  <2>9. AskedInPhase'
    BY <1>6, <2>2, <2>5, <2>6, <2>8 DEF OfferInv, AskedInPhase, TakeOffer
  <2>10. \A c \in Boxes : HoldsOffer(c)'
    BY <2>4, <2>6, OneBox DEF HoldsOffer, OneOfEach, OfferOf
  <2>11. RunsWithAckedAddress'
    BY <2>2, <2>6, OneBox DEF RunsWithAckedAddress
  <2> QED
    BY <2>9, <2>10, <2>11 DEF OfferInv
<1>7. ASSUME NEW b \in Boxes, NEW m \in Heard(b), TakeAck(b, m)
      PROVE  OfferInv' /\ RunsWithAckedAddress'
  <2>1. /\ phase'[b] = "run" /\ acked'[b] = m.addr /\ yiaddr' = yiaddr /\ asked' = asked
        /\ phase[b] = "boot"
    BY <1>7 DEF TypeOK, TakeAck, BootIteration
  <2>2. \A a \in asked : a.type # "renew"
    BY <2>1, OneBox DEF TypeOK, OfferInv, AskedInPhase
  <2>3. AskedInPhase'
    BY <2>1, <2>2 DEF OfferInv, AskedInPhase
  <2> QED
    BY <1>7, <2>1, <2>3, AckAgrees, OneBox DEF OfferInv, HoldsOffer, RunsWithAckedAddress
<1>8. ASSUME NEW b \in Boxes, RunIdle(b) \/ \E m \in Heard(b) : RunReceives(b, m)
      PROVE  OfferInv' /\ RunsWithAckedAddress'
  <2>1. /\ phase[b] = "run" /\ phase' = phase /\ yiaddr' = yiaddr /\ asked' = asked
        /\ acked' = acked /\ leaseLeft' = leaseLeft
    BY <1>8 DEF RunIdle, RunReceives, RunIteration
  <2> QED
    BY <2>1, OneBox DEF OfferInv, AskedInPhase, HoldsOffer, RunsWithAckedAddress
<1>9. ASSUME NEW b \in Boxes, Renew(b)
      PROVE  OfferInv' /\ RunsWithAckedAddress'
  <2>1. /\ phase[b] = "run" /\ phase' = phase /\ yiaddr' = yiaddr /\ acked' = acked
        /\ leaseLeft'[b] = Forever
    BY <1>9 DEF TypeOK, Renew, RunIteration
  <2>2. \A a \in asked' : a.box = b /\ (a.type = "request" => a \in asked)
    BY <1>9, OneBox DEF TypeOK, Renew, Asked
  <2>3. AskedInPhase'
    BY <2>1, <2>2 DEF OfferInv, AskedInPhase
  <2> QED
    BY <2>1, <2>3, OneBox DEF OfferInv, HoldsOffer, RunsWithAckedAddress
<1>10. ASSUME NEW b \in Boxes, Restart(b)
       PROVE  OfferInv' /\ RunsWithAckedAddress'
  <2>1. asked' = {} /\ phase'[b] = "boot" /\ yiaddr'[b] = Nobody
    BY <1>10, OneBox DEF TypeOK, Restart
  <2> QED
    BY <2>1, OneBox DEF OfferInv, AskedInPhase, HoldsOffer, RunsWithAckedAddress
<1>11. ASSUME NEW b \in Boxes, NEW arrives \in BOOLEAN, FirstDiscover(b, arrives)
       PROVE  OfferInv' /\ RunsWithAckedAddress'
  <2>1. yiaddr[b] = Nobody
    BY <1>11 DEF OfferInv, HoldsOffer, FirstDiscover, BootIteration
  <2> QED
    BY <1>4, <1>11, <2>1, NamesAssumption DEF FirstDiscover
<1> QED
  BY <1>1, <1>2, <1>3, <1>5, <1>6, <1>7, <1>8, <1>9, <1>10, <1>11
  DEF Next, BootNext, RunNext

LEMMA OfferInvariance ==
  ASSUME OneOfEach
  PROVE  Spec => [](TypeOK /\ AskedInv /\ OfferInv /\ RunsWithAckedAddress)
<1>1. TypeOK /\ AskedInv /\ OfferInv /\ RunsWithAckedAddress /\ [Next]_vars
        => (TypeOK /\ AskedInv /\ OfferInv /\ RunsWithAckedAddress)'
  BY TypeStep, OfferStep
<1> QED
  BY <1>1, TypeInit, OfferInit, PTL DEF Spec

\* With one server, a box runs with the address that was acknowledged to it, whatever
\* was lost, repeated or late (dhcp_client.c:430-450).
THEOREM AckedAddress ==
  ASSUME OneOfEach
  PROVE  Spec => []RunsWithAckedAddress
BY OfferInvariance, PTL

-------------------------------------------------------------------------------
(* The lease.  A minute of the countdown is nine ticks of six seconds, a unit of *)
(* the lease 64 seconds, and two units are left when the renewal is due.         *)

LongLeases ==
  \A s \in Servers, b \in Boxes, t \in Tids :
    Terms[s][b][t].lease = Forever \/ Terms[s][b][t].lease >= 29

\* What is left of a lease that is counted down: the counter may already have
\* passed the minute when the lease begins.
Covered(b) ==
  phase[b] = "run" /\ leaseLeft[b] # Forever /\ lease[b] >= 3 =>
    /\ lease[b] < Infinite
    /\ cnt[b] <= 8 => leaseLeft[b] + cnt[b] >= 9 * lease[b] - 17
    /\ cnt[b] > 8 /\ iters[b] = 0 => leaseLeft[b] >= 9 * lease[b] - 26
    /\ cnt[b] > 8 /\ iters[b] >= 1 => leaseLeft[b] >= 9 * lease[b] - 16

LeaseInv == \A b \in Boxes : Covered(b)

LEMMA MinutesAreCovered ==
  ASSUME NEW l \in Nat, l >= 29
  PROVE  l >= 9 * Minutes(l) - 16
<1> DEFINE m == (6 * l) \div 64
<1>1. m \in Nat /\ 64 * m <= 6 * l
  OBVIOUS
<1>2. l # Forever
  BY NamesAssumption
<1>3. Minutes(l) = IF m > 65533 THEN 65533 ELSE IF m < 5 THEN 5 ELSE m
  BY <1>2 DEF Minutes
<1> HIDE DEF m
<1> QED
  BY <1>1, <1>3

LEMMA TickCovered ==
  ASSUME TypeOK, NEW b \in Boxes, Covered(b), Tick6
  PROVE  Covered(b)'
<1> DEFINE e == leaseLeft[b]  n == cnt[b]  l == lease[b]
<1>1. /\ e \in Nat \cup {Forever} /\ n \in Nat /\ n < CntMod /\ l \in Nat
      /\ iters[b] \in Nat
  BY Numbers
<1>2. /\ leaseLeft'[b] = Less1(e) /\ cnt'[b] = (n + 1) % CntMod
      /\ iters'[b] = 0 /\ lease'[b] = l /\ phase'[b] = phase[b] /\ iters[b] >= 1
  BY DEF Tick6, TypeOK
<1>3. CASE e = Forever
  BY <1>2, <1>3, Less1Type DEF Covered
<1>4. CASE ~(phase[b] = "run" /\ l >= 3)
  BY <1>2, <1>4 DEF Covered
<1>5. CASE e \in Nat /\ phase[b] = "run" /\ l >= 3
  <2>1. e # Forever
    BY <1>5, NamesAssumption
  <2>2. /\ l < Infinite
        /\ n <= 8 => e + n >= 9 * l - 17
        /\ n > 8 => e >= 9 * l - 16
    BY <1>1, <1>2, <1>5, <2>1 DEF Covered
  <2> DEFINE k == cnt'[b]
  <2>3. k \in Nat /\ (n <= 8 => k = n + 1) /\ (n > 8 => k = 0 \/ k > 9)
    BY <1>1, <1>2, CounterTicks
  <2>4. e > 0
    <3> HIDE DEF e, n, l
    <3> QED
      BY <1>1, <1>5, <2>2
  <2>5. leaseLeft'[b] = e - 1
    BY <1>2, <2>1, <2>4 DEF Less1
  <2>6. /\ k <= 8 => (e - 1) + k >= 9 * l - 17
        /\ k > 8 => e - 1 >= 9 * l - 26
    <3> HIDE DEF e, n, l, k
    <3> QED
      BY <1>1, <1>5, <2>2, <2>3
  <2> QED
    BY <1>2, <2>2, <2>5, <2>6 DEF Covered
<1> QED
  BY <1>1, <1>3, <1>4, <1>5

\* An iteration of the main loop without a renewal.
LEMMA IterationCovered ==
  ASSUME TypeOK, NEW b \in Boxes, Covered(b), RunIteration(b), lease'[b] = LeaseNow(b),
         leaseLeft'[b] = leaseLeft[b]
  PROVE  Covered(b)'
<1> DEFINE e == leaseLeft[b]  n == cnt[b]  l == lease[b]  l2 == lease'[b]
<1>1. e \in Nat \cup {Forever} /\ n \in Nat /\ l \in Nat /\ iters[b] \in Nat /\ l <= Infinite
  BY Numbers
<1>2. /\ phase[b] = "run" /\ phase'[b] = "run" /\ iters'[b] = 1
      /\ cnt'[b] = IF n > 8 THEN 0 ELSE n
  BY IterationCounts
<1>3. l2 = IF n > 8 /\ l < Infinite /\ l > 1 THEN l - 1 ELSE l
  BY LeaseCounts
<1>4. CASE e = Forever
  BY <1>4 DEF Covered
<1>5. CASE e \in Nat /\ l2 >= 3
  <2>1. e # Forever
    BY <1>5, NamesAssumption
  <2>2. l >= 3
    BY <1>1, <1>3, <1>5
  <2>3. /\ l < Infinite
        /\ n <= 8 => e + n >= 9 * l - 17
        /\ n > 8 => e >= 9 * l - 26
    <3>1. /\ l < Infinite
          /\ n <= 8 => e + n >= 9 * l - 17
          /\ n > 8 /\ iters[b] = 0 => e >= 9 * l - 26
          /\ n > 8 /\ iters[b] >= 1 => e >= 9 * l - 16
      BY <1>2, <2>1, <2>2 DEF Covered
    <3> HIDE DEF e, n, l
    <3> QED
      BY <1>1, <1>5, <3>1
  <2>4. CASE n <= 8
    <3>1. cnt'[b] = n /\ l2 = l
      BY <1>1, <1>2, <1>3, <2>4
    <3> QED
      BY <1>1, <1>2, <2>3, <2>4, <3>1 DEF Covered
  <2>5. CASE n > 8
    <3>1. cnt'[b] = 0 /\ l2 = l - 1
      BY <1>1, <1>2, <1>3, <2>2, <2>3, <2>5
    <3>2. l - 1 < Infinite /\ e + 0 >= 9 * (l - 1) - 17
      <4> HIDE DEF e, n, l
      <4> QED
        BY <1>1, <1>5, <2>3, <2>5, InfiniteIs
    <3> QED
      BY <1>1, <1>2, <3>1, <3>2 DEF Covered
  <2> QED
    BY <1>1, <2>4, <2>5
<1>6. CASE ~(l2 >= 3)
  BY <1>6 DEF Covered
<1> QED
  BY <1>1, <1>4, <1>5, <1>6

LEMMA LeaseInit == Init => LeaseInv
BY DEF Init, LeaseInv, Covered

LEMMA AckCovered ==
  ASSUME TypeOK, AskedInv, OfferInv, OneOfEach, LongLeases, NEW b \in Boxes,
         NEW m \in Heard(b), TakeAck(b, m)
  PROVE  Covered(b)'
<1>1. PICK a \in asked, s \in Servers : AnswerTo(m, a, s)
  BY HeardIs
<1>2. m.lease = Forever \/ m.lease >= 29
  BY <1>1 DEF AnswerTo, TypeOK, LongLeases
<1>3. m.lease \in Nat \cup {Forever}
  BY HeardType
<1>4. /\ leaseLeft'[b] = m.lease /\ cnt'[b] = cnt[b] /\ iters'[b] >= 1
      /\ lease'[b] = Minutes(m.lease)
  <2>1. lease' = lease /\ lease[b] = Minutes(m.lease) /\ cnt' = cnt
    BY AckAgrees DEF TakeAck
  <2>2. leaseLeft'[b] = m.lease
    BY DEF TypeOK, TakeAck
  <2>3. iters'[b] = iters[b] + 1
    BY DEF TypeOK, TakeAck, BootIteration
  <2>4. iters[b] \in Nat
    BY Numbers
  <2> QED
    BY <2>1, <2>2, <2>3, <2>4
<1>5. CASE m.lease = Forever
  BY <1>4, <1>5 DEF Covered
<1>6. CASE m.lease \in Nat
  <2> DEFINE e == m.lease  k == Minutes(m.lease)  n == cnt[b]
  <2>1. e \in Nat /\ e >= 29
    BY <1>2, <1>6, NamesAssumption
  <2>2. k \in Nat /\ k <= 65533 /\ e >= 9 * k - 16
    BY <2>1, MinutesOfEnding, MinutesAreCovered
  <2>3. n \in Nat
    BY Numbers
  <2>4. /\ k < Infinite /\ e + n >= 9 * k - 17 /\ e >= 9 * k - 26
    <3> HIDE DEF e, k, n
    <3> QED
      BY <2>1, <2>2, <2>3, InfiniteIs
  <2> QED
    BY <1>4, <2>2, <2>4 DEF Covered
<1> QED
  BY <1>3, <1>5, <1>6

LEMMA LeaseStep ==
  ASSUME TypeOK, AskedInv, OfferInv, LeaseInv, OneOfEach, LongLeases, [Next]_vars
  PROVE  LeaseInv'
<1> SUFFICES ASSUME NEW b \in Boxes PROVE Covered(b)'
  BY DEF LeaseInv
<1>1. Covered(b)
  BY DEF LeaseInv
<1>2. CASE UNCHANGED vars
  BY <1>1, <1>2 DEF Covered, vars, box
<1>3. CASE Tick6
  BY <1>1, <1>3, TickCovered
<1>4. CASE phase'[b] = "boot"
  BY <1>4 DEF Covered
<1>5. CASE BootNext(b)
  <2>1. CASE \E m \in Heard(b) : TakeAck(b, m)
    BY <2>1, AckCovered
  <2>2. CASE phase' = phase
    <3>1. phase[b] = "boot"
      BY <1>5
      DEF BootNext, BootIteration, BootIgnores, BootDelay, FirstDiscover, RetryDiscover,
          TakeOffer, TakeAck
    <3> QED
      BY <1>4, <2>2, <3>1
  <2> QED
    BY <1>5, <2>1, <2>2
    DEF BootNext, BootIgnores, BootDelay, FirstDiscover, RetryDiscover, Discover, TakeOffer
<1>6. CASE RunIdle(b)
  BY <1>1, <1>6, IterationCovered DEF TypeOK, RunIdle
<1>7. CASE Renew(b)
  BY <1>7 DEF TypeOK, Renew, Covered
<1>8. ASSUME NEW m \in Heard(b), RunReceives(b, m)
      PROVE  Covered(b)'
  <2>1. RunIteration(b) /\ leaseLeft' = leaseLeft
    BY <1>8 DEF RunReceives
  <2>2. CASE lease'[b] = LeaseNow(b)
    BY <1>1, <2>1, <2>2, IterationCovered
  <2>3. CASE m.renew
    <3>1. PICK a \in asked, s \in Servers : AnswerTo(m, a, s)
      BY HeardIs
    <3>2. a.type = "renew" /\ a.box = b
      BY <2>3, <3>1, OneBox DEF AnswerTo, TypeOK
    <3> QED
      BY <2>1, <3>2 DEF OfferInv, AskedInPhase, Covered
  <2> QED
    BY <1>8, <2>2, <2>3 DEF TypeOK, RunReceives
<1>9. CASE Restart(b)
  BY <1>9 DEF TypeOK, Restart, Covered
<1> QED
  BY <1>2, <1>3, <1>5, <1>6, <1>7, <1>8, <1>9, OneBox DEF Next, RunNext

LEMMA LeaseSuffices ==
  ASSUME TypeOK, LeaseInv
  PROVE  LeaseHeldIsValid
<1> SUFFICES ASSUME NEW b \in Boxes, phase[b] = "run", lease[b] >= 3, leaseLeft[b] = 0
             PROVE  FALSE
  BY DEF LeaseHeldIsValid
<1> DEFINE n == cnt[b]  l == lease[b]
<1>1. n \in Nat /\ l \in Nat /\ iters[b] \in Nat /\ l >= 3
  BY Numbers
<1>2. /\ n <= 8 => 0 + n >= 9 * l - 17
      /\ n > 8 /\ iters[b] = 0 => 0 >= 9 * l - 26
      /\ n > 8 /\ iters[b] >= 1 => 0 >= 9 * l - 16
  BY NamesAssumption DEF LeaseInv, Covered
<1> HIDE DEF n, l
<1> QED
  BY <1>1, <1>2

\* With one server whose leases last 174 seconds at least, no lease runs out before the
\* box has asked for its renewal (dhcp_client.c:277-299, 472-486).
THEOREM LeaseValid ==
  ASSUME OneOfEach, LongLeases
  PROVE  Spec => []LeaseHeldIsValid
<1>1. TypeOK /\ AskedInv /\ OfferInv /\ LeaseInv /\ [Next]_vars => LeaseInv'
  BY LeaseStep
<1>2. TypeOK /\ LeaseInv => LeaseHeldIsValid
  BY LeaseSuffices
<1> QED
  BY <1>1, <1>2, LeaseInit, OfferInvariance, PTL DEF Spec
===============================================================================
