--------------------------- MODULE WebServerProofs ----------------------------
(***************************************************************************)
(* Proofs about WebServer for any number of browsers, any requests, times  *)
(* and pages, and whatever the network does.                               *)
(***************************************************************************)
EXTENDS WebServer, CountingProofs, TLAPS

-------------------------------------------------------------------------------
(* Restarts. *)

\* The session there is, is the last login's.
SessionInv == sessionid # NoSession => login = {my_itoa_long(sessionid)}

LEMMA BoxKeepsSession ==
  ASSUME SessionInv, NEW p \in net, BoxGets(p)
  PROVE  SessionInv'
<1>1. CASE HandleSyn(p)
  BY <1>1 DEF HandleSyn, SessionInv
<1>2. CASE HandleFin(p)
  BY <1>2 DEF HandleFin, SessionInv, SameBox, box
<1>3. CASE HandleGet(p)
  <2>1. CASE Index(p) \/ Favicon(p) \/ LoginPage(p) \/ WrongSession(p) \/ Info(p) \/ NoAnswer(p)
    BY <2>1 DEF Index, Favicon, LoginPage, WrongSession, Info, NoAnswer, SameBox, box, SessionInv
  <2>2. CASE Login(p)
    BY <2>2 DEF Login, SessionInv
  <2>3. CASE Exit(p)
    BY <2>3 DEF Exit, SessionInv
  <2> QED
    BY <1>3, <2>1, <2>2, <2>3 DEF HandleGet
<1>4. CASE HandleRestart(p)
  BY <1>4 DEF HandleRestart, Reboot, Started, SessionInv
<1> QED
  BY <1>1, <1>2, <1>3, <1>4 DEF BoxGets

LEMMA NextKeepsSession == SessionInv /\ [Next]_vars => SessionInv'
<1> SUFFICES ASSUME SessionInv, [Next]_vars
             PROVE  SessionInv'
  OBVIOUS
<1>1. CASE \E p \in net : BoxGets(p)
  BY <1>1, BoxKeepsSession
<1>2. CASE PowerCut
  BY <1>2 DEF PowerCut, Started, SessionInv
<1>3. CASE UNCHANGED <<sessionid, login>>
  BY <1>3 DEF SessionInv
<1>4. \/ \E p \in net : BoxGets(p)
      \/ PowerCut
      \/ UNCHANGED <<sessionid, login>>
  BY DEF Next, vars, BrowserGets, Lose, Ping, ClientSyn, box
<1> QED
  BY <1>1, <1>2, <1>3, <1>4

\* Only Reboot restarts the box, and it has found the session's number.
LEMMA RestartStep ==
  ASSUME SessionInv, Next, NEW sid \in restarted'
  PROVE  \E text \in login : strstr(sid, text)
<1>1. PICK p \in net : BoxGets(p)
  BY DEF Next, BrowserGets, Lose, Ping, PowerCut, ClientSyn, Plain
<1>2. HandleRestart(p) /\ sid = p.body.sid
  BY <1>1 DEF BoxGets
<1>3. Accepts(sid)
  BY <1>2 DEF HandleRestart, Reboot
<1> QED
  BY <1>3 DEF Accepts, SessionInv

\* A page restarts the box only for a request that shows the number of a login since the
\* last start with no Exit behind it, or a text that number is a part of, whatever browsers
\* send, repeat and know of earlier sessions, and whenever the logins are: the comparison
\* with 0 keeps out who would pass with the text of "no session" (protocol.c:1938-1945,
\* 1973-1989, 2139-2183).
THEOREM RestartsNeedALoginHolds == Spec => RestartsNeedALogin
<1>1. Init => SessionInv
  BY DEF Init, SessionInv
<1>2. SessionInv /\ [Next]_vars =>
        [\A sid \in restarted' : \E text \in login : strstr(sid, text)]_vars
  BY RestartStep
<1> QED
  BY <1>1, <1>2, NextKeepsSession, PTL DEF Spec, RestartsNeedALogin

-------------------------------------------------------------------------------
(* The numbers of the answers. *)

ConnFields    == {"st", "req", "next", "end", "acked"}
SegmentFields == {"to", "conn", "flags", "seq", "ack", "len", "body"}

ConnInv == DOMAIN conn = Connections /\ \A c \in Connections : DOMAIN conn[c] = ConnFields

\* A browser has taken a first number; it has also been shown a page.
Opened(k) == k.st \in {"asked", "shown"}
Read(k)   == k.st = "shown"

\* What browsers send: the GET follows the first number taken, the FIN the page.
Asks(p, k) ==
  \/ p.flags = {"SYN"} /\ p.seq = 0 /\ p.len = 0
  \/ p.flags = {"ACK", "PSH"} /\ p.seq = 1 /\ p.ack = k.next /\ p.len = RequestLength /\ Opened(k)
  \/ p.flags = {"ACK", "FIN"} /\ p.seq = 1 + RequestLength /\ p.ack = k.end /\ p.len = 0 /\ Read(k)

\* What the box sends.
Answers(p, k) ==
  \/ "SYN" \in p.flags /\ p.ack = 1
  \/ "SYN" \notin p.flags /\ p.ack = 1 + RequestLength /\ p.seq = k.next /\ Opened(k)
  \/ "SYN" \notin p.flags /\ p.ack = 2 + RequestLength /\ p.seq = k.end /\ Read(k)

Fits(p) ==
  /\ DOMAIN p = SegmentFields
  /\ p.conn \in Connections
  /\ \/ p.to = "box" /\ Asks(p, conn[p.conn])
     \/ p.to = "browser" /\ Answers(p, conn[p.conn])
NetInv == \A p \in net : Fits(p)

IInv == ConnInv /\ NetInv

LEMMA IInvIsAcceptable == IInv => AnswersAreAcceptable
<1> SUFFICES ASSUME IInv, NEW p \in net, p.to = "browser"
             PROVE  IF "SYN" \in p.flags
                    THEN p.ack = 1
                    ELSE \/ p.ack = 1 + RequestLength /\ p.seq = conn[p.conn].next
                         \/ p.ack = 2 + RequestLength /\ p.seq = conn[p.conn].end
  BY DEF AnswersAreAcceptable
<1>1. Answers(p, conn[p.conn])
  BY DEF IInv, NetInv, Fits
<1> QED
  BY <1>1 DEF Answers

LEMMA InitNumbers == Init => IInv
<1> SUFFICES ASSUME Init PROVE IInv
  OBVIOUS
<1>1. DOMAIN Closed = ConnFields
  BY DEF Closed, ConnFields
<1>2. DOMAIN conn = Connections /\ \A c \in Connections : conn[c] = Closed
  BY DEF Init
<1>3. net = {}
  BY DEF Init
<1> QED
  BY <1>1, <1>2, <1>3 DEF IInv, ConnInv, NetInv

\* make_tcphead() turns a segment round and leaves its connection and flags.
LEMMA HeadFields ==
  ASSUME NEW p, DOMAIN p = SegmentFields, NEW rel, NEW cp \in BOOLEAN
  PROVE  LET q == make_tcphead(p, rel, cp)
         IN  /\ DOMAIN q = SegmentFields
             /\ q.to = "browser" /\ q.conn = p.conn /\ q.flags = p.flags
             /\ (cp => q.seq = p.ack) /\ q.ack = p.seq + rel /\ q.len = 0
<1> DEFINE q == make_tcphead(p, rel, cp)
           e == {"to", "seq", "ack", "len", "body"}
<1>1. q = [p EXCEPT !.to = "browser", !.seq = IF cp THEN p.ack ELSE 0, !.ack = p.seq + rel,
            !.len = 0, !.body = NoBody]
  BY DEF make_tcphead
<1>2. /\ DOMAIN q = SegmentFields
      /\ q.to = "browser" /\ q.conn = p.conn /\ q.flags = p.flags
  BY <1>1 DEF SegmentFields
<1>3. q.seq = (IF cp THEN p.ack ELSE 0)
  BY <1>1 DEF SegmentFields
<1>4. q.ack = p.seq + rel /\ q.len = 0
  BY <1>1 DEF SegmentFields
<1> QED
  BY <1>2, <1>3, <1>4

\* The answer to a segment of a browser fits the browser's connection.
LEMMA SynAckFits ==
  ASSUME IInv, NEW p \in net, p.to = "box", "SYN" \in p.flags
  PROVE  Fits(make_tcp_synack_from_syn(p))
<1> DEFINE h == make_tcphead(p, 1, FALSE)
           q == make_tcp_synack_from_syn(p)
<1>1. DOMAIN p = SegmentFields /\ p.conn \in Connections /\ p.seq = 0
  BY DEF IInv, NetInv, Fits, Asks
<1>2. DOMAIN h = SegmentFields /\ h.to = "browser" /\ h.conn = p.conn /\ h.ack = p.seq + 1
  <2>1. ASSUME NEW cp \in BOOLEAN
        PROVE  LET g == make_tcphead(p, 1, cp)
               IN  DOMAIN g = SegmentFields /\ g.to = "browser" /\ g.conn = p.conn
                   /\ g.ack = p.seq + 1
    BY <1>1, HeadFields
  <2> QED
    BY <2>1
<1> HIDE DEF h
<1>3. q = [h EXCEPT !.flags = {"SYN", "ACK"}, !.seq = seqnum * 256]
  BY DEF h, make_tcp_synack_from_syn
<1>4. /\ DOMAIN q = SegmentFields /\ q.to = "browser" /\ q.conn = p.conn /\ q.ack = 1
      /\ q.flags = {"SYN", "ACK"}
  BY <1>1, <1>2, <1>3 DEF SegmentFields
<1> QED
  BY <1>1, <1>4 DEF Fits, Answers

Acknowledges(q, p, n) ==
  /\ DOMAIN q = SegmentFields
  /\ q.to = "browser" /\ q.conn = p.conn /\ q.flags = {"ACK"}
  /\ q.seq = p.ack /\ q.ack = p.seq + n /\ q.len = 0
LEMMA AckFields == \A p, n : DOMAIN p = SegmentFields /\ n \in Nat =>
  Acknowledges(make_tcp_ack_from_any(p, n, {}), p, IF n = 0 THEN 1 ELSE n)
<1> SUFFICES ASSUME NEW p, NEW n, DOMAIN p = SegmentFields, n \in Nat
             PROVE  Acknowledges(make_tcp_ack_from_any(p, n, {}), p, IF n = 0 THEN 1 ELSE n)
  OBVIOUS
<1> DEFINE rel == IF n = 0 THEN 1 ELSE n
           h == make_tcphead(p, rel, TRUE)
           q == make_tcp_ack_from_any(p, n, {})
<1>1. DOMAIN h = SegmentFields /\ h.to = "browser" /\ h.conn = p.conn
      /\ h.seq = p.ack /\ h.ack = p.seq + rel /\ h.len = 0
  BY HeadFields
<1> HIDE DEF h
<1>2. q = [h EXCEPT !.flags = {"ACK"} \cup {}]
  BY DEF h, make_tcp_ack_from_any
<1>3. {"ACK"} \cup {} = {"ACK"}
  OBVIOUS
<1> QED
  BY <1>1, <1>2, <1>3 DEF SegmentFields, Acknowledges

LEMMA FinAnswerFits ==
  ASSUME IInv, NEW p \in net, HandleFin(p), p.to = "box"
  PROVE  Fits(make_tcp_ack_from_any(p, 0, {}))
<1>1. /\ DOMAIN p = SegmentFields /\ p.conn \in Connections
      /\ p.seq = 1 + RequestLength /\ p.ack = conn[p.conn].end /\ Read(conn[p.conn])
  BY DEF HandleFin, IInv, NetInv, Fits, Asks
<1> DEFINE q == make_tcp_ack_from_any(p, 0, {})
<1>2. /\ DOMAIN q = SegmentFields /\ q.to = "browser" /\ q.conn = p.conn /\ q.flags = {"ACK"}
      /\ q.seq = p.ack /\ q.ack = p.seq + 1
  BY <1>1, AckFields DEF Acknowledges
<1> HIDE DEF q
<1>3. q.ack = 2 + RequestLength
  BY <1>1, <1>2 DEF RequestLength
<1>4. Fits(q)
  BY <1>1, <1>2, <1>3 DEF Fits, Answers
<1> QED
  BY <1>4 DEF q

\* Both segments of a page.
LEMMA PageFits ==
  ASSUME IInv, NEW p \in net, p.to = "box", p.len > 0, NEW body, NEW dlen,
         NEW q \in www_server_reply(p, body, dlen)
  PROVE  Fits(q)
<1>1. /\ DOMAIN p = SegmentFields /\ p.conn \in Connections
      /\ p.seq = 1 /\ p.ack = conn[p.conn].next /\ p.len = RequestLength /\ Opened(conn[p.conn])
  BY DEF IInv, NetInv, Fits, Asks
<1> DEFINE a == make_tcp_ack_from_any(p, p.len, {})
           b == [a EXCEPT !.flags = {"ACK", "PSH", "FIN"}]
<1>2. p.len \in Nat /\ p.len # 0
  BY <1>1 DEF RequestLength
<1>3. /\ DOMAIN a = SegmentFields /\ a.to = "browser" /\ a.conn = p.conn /\ a.flags = {"ACK"}
      /\ a.seq = p.ack /\ a.ack = p.seq + p.len
  <2> DEFINE n == p.len
  <2>1. n \in Nat /\ n # 0
    BY <1>2
  <2> HIDE DEF n
  <2>2. Acknowledges(make_tcp_ack_from_any(p, n, {}), p, IF n = 0 THEN 1 ELSE n)
    BY <1>1, <2>1, AckFields
  <2> QED
    BY <2>1, <2>2 DEF n, Acknowledges
<1>4. q = a \/ q = [b EXCEPT !.body = body, !.len = dlen]
  BY DEF www_server_reply, make_tcp_ack_with_data_noflags
<1> HIDE DEF a
<1>5. a.ack = 1 + RequestLength
  BY <1>1, <1>3
<1>6. /\ DOMAIN b = SegmentFields /\ b.to = "browser" /\ b.conn = p.conn
      /\ b.flags = {"ACK", "PSH", "FIN"} /\ b.seq = p.ack /\ b.ack = 1 + RequestLength
  BY <1>3, <1>5 DEF SegmentFields
<1> HIDE DEF b
<1>7. /\ DOMAIN q = SegmentFields /\ q.to = "browser" /\ q.conn = p.conn
      /\ "SYN" \notin q.flags /\ q.seq = p.ack /\ q.ack = 1 + RequestLength
  <2>1. CASE q = a
    BY <2>1, <1>3, <1>5
  <2>2. CASE q = [b EXCEPT !.body = body, !.len = dlen]
    BY <2>2, <1>6 DEF SegmentFields
  <2> QED
    BY <1>4, <2>1, <2>2
<1> QED
  BY <1>1, <1>7 DEF Fits, Answers

LEMMA BoxKeepsNumbers ==
  ASSUME IInv, NEW p \in net, BoxGets(p)
  PROVE  IInv'
<1>1. conn' = conn /\ p.to = "box"
  BY DEF BoxGets
<1>2. ASSUME NEW q \in net' PROVE q \in net \/ Fits(q)
  <2>1. CASE HandleSyn(p)
    BY <2>1, <1>1, <1>2, SynAckFits DEF HandleSyn
  <2>2. CASE HandleFin(p)
    BY <2>2, <1>1, <1>2, FinAnswerFits DEF HandleFin
  <2>3. CASE HandleGet(p) \/ HandleRestart(p)
    <3>1. p.len > 0
      BY <2>3 DEF HandleGet, HandleRestart
    <3>2. \/ net' = net
          \/ \E kind, sid : Reply(p, kind, sid)
      BY <2>3 DEF HandleGet, HandleRestart, Index, Favicon, Login, LoginPage, WrongSession, Info,
                  Exit, Reboot, NoAnswer
    <3> QED
      BY <3>1, <3>2, <1>1, <1>2, PageFits DEF Reply
  <2> QED
    BY <2>1, <2>2, <2>3 DEF BoxGets
<1>3. ASSUME NEW q \in net' PROVE Fits(q)
  BY <1>2, <1>3 DEF IInv, NetInv
<1>4. ASSUME NEW q \in net' PROVE Fits(q)'
  BY <1>3, <1>4, <1>1 DEF Fits, Answers, Asks
<1> QED
  BY <1>1, <1>4 DEF IInv, ConnInv, NetInv

\* Numbers that were taken stay.
Grown(k, l) == /\ Opened(k) => Opened(l) /\ l.next = k.next
               /\ Read(k) => Read(l) /\ l.end = k.end

LEMMA FitsStays ==
  ASSUME NEW p, Fits(p), NEW c \in Connections, ConnInv, NEW l, DOMAIN l = ConnFields,
         conn' = [conn EXCEPT ![c] = l], Grown(conn[c], l)
  PROVE  Fits(p)' /\ ConnInv' /\ conn'[c] = l
<1>1. ConnInv' /\ conn'[c] = l /\ \A d \in Connections : d # c => conn'[d] = conn[d]
  BY DEF ConnInv
<1>2. p.conn \in Connections
  BY DEF Fits
<1>3. Grown(conn[p.conn], conn'[p.conn])
  BY <1>1, <1>2 DEF Grown
<1>4. Asks(p, conn[p.conn]) => Asks(p, conn'[p.conn])
  BY <1>3 DEF Asks, Grown
<1>5. Answers(p, conn[p.conn]) => Answers(p, conn'[p.conn])
  BY <1>3 DEF Answers, Grown
<1> QED
  BY <1>1, <1>4, <1>5 DEF Fits

LEMMA BrowserSends ==
  ASSUME IInv, NEW c \in Connections, NEW l, DOMAIN l = ConnFields, Grown(conn[c], l),
         conn' = [conn EXCEPT ![c] = l],
         NEW m,
         \/ net' = net
         \/ /\ net' = net \cup {m}
            /\ DOMAIN m = SegmentFields /\ m.to = "box" /\ m.conn = c /\ Asks(m, l)
  PROVE  IInv'
<1>1. ConnInv
  BY DEF IInv
<1>2. ConnInv' /\ conn'[c] = l
  BY <1>1 DEF ConnInv
<1>3. ASSUME NEW q \in net' PROVE Fits(q)'
  <2>1. CASE q \in net
    BY <2>1, <1>1, FitsStays DEF IInv, NetInv
  <2>2. CASE q \notin net
    <3>1. q = m /\ DOMAIN m = SegmentFields /\ m.to = "box" /\ m.conn = c /\ Asks(m, l)
      BY <2>2, <1>3
    <3> QED
      BY <3>1, <1>2 DEF Fits, Asks
  <2> QED
    BY <2>1, <2>2
<1> QED
  BY <1>2, <1>3 DEF IInv, NetInv

LEMMA BrowserKeepsNumbers ==
  ASSUME IInv, NEW c \in Connections,
         (\E req : Connect(c, req)) \/ BrowserGets(c)
  PROVE  IInv'
<1> DEFINE k == conn[c]
<1>1. DOMAIN k = ConnFields
  BY DEF IInv, ConnInv
<1>2. ASSUME NEW req, Connect(c, req) PROVE IInv'
  <2> DEFINE l == [Closed EXCEPT !.st = "syn", !.req = req]
  <2>1. DOMAIN l = ConnFields /\ Grown(k, l)
    BY <1>2 DEF Connect, Closed, ConnFields, Grown, Opened, Read
  <2>2. conn' = [conn EXCEPT ![c] = l] /\ net' = net \cup {Syn(c, req)}
    BY <1>2 DEF Connect
  <2>3. LET q == Syn(c, req)
        IN  DOMAIN q = SegmentFields /\ q.to = "box" /\ q.conn = c /\ Asks(q, l)
    BY DEF Syn, Segment, SegmentFields, Asks
  <2> HIDE DEF l
  <2> QED
    BY <2>1, <2>2, <2>3, BrowserSends
<1>3. ASSUME NEW p \in net, TakeSynAck(c, p) PROVE IInv'
  <2> DEFINE l == [k EXCEPT !.st = "asked", !.next = p.seq + 1]
  <2>1. DOMAIN l = ConnFields /\ Grown(k, l) /\ Opened(l) /\ l.next = p.seq + 1
    BY <1>1, <1>3 DEF TakeSynAck, ConnFields, Grown, Opened, Read
  <2>2. conn' = [conn EXCEPT ![c] = l] /\ net' = net \cup {Get(c, k.req, p.seq + 1)}
    BY <1>3 DEF TakeSynAck, IInv, ConnInv
  <2> HIDE DEF l
  <2>3. LET q == Get(c, k.req, p.seq + 1)
        IN  DOMAIN q = SegmentFields /\ q.to = "box" /\ q.conn = c /\ Asks(q, l)
    BY <2>1 DEF Get, Segment, SegmentFields, Asks
  <2> QED
    BY <2>1, <2>2, <2>3, BrowserSends
<1>4. ASSUME NEW p \in net, TakeAck(c, p) PROVE IInv'
  <2> DEFINE l == [k EXCEPT !.acked = TRUE]
  <2>1. DOMAIN l = ConnFields /\ Grown(k, l)
    BY <1>1 DEF ConnFields, Grown, Opened, Read
  <2>2. conn' = [conn EXCEPT ![c] = l] /\ net' = net
    BY <1>4 DEF TakeAck
  <2> HIDE DEF l
  <2> QED
    BY <2>1, <2>2, BrowserSends
<1>5. ASSUME NEW p \in net, TakePage(c, p) PROVE IInv'
  <2> DEFINE l == [k EXCEPT !.st = "shown", !.acked = TRUE, !.end = p.seq + p.len + 1]
  <2>1. DOMAIN l = ConnFields /\ Grown(k, l) /\ Read(l) /\ l.end = p.seq + p.len + 1
    BY <1>1, <1>5 DEF TakePage, ConnFields, Grown, Opened, Read
  <2>2. conn' = [conn EXCEPT ![c] = l] /\ net' = net \cup {Fin(c, k.req, p.seq + p.len + 1)}
    BY <1>5 DEF TakePage, IInv, ConnInv
  <2> HIDE DEF l
  <2>3. LET q == Fin(c, k.req, p.seq + p.len + 1)
        IN  DOMAIN q = SegmentFields /\ q.to = "box" /\ q.conn = c /\ Asks(q, l)
    BY <2>1 DEF Fin, Segment, SegmentFields, Asks
  <2> QED
    BY <2>1, <2>2, <2>3, BrowserSends
<1> QED
  BY <1>2, <1>3, <1>4, <1>5 DEF BrowserGets

LEMMA NextKeepsNumbers == IInv /\ [Next]_vars => IInv'
<1> SUFFICES ASSUME IInv, [Next]_vars PROVE IInv'
  OBVIOUS
<1>1. CASE \E p \in net : BoxGets(p)
  BY <1>1, BoxKeepsNumbers
<1>2. CASE \E c \in Connections : (\E req : Connect(c, req)) \/ BrowserGets(c)
  BY <1>2, BrowserKeepsNumbers
<1>3. CASE conn' = conn /\ net' \subseteq net
  BY <1>3 DEF IInv, ConnInv, NetInv, Fits, Asks, Answers
<1>4. \/ \E p \in net : BoxGets(p)
      \/ \E c \in Connections : (\E req : Connect(c, req)) \/ BrowserGets(c)
      \/ conn' = conn /\ net' \subseteq net
  BY DEF Next, vars, Lose, Ping, PowerCut, ClientSyn
<1> QED
  BY <1>1, <1>2, <1>3, <1>4

\* No browser is sent an acknowledgement of what it did not send, or a page or an
\* acknowledgement outside of the first number it took (make_tcphead(),
\* make_tcp_ack_from_any(), www_server_reply()).
THEOREM AnswersAreAlwaysAcceptable == Spec => []AnswersAreAcceptable
  BY InitNumbers, NextKeepsNumbers, IInvIsAcceptable, PTL DEF Spec
-------------------------------------------------------------------------------
(* Pings. *)

\* The sums of two words and of three.
LEMMA SumOfTwo == ASSUME NEW a \in Nat, NEW b \in Nat PROVE SumOf(<<a, b>>) = Folded(a + b)
<1> DEFINE words == <<a, b>>
           Is(g) == g = [n \in 0..Len(words) |-> IF n = 0 THEN 0 ELSE g[n - 1] + words[n]]
           sum == CHOOSE g : Is(g)
           h == [n \in 0..2 |-> IF n = 0 THEN 0 ELSE IF n = 1 THEN a ELSE a + b]
<1>1. SumOf(words) = Folded(sum[Len(words)])
  BY DEF SumOf
<1>2. Len(words) = 2 /\ words[1] = a /\ words[2] = b
  OBVIOUS
<1> HIDE DEF words
<1>3. \A n \in 0..2 : h[n] = IF n = 0 THEN 0 ELSE h[n - 1] + words[n]
  BY <1>2
<1>4. h = [n \in 0..2 |-> h[n]]
  OBVIOUS
<1> HIDE DEF h
<1>5. Is(h)
  BY <1>2, <1>3, <1>4
<1>6. Is(sum)
  BY <1>5
<1> HIDE DEF sum
<1>7. sum[0] = 0 /\ sum[1] = sum[0] + words[1] /\ sum[2] = sum[1] + words[2]
  BY <1>2, <1>6
<1>8. sum[Len(words)] = a + b
  BY <1>2, <1>7
<1> QED
  BY <1>1, <1>8 DEF words

LEMMA SumOfThree ==
  ASSUME NEW a \in Nat, NEW b \in Nat, NEW c \in Nat
  PROVE  SumOf(<<a, b, c>>) = Folded(a + b + c)
<1> DEFINE words == <<a, b, c>>
           Is(g) == g = [n \in 0..Len(words) |-> IF n = 0 THEN 0 ELSE g[n - 1] + words[n]]
           sum == CHOOSE g : Is(g)
           h == [n \in 0..3 |-> IF n = 0 THEN 0 ELSE IF n = 1 THEN a ELSE IF n = 2 THEN a + b
                                ELSE a + b + c]
<1>1. SumOf(words) = Folded(sum[Len(words)])
  BY DEF SumOf
<1>2. Len(words) = 3 /\ words[1] = a /\ words[2] = b /\ words[3] = c
  OBVIOUS
<1> HIDE DEF words
<1>3. \A n \in 0..3 : h[n] = IF n = 0 THEN 0 ELSE h[n - 1] + words[n]
  BY <1>2
<1>4. h = [n \in 0..3 |-> h[n]]
  OBVIOUS
<1> HIDE DEF h
<1>5. Is(h)
  BY <1>2, <1>3, <1>4
<1>6. Is(sum)
  BY <1>5
<1> HIDE DEF sum
<1>7. /\ sum[0] = 0 /\ sum[1] = sum[0] + words[1] /\ sum[2] = sum[1] + words[2]
      /\ sum[3] = sum[2] + words[3]
  BY <1>2, <1>6
<1>8. sum[Len(words)] = a + b + c
  BY <1>2, <1>7
<1> QED
  BY <1>1, <1>8 DEF words

\* A sum that fits into a word stays, and one carry is added again.
LEMMA FoldedSums == \A n \in Nat :
  /\ n < 65536 => Folded(n) = n
  /\ n >= 65536 /\ n < 131071 => Folded(n) = n - 65535
<1> TAKE n \in Nat
<1>1. ASSUME n < 65536 PROVE n % 65536 = n /\ n \div 65536 = 0
  BY <1>1
<1>2. ASSUME n >= 65536, n < 131072 PROVE n % 65536 = n - 65536 /\ n \div 65536 = 1
  BY <1>2
<1>3. ASSUME n < 65536 PROVE Folded(n) = n
  BY <1>1, <1>3 DEF Folded
<1>4. ASSUME n >= 65536, n < 131071 PROVE Folded(n) = n - 65535
  <2> DEFINE once == n - 65535
  <2>1. (n % 65536) + (n \div 65536) = once
    BY <1>2, <1>4
  <2>2. once \in Nat /\ once < 65536
    BY <1>4
  <2> HIDE DEF once
  <2>3. once % 65536 = once /\ once \div 65536 = 0
    BY <2>2
  <2>4. Folded(n) = (once % 65536) + (once \div 65536)
    BY <2>1 DEF Folded
  <2> QED
    BY <2>2, <2>3, <2>4 DEF once
<1> QED
  BY <1>3, <1>4

\* The correction by the high byte alone is that of the whole checksum, but where the low
\* byte has no room for the carry.
LEMMA HighByteCorrects == \A word \in Nat : word < 65536 =>
  LET h == word \div 256
      l == word % 256
      low == IF h > 247 THEN (l + 1) % 256 ELSE l
      new == ((h + 8) % 256) * 256 + low
  IN  /\ h <= 247 => new = word + 2048
      /\ h > 247 /\ l # 255 => new = word - 63487
      /\ h > 247 <=> word >= 63488
<1> SUFFICES ASSUME NEW word \in Nat, word < 65536
             PROVE  LET h == word \div 256
                        l == word % 256
                        low == IF h > 247 THEN (l + 1) % 256 ELSE l
                        new == ((h + 8) % 256) * 256 + low
                    IN  /\ h <= 247 => new = word + 2048
                        /\ h > 247 /\ l # 255 => new = word - 63487
                        /\ h > 247 <=> word >= 63488
  OBVIOUS
<1> DEFINE h == word \div 256
           l == word % 256
<1>1. h \in Nat /\ l \in Nat /\ h < 256 /\ l < 256 /\ word = h * 256 + l
  OBVIOUS
<1> HIDE DEF h, l
<1>2. h <= 247 => (h + 8) % 256 = h + 8
  BY <1>1
<1>3. h > 247 => (h + 8) % 256 = h - 248
  BY <1>1
<1>4. l # 255 => (l + 1) % 256 = l + 1
  BY <1>1
<1>5. h <= 247 => ((h + 8) % 256) * 256 + l = word + 2048
  BY <1>1, <1>2
<1>6. h > 247 /\ l # 255 => ((h + 8) % 256) * 256 + ((l + 1) % 256) = word - 63487
  BY <1>1, <1>3, <1>4
<1>7. h > 247 <=> word >= 63488
  BY <1>1
<1>8. h <= 247 => ~(h > 247)
  BY <1>1
<1> QED
  BY <1>5, <1>6, <1>7, <1>8 DEF h, l

LEMMA PongChecksOut ==
  ASSUME NEW data \in Nat, data < 65536
  PROVE  \/ SumOf(make_echo_reply_from_request(Request(data))) = 65535
         \/ High(Request(data)[2]) > 247 /\ Low(Request(data)[2]) = 255
<1> DEFINE ping == Request(data)
           word == checksum(<<8 * 256, data>>)
           h == word \div 256
           l == word % 256
           low == IF h > 247 THEN (l + 1) % 256 ELSE l
           new == ((h + 8) % 256) * 256 + low
           pong == make_echo_reply_from_request(ping)
<1>1. ping[2] = word /\ pong = <<0, new, data>>
  BY DEF Request, make_echo_reply_from_request, High, Low
<1>2. word = 65535 - Folded(2048 + data)
  <2>1. 8 * 256 = 2048 /\ 2048 \in Nat
    OBVIOUS
  <2> DEFINE type == 2048
  <2>2. type \in Nat
    OBVIOUS
  <2> HIDE DEF type
  <2>3. SumOf(<<type, data>>) = Folded(type + data)
    BY <2>2, SumOfTwo
  <2> QED
    BY <2>1, <2>3 DEF type, checksum
<1>3. \/ 2048 + data < 65536 /\ word = 63487 - data
      \/ 2048 + data >= 65536 /\ word = 129022 - data
  <2>1. CASE 2048 + data < 65536
    <3>1. Folded(2048 + data) = 2048 + data
      BY <2>1, FoldedSums
    <3> QED
      BY <1>2, <2>1, <3>1
  <2>2. CASE 2048 + data >= 65536
    <3>1. Folded(2048 + data) = (2048 + data) - 65535
      BY <2>2, FoldedSums
    <3> QED
      BY <1>2, <2>2, <3>1
  <2> QED
    BY <2>1, <2>2
<1>4. word \in Nat /\ word < 65536
  BY <1>3
<1> HIDE DEF word
<1>5. /\ h <= 247 => new = word + 2048
      /\ h > 247 /\ l # 255 => new = word - 63487
      /\ h > 247 <=> word >= 63488
  BY <1>4, HighByteCorrects
<1>6. h \in Nat
  BY <1>4
<1>7. High(ping[2]) = h /\ Low(ping[2]) = l
  BY <1>1 DEF High, Low
<1> HIDE DEF h, l, low, new, ping
<1>8. CASE h > 247 /\ l = 255
  BY <1>7, <1>8 DEF ping
<1>9. CASE ~(h > 247 /\ l = 255)
  <2>1. new \in Nat /\ (0 + new + data = 65535 \/ 0 + new + data = 131070)
    <3>1. CASE h <= 247
      BY <1>3, <1>4, <1>5, <1>6, <3>1
    <3>2. CASE h > 247
      BY <1>3, <1>4, <1>5, <1>6, <1>9, <3>2
    <3> QED
      BY <1>6, <3>1, <3>2
  <2>2. Folded(0 + new + data) = 65535
    <3> DEFINE n == 0 + new + data
    <3>1. n \in Nat /\ (n = 65535 \/ n = 131070)
      BY <2>1
    <3> HIDE DEF n
    <3>2. Folded(n) = 65535
      BY <3>1, FoldedSums
    <3> QED
      BY <3>2 DEF n
  <2>3. SumOf(<<0, new, data>>) = Folded(0 + new + data)
    <3> DEFINE z == 0
    <3>1. z \in Nat
      OBVIOUS
    <3> HIDE DEF z
    <3>2. SumOf(<<z, new, data>>) = Folded(z + new + data)
      BY <2>1, <3>1, SumOfThree
    <3> QED
      BY <3>2 DEF z
  <2>4. SumOf(pong) = 65535
    BY <1>1, <2>2, <2>3
  <2> QED
    BY <2>4 DEF ping
<1> QED
  BY <1>8, <1>9

EchoInv == echo # Quiet =>
  \E data \in EchoData : echo = <<Request(data), make_echo_reply_from_request(Request(data))>>

\* Whatever a ping carries, its answer passes the check, but for the one exception
\* (make_echo_reply_from_request()).
THEOREM PongsAlwaysCheckOut == Spec => []PongsCheckOut
<1>1. Init => EchoInv
  BY DEF Init, EchoInv
<1>2. EchoInv /\ [Next]_vars => EchoInv'
  <2> SUFFICES ASSUME EchoInv, [Next]_vars PROVE EchoInv'
    OBVIOUS
  <2>1. CASE \E data \in EchoData : Ping(data)
    BY <2>1 DEF Ping, EchoInv
  <2>2. CASE echo' = Quiet \/ echo' = echo
    BY <2>2 DEF EchoInv
  <2>3. CASE \E c \in Connections :
               ((\E req \in Requests(c) : Connect(c, req)) /\ Plain) \/ BrowserGets(c)
    BY <2>2, <2>3 DEF BrowserGets, Plain
  <2>4. CASE \E p \in net : BoxGets(p) \/ Lose(p)
    BY <2>2, <2>4 DEF BoxGets, Lose, Plain
  <2>5. CASE ClientSyn \/ PowerCut
    BY <2>2, <2>5 DEF ClientSyn, PowerCut, Plain
  <2>6. CASE vars' = vars
    BY <2>2, <2>6 DEF vars
  <2> QED
    BY <2>1, <2>3, <2>4, <2>5, <2>6 DEF Next
<1>3. EchoInv => PongsCheckOut
  <2> SUFFICES ASSUME EchoInv, echo # Quiet
               PROVE  \/ SumOf(echo[2]) = 65535
                      \/ High(echo[1][2]) > 247 /\ Low(echo[1][2]) = 255
    BY DEF PongsCheckOut
  <2>1. PICK data \in EchoData :
          echo = <<Request(data), make_echo_reply_from_request(Request(data))>>
    BY DEF EchoInv
  <2>2. data \in Nat /\ data < 65536
    BY EchoAssumption DEF Word
  <2>3. echo[1] = Request(data) /\ echo[2] = make_echo_reply_from_request(Request(data))
    BY <2>1
  <2> QED
    BY <2>2, <2>3, PongChecksOut
<1> QED
  BY <1>1, <1>2, <1>3, PTL DEF Spec

-------------------------------------------------------------------------------
(* The first numbers and the lengths. *)

\* Pages without sensors are short.
LongestPage == 400
LEMMA ListOfNone == print_webpage_index(<<>>) = 341
<1> DEFINE rows == <<>>
           lengths == [a \in 1..Len(rows) |-> IndexRow(rows[a])]
           Is(g) == g = [n \in 0..Len(lengths) |-> IF n = 0 THEN 0 ELSE g[n - 1] + lengths[n]]
           total == CHOOSE g : Is(g)
           h == [n \in 0..0 |-> 0]
<1>1. Len(rows) = 0 /\ lengths = <<>>
  OBVIOUS
<1>2. Len(lengths) = 0
  BY <1>1
<1>3. Total(lengths) = total[Len(lengths)]
  BY DEF Total
<1>4. print_webpage_index(rows) = http200ok + page_header + 123 + Total(lengths) + 62 + 8 + DaysLength + 6 + 2 + 1 + 2 + 1 + 2 + 14
  BY DEF print_webpage_index
<1> HIDE DEF lengths
<1>5. Is(h)
  BY <1>2
<1>6. Is(total)
  BY <1>5
<1> HIDE DEF total
<1>7. total[0] = 0
  BY <1>6
<1> QED
  BY <1>2, <1>3, <1>4, <1>7 DEF http200ok, page_header, DaysLength

LEMMA PagesAreShort == \A kind : Page(kind) \in Nat /\ Page(kind) <= LongestPage
<1> TAKE kind
<1>1. /\ print_webpage_login = 222 /\ print_webpage_mainframe = 278 /\ print_webpage_info = 149
      /\ http200ok + TopLocation = 130 /\ http200ok + NewLocation = 145 /\ http404 = 54
  BY DEF print_webpage_login, print_webpage_mainframe, print_webpage_info, http200ok, TopLocation,
         NewLocation, IpLength, http404, page_header, SidLength, VersionLength
<1>2. Page(kind) \in {341, 222, 278, 149, 130, 145, 54}
  BY <1>1, ListOfNone DEF Page
<1> QED
  BY <1>2 DEF LongestPage

\* The first numbers that a box gives before its byte turns over.
IsFirst(n) == \E m \in Nat : n = (10 + 3 * m) * 256

Typed(p) ==
  /\ p.to \in {"box", "browser"} /\ p.conn \in Connections /\ p.flags \in AllFlags
  /\ p.seq \in Nat /\ p.ack \in Nat /\ p.len \in Nat /\ p.len <= LongestPage
ConnTyped(c, k) ==
  /\ k.st \in {"closed", "syn", "asked", "shown"}
  /\ k.req.kind \in Kinds[c] \cup {"none"}
  /\ k.next \in Nat /\ k.end \in Nat /\ k.acked \in BOOLEAN
TypesInv ==
  /\ seqnum \in Nat /\ seqnum < 256
  /\ \A c \in Connections : ConnTyped(c, conn[c])
  /\ \A p \in net : Typed(p)

\* A page comes behind a first number, a SYN's answer with one.
PageOrFirst(p) ==
  p.to = "browser" => /\ "SYN" \in p.flags => p.len = 0 /\ IsFirst(p.seq)
                      /\ p.len > 0 => p.ack = 1 + RequestLength
FirstsInv ==
  /\ \E m \in Nat : seqnum = 10 + 3 * m
  /\ \A c \in Connections : Opened(conn[c]) => \E n : IsFirst(n) /\ conn[c].next = n + 1
  /\ \A p \in net : PageOrFirst(p)

\* What the box sends.
Sent(q) ==
  /\ DOMAIN q = SegmentFields /\ Typed(q) /\ q.to = "browser"
  /\ \/ q.flags = {"SYN", "ACK"} /\ q.seq = seqnum * 256 /\ q.len = 0
     \/ "SYN" \notin q.flags /\ (q.len > 0 => q.ack = 1 + RequestLength)

LEMMA SynAckIsSent ==
  ASSUME IInv, TypesInv, NEW p \in net, p.to = "box", "SYN" \in p.flags
  PROVE  Sent(make_tcp_synack_from_syn(p))
<1> DEFINE h == make_tcphead(p, 1, FALSE)
           q == make_tcp_synack_from_syn(p)
<1>1. DOMAIN p = SegmentFields /\ p.conn \in Connections /\ p.seq = 0
  BY DEF IInv, NetInv, Fits, Asks
<1>2. DOMAIN h = SegmentFields /\ h.to = "browser" /\ h.conn = p.conn /\ h.ack = p.seq + 1 /\ h.len = 0
  <2>1. ASSUME NEW cp \in BOOLEAN
        PROVE  LET g == make_tcphead(p, 1, cp)
               IN  DOMAIN g = SegmentFields /\ g.to = "browser" /\ g.conn = p.conn
                   /\ g.ack = p.seq + 1 /\ g.len = 0
    BY <1>1, HeadFields
  <2> QED
    BY <2>1
<1> HIDE DEF h
<1>3. q = [h EXCEPT !.flags = {"SYN", "ACK"}, !.seq = seqnum * 256]
  BY DEF h, make_tcp_synack_from_syn
<1>4. /\ DOMAIN q = SegmentFields /\ q.to = "browser" /\ q.conn = p.conn /\ q.ack = 1
      /\ q.flags = {"SYN", "ACK"} /\ q.len = 0
  BY <1>1, <1>2, <1>3 DEF SegmentFields
<1>5. q.seq = seqnum * 256
  BY <1>2, <1>3 DEF SegmentFields
<1>6. seqnum * 256 \in Nat
  BY DEF TypesInv
<1> HIDE DEF q
<1>7. Typed(q)
  <2>1. q.flags \in AllFlags
    BY <1>4 DEF AllFlags
  <2> QED
    BY <1>1, <1>4, <1>5, <1>6, <2>1 DEF Typed, LongestPage
<1>8. Sent(q)
  BY <1>4, <1>5, <1>7 DEF Sent
<1> QED
  BY <1>8 DEF q

LEMMA FinAnswerIsSent ==
  ASSUME IInv, TypesInv, NEW p \in net, HandleFin(p), p.to = "box"
  PROVE  Sent(make_tcp_ack_from_any(p, 0, {}))
<1> DEFINE q == make_tcp_ack_from_any(p, 0, {})
<1>1. DOMAIN p = SegmentFields /\ p.conn \in Connections /\ p.seq \in Nat /\ p.ack \in Nat
  BY DEF IInv, NetInv, Fits, TypesInv, Typed
<1>2. /\ DOMAIN q = SegmentFields /\ q.to = "browser" /\ q.conn = p.conn /\ q.flags = {"ACK"}
      /\ q.seq = p.ack /\ q.ack = p.seq + 1 /\ q.len = 0
  BY <1>1, AckFields DEF Acknowledges
<1> HIDE DEF q
<1>3. q.flags \in AllFlags /\ "SYN" \notin q.flags
  BY <1>2 DEF AllFlags
<1>4. Sent(q)
  BY <1>1, <1>2, <1>3 DEF Sent, Typed, LongestPage
<1> QED
  BY <1>4 DEF q

LEMMA PageIsSent ==
  ASSUME IInv, TypesInv, NEW p \in net, p.to = "box", p.len > 0, NEW body,
         NEW dlen \in Nat, dlen <= LongestPage, NEW q \in www_server_reply(p, body, dlen)
  PROVE  Sent(q)
<1>1. /\ DOMAIN p = SegmentFields /\ p.conn \in Connections
      /\ p.seq = 1 /\ p.ack \in Nat /\ p.len = RequestLength
  BY DEF IInv, NetInv, Fits, Asks, TypesInv, Typed
<1> DEFINE a == make_tcp_ack_from_any(p, p.len, {})
           b == [a EXCEPT !.flags = {"ACK", "PSH", "FIN"}]
<1>2. p.len \in Nat /\ p.len # 0
  BY <1>1 DEF RequestLength
<1>3. /\ DOMAIN a = SegmentFields /\ a.to = "browser" /\ a.conn = p.conn /\ a.flags = {"ACK"}
      /\ a.seq = p.ack /\ a.ack = p.seq + p.len /\ a.len = 0
  <2> DEFINE n == p.len
  <2>1. n \in Nat /\ n # 0
    BY <1>2
  <2> HIDE DEF n
  <2>2. Acknowledges(make_tcp_ack_from_any(p, n, {}), p, IF n = 0 THEN 1 ELSE n)
    BY <1>1, <2>1, AckFields
  <2> QED
    BY <2>1, <2>2 DEF n, Acknowledges
<1>4. q = a \/ q = [b EXCEPT !.body = body, !.len = dlen]
  BY DEF www_server_reply, make_tcp_ack_with_data_noflags
<1> HIDE DEF a
<1>5. a.ack = 1 + RequestLength /\ 1 + RequestLength \in Nat
  BY <1>1, <1>3 DEF RequestLength
<1>6. /\ DOMAIN b = SegmentFields /\ b.to = "browser" /\ b.conn = p.conn
      /\ b.flags = {"ACK", "PSH", "FIN"} /\ b.seq = p.ack /\ b.ack = 1 + RequestLength
  BY <1>3, <1>5 DEF SegmentFields
<1> HIDE DEF b
<1>7. /\ DOMAIN q = SegmentFields /\ q.to = "browser" /\ q.conn = p.conn
      /\ q.flags \in {{"ACK"}, {"ACK", "PSH", "FIN"}}
      /\ q.seq = p.ack /\ q.ack = 1 + RequestLength /\ q.len \in {0, dlen}
  <2>1. CASE q = a
    BY <2>1, <1>3, <1>5
  <2>2. CASE q = [b EXCEPT !.body = body, !.len = dlen]
    <3>1. /\ DOMAIN q = SegmentFields /\ q.to = "browser" /\ q.conn = p.conn
          /\ q.flags = {"ACK", "PSH", "FIN"} /\ q.seq = p.ack /\ q.ack = 1 + RequestLength
      BY <2>2, <1>6 DEF SegmentFields
    <3>2. q.len = dlen
      BY <2>2, <1>6 DEF SegmentFields
    <3> QED
      BY <3>1, <3>2
  <2> QED
    BY <1>4, <2>1, <2>2
<1>8. q.flags \in AllFlags /\ "SYN" \notin q.flags
  BY <1>7 DEF AllFlags
<1>9. q.len \in Nat /\ q.len <= LongestPage
  BY <1>7 DEF LongestPage
<1>10. Typed(q)
  BY <1>1, <1>5, <1>7, <1>8, <1>9 DEF Typed
<1> QED
  BY <1>7, <1>8, <1>10 DEF Sent

LEMMA WhatTheBoxSends ==
  ASSUME IInv, TypesInv, NEW p \in net, BoxGets(p), NEW q \in net'
  PROVE  q \in net \/ Sent(q)
<1>1. p.to = "box"
  BY DEF BoxGets
<1>2. CASE HandleSyn(p)
  BY <1>1, <1>2, SynAckIsSent DEF HandleSyn
<1>3. CASE HandleFin(p)
  BY <1>1, <1>3, FinAnswerIsSent DEF HandleFin
<1>4. CASE HandleGet(p) \/ HandleRestart(p)
  <2>1. p.len > 0
    BY <1>4 DEF HandleGet, HandleRestart
  <2>2. \/ net' = net
        \/ \E kind, sid : Reply(p, kind, sid)
    BY <1>4 DEF HandleGet, HandleRestart, Index, Favicon, Login, LoginPage, WrongSession, Info,
                Exit, Reboot, NoAnswer
  <2>3. ASSUME NEW kind, NEW sid, Reply(p, kind, sid), q \notin net PROVE Sent(q)
    <3>1. q \in www_server_reply(p, [kind |-> kind, sid |-> sid], Page(kind))
      BY <2>3 DEF Reply
    <3> DEFINE body == [kind |-> kind, sid |-> sid]
               dlen == Page(kind)
    <3>2. dlen \in Nat /\ dlen <= LongestPage
      BY PagesAreShort
    <3>3. q \in www_server_reply(p, body, dlen)
      BY <3>1
    <3> HIDE DEF body, dlen
    <3> QED
      BY <1>1, <2>1, <3>2, <3>3, PageIsSent
  <2> QED
    BY <2>2, <2>3
<1> QED
  BY <1>2, <1>3, <1>4 DEF BoxGets

LEMMA NotYetOpenIsTyped ==
  ASSUME NEW c, NEW k, k.st = "closed" \/ k.st = "syn", k.req.kind \in Kinds[c] \cup {"none"},
         k.next = 0, k.end = 0, k.acked = FALSE
  PROVE  ConnTyped(c, k) /\ ~Opened(k)
<1>1. k.st \in {"closed", "syn", "asked", "shown"} /\ k.st \notin {"asked", "shown"}
  OBVIOUS
<1>2. k.next \in Nat /\ k.end \in Nat
  OBVIOUS
<1>3. k.acked \in BOOLEAN
  BY Zenon
<1>4. k.req.kind \in Kinds[c] \cup {"none"}
  OBVIOUS
<1> QED
  BY <1>1, <1>2, <1>3, <1>4, Zenon DEF ConnTyped, Opened

LEMMA InitNumbersOfTheBox == Init => TypesInv /\ FirstsInv
<1> SUFFICES ASSUME Init PROVE TypesInv /\ FirstsInv
  OBVIOUS
<1>1. /\ Closed.st = "closed" /\ Closed.req.kind = "none" /\ Closed.next = 0 /\ Closed.end = 0
      /\ Closed.acked = FALSE
  BY DEF Closed, NoRequest
<1>2. seqnum = 10 /\ net = {} /\ \A c \in Connections : conn[c] = Closed
  BY DEF Init
<1>3. ASSUME NEW c \in Connections PROVE ConnTyped(c, conn[c]) /\ ~Opened(conn[c])
  <2> DEFINE k == Closed
  <2>1. /\ k.st = "closed" \/ k.st = "syn"
        /\ k.next = 0 /\ k.end = 0 /\ k.acked = FALSE
    BY <1>1
  <2>2. k.req.kind \in Kinds[c] \cup {"none"}
    BY <1>1
  <2> HIDE DEF k
  <2>3. ConnTyped(c, k) /\ ~Opened(k)
    BY <2>1, <2>2, NotYetOpenIsTyped
  <2>4. conn[c] = k
    BY <1>2 DEF k
  <2> QED
    BY <2>3, <2>4
<1>4. 10 = 10 + 3 * 0 /\ 0 \in Nat
  OBVIOUS
<1>5. TypesInv
  BY <1>2, <1>3 DEF TypesInv
<1>6. \E m \in Nat : seqnum = 10 + 3 * m
  BY <1>2, <1>4
<1> QED
  BY <1>2, <1>3, <1>5, <1>6 DEF FirstsInv

\* What the box does to its number and to the browsers.
NumberMoves ==
  \/ seqnum' = seqnum \/ seqnum' = 10
  \/ seqnum' = (seqnum + 3) % 256 /\ seqnum < 10 + 3 * MaxSyns
LEMMA BoxMoves ==
  ASSUME NEW p \in net, BoxGets(p)
  PROVE  conn' = conn /\ NumberMoves
<1>1. conn' = conn
  BY DEF BoxGets
<1>2. CASE HandleSyn(p)
  BY <1>1, <1>2 DEF HandleSyn, NumberMoves
<1>3. CASE HandleFin(p)
  BY <1>1, <1>3 DEF HandleFin, SameBox, box, NumberMoves
<1>4. CASE HandleGet(p)
  <2>1. CASE Index(p) \/ Favicon(p) \/ LoginPage(p) \/ WrongSession(p) \/ Info(p) \/ NoAnswer(p)
    BY <1>1, <2>1 DEF Index, Favicon, LoginPage, WrongSession, Info, NoAnswer, SameBox, box, NumberMoves
  <2>2. CASE Login(p) \/ Exit(p)
    BY <1>1, <2>2 DEF Login, Exit, NumberMoves
  <2> QED
    BY <1>4, <2>1, <2>2 DEF HandleGet
<1>5. CASE HandleRestart(p)
  BY <1>1, <1>5 DEF HandleRestart, Reboot, Started, NumberMoves
<1> QED
  BY <1>2, <1>3, <1>4, <1>5 DEF BoxGets

\* What a browser does: its connection becomes l, and it may send m.
Becomes(c, l) ==
  /\ DOMAIN l = ConnFields /\ ConnTyped(c, l)
  /\ conn' = [conn EXCEPT ![c] = l]
  /\ Opened(l) => \/ Opened(conn[c]) /\ l.next = conn[c].next
                  \/ \E p \in net : /\ p.to = "browser" /\ "SYN" \in p.flags
                                    /\ l.next = p.seq + 1
Sends(c) ==
  \/ net' = net
  \/ \E m : net' = net \cup {m} /\ Typed(m) /\ m.to = "box"

LEMMA RequestIsTyped ==
  ASSUME NEW c \in Connections, NEW m, NEW flags \in AllFlags, NEW seq \in Nat, NEW ack \in Nat,
         NEW len \in Nat, len <= LongestPage, NEW body,
         m = Segment("box", c, flags, seq, ack, len, body)
  PROVE  Typed(m) /\ m.to = "box"
BY DEF Segment, Typed

LEMMA BrowserMoves ==
  ASSUME IInv, TypesInv, NEW c \in Connections,
         (\E req \in Requests(c) : Connect(c, req)) \/ BrowserGets(c)
  PROVE  (\E l : Becomes(c, l)) /\ Sends(c)
<1> DEFINE k == conn[c]
<1>1. DOMAIN k = ConnFields /\ DOMAIN conn = Connections /\ ConnTyped(c, k)
  BY DEF IInv, ConnInv, TypesInv
<1>2. \A p \in net : p.seq \in Nat /\ p.len \in Nat
  BY DEF TypesInv, Typed
<1>3. /\ {"SYN"} \in AllFlags /\ {"ACK", "PSH"} \in AllFlags /\ {"ACK", "FIN"} \in AllFlags
      /\ 0 \in Nat /\ 1 \in Nat /\ 0 <= LongestPage
      /\ RequestLength \in Nat /\ RequestLength <= LongestPage /\ 1 + RequestLength \in Nat
  BY DEF AllFlags, RequestLength, LongestPage
<1>4. ASSUME NEW req \in Requests(c), Connect(c, req) PROVE (\E l : Becomes(c, l)) /\ Sends(c)
  <2> DEFINE l == [Closed EXCEPT !.st = "syn", !.req = req]
             m == Syn(c, req)
  <2>1. req.kind \in Kinds[c]
    BY DEF Requests
  <2>2. /\ DOMAIN l = ConnFields /\ l.st = "syn" /\ l.req = req /\ l.next = 0 /\ l.end = 0
        /\ l.acked = FALSE
    BY DEF Closed, ConnFields
  <2>3. conn' = [conn EXCEPT ![c] = l] /\ net' = net \cup {m}
    BY <1>4 DEF Connect
  <2>4. Typed(m) /\ m.to = "box"
    <3> DEFINE flags == {"SYN"}
               z == 0
    <3>1. m = Segment("box", c, flags, z, z, z, req) /\ flags \in AllFlags /\ z \in Nat /\ z <= LongestPage
      BY <1>3 DEF Syn
    <3> HIDE DEF m, flags, z
    <3> QED
      BY <3>1, RequestIsTyped
  <2> HIDE DEF l, m
  <2>5. ConnTyped(c, l) /\ ~Opened(l)
    <3>1. l.req.kind \in Kinds[c] \cup {"none"} /\ (l.st = "closed" \/ l.st = "syn")
      BY <2>1, <2>2
    <3> QED
      BY <2>2, <3>1, NotYetOpenIsTyped
  <2> QED
    BY <2>2, <2>3, <2>4, <2>5 DEF Becomes, Sends
<1>5. ASSUME NEW p \in net, p.to = "browser", TakeSynAck(c, p)
      PROVE  (\E l : Becomes(c, l)) /\ Sends(c)
  <2> DEFINE l == [k EXCEPT !.st = "asked", !.next = p.seq + 1]
             m == Get(c, k.req, p.seq + 1)
  <2>1. /\ DOMAIN l = ConnFields /\ l.st = "asked" /\ l.req = k.req /\ l.end = k.end
        /\ l.acked = k.acked
    BY <1>1 DEF ConnFields
  <2>2. l.next = p.seq + 1
    BY <1>1 DEF ConnFields
  <2>3. conn' = [conn EXCEPT ![c] = l] /\ net' = net \cup {m} /\ "SYN" \in p.flags
    BY <1>5, <1>1 DEF TakeSynAck
  <2>4. p.seq + 1 \in Nat
    BY <1>2
  <2>5. Typed(m) /\ m.to = "box"
    <3> DEFINE flags == {"ACK", "PSH"}
               one == 1
               ack == p.seq + 1
               req == k.req
    <3>1. m = Segment("box", c, flags, one, ack, RequestLength, req)
          /\ flags \in AllFlags /\ one \in Nat /\ ack \in Nat
      BY <1>3, <2>4 DEF Get
    <3> HIDE DEF m, flags, one, ack, req
    <3> QED
      BY <1>3, <3>1, RequestIsTyped
  <2> HIDE DEF l, m
  <2>6. ConnTyped(c, l)
    BY <1>1, <2>1, <2>2, <2>4 DEF ConnTyped
  <2> QED
    BY <1>5, <2>1, <2>2, <2>3, <2>5, <2>6 DEF Becomes, Sends
<1>6. ASSUME NEW p \in net, TakeAck(c, p) PROVE (\E l : Becomes(c, l)) /\ Sends(c)
  <2> DEFINE l == [k EXCEPT !.acked = TRUE]
  <2>1. /\ DOMAIN l = ConnFields /\ l.st = k.st /\ l.req = k.req /\ l.next = k.next /\ l.end = k.end
    BY <1>1 DEF ConnFields
  <2>2. l.acked = TRUE
    BY <1>1 DEF ConnFields
  <2>3. conn' = [conn EXCEPT ![c] = l] /\ net' = net
    BY <1>6 DEF TakeAck
  <2> HIDE DEF l
  <2>4. ConnTyped(c, l)
    BY <1>1, <2>1, <2>2 DEF ConnTyped
  <2> QED
    BY <2>1, <2>3, <2>4 DEF Becomes, Sends, Opened
<1>7. ASSUME NEW p \in net, TakePage(c, p) PROVE (\E l : Becomes(c, l)) /\ Sends(c)
  <2> DEFINE l == [k EXCEPT !.st = "shown", !.acked = TRUE, !.end = p.seq + p.len + 1]
             m == Fin(c, k.req, p.seq + p.len + 1)
  <2>1. /\ DOMAIN l = ConnFields /\ l.st = "shown" /\ l.req = k.req /\ l.next = k.next
    BY <1>1 DEF ConnFields
  <2>2. l.acked = TRUE /\ l.end = p.seq + p.len + 1
    BY <1>1 DEF ConnFields
  <2>3. conn' = [conn EXCEPT ![c] = l] /\ net' = net \cup {m} /\ Opened(k)
    BY <1>7, <1>1 DEF TakePage, Opened
  <2>4. p.seq + p.len + 1 \in Nat
    BY <1>2
  <2>5. Typed(m) /\ m.to = "box"
    <3> DEFINE flags == {"ACK", "FIN"}
               seq == 1 + RequestLength
               ack == p.seq + p.len + 1
               z == 0
               req == k.req
    <3>1. m = Segment("box", c, flags, seq, ack, z, req)
          /\ flags \in AllFlags /\ seq \in Nat /\ ack \in Nat /\ z \in Nat /\ z <= LongestPage
      BY <1>3, <2>4 DEF Fin
    <3> HIDE DEF m, flags, seq, ack, z, req
    <3> QED
      BY <3>1, RequestIsTyped
  <2> HIDE DEF l, m
  <2>6. ConnTyped(c, l)
    BY <1>1, <2>1, <2>2, <2>4 DEF ConnTyped
  <2> QED
    BY <2>1, <2>3, <2>5, <2>6 DEF Becomes, Sends
<1> QED
  BY <1>4, <1>5, <1>6, <1>7 DEF BrowserGets

\* Every step is the box's, a browser's, or neither's.
LEMMA WhoMoves ==
  ASSUME [Next]_vars
  PROVE  \/ \E p \in net : BoxGets(p)
         \/ \E c \in Connections :
              /\ (\E req \in Requests(c) : Connect(c, req)) \/ BrowserGets(c)
              /\ seqnum' = seqnum
         \/ conn' = conn /\ net' \subseteq net /\ NumberMoves
<1>1. CASE \E c \in Connections : (\E req \in Requests(c) : Connect(c, req)) /\ Plain /\ UNCHANGED box
  BY <1>1 DEF box
<1>2. CASE \E c \in Connections : BrowserGets(c)
  BY <1>2 DEF BrowserGets, box
<1>3. CASE \E p \in net : Lose(p)
  BY <1>3 DEF Lose, box, NumberMoves
<1>4. CASE \E data \in EchoData : Ping(data)
  BY <1>4 DEF Ping, box, NumberMoves
<1>5. CASE PowerCut \/ ClientSyn
  BY <1>5 DEF PowerCut, ClientSyn, Started, NumberMoves
<1>6. CASE UNCHANGED vars
  BY <1>6 DEF vars, box, NumberMoves
<1> QED
  BY <1>1, <1>2, <1>3, <1>4, <1>5, <1>6 DEF Next

\* The number stays a byte,
LEMMA NumberIsAByte == TypesInv /\ NumberMoves => seqnum' \in Nat /\ seqnum' < 256
<1> SUFFICES ASSUME TypesInv, NumberMoves PROVE seqnum' \in Nat /\ seqnum' < 256
  OBVIOUS
<1>1. seqnum \in Nat /\ seqnum < 256
  BY DEF TypesInv
<1> DEFINE next == (seqnum + 3) % 256
<1>2. next \in Nat /\ next < 256
  BY <1>1
<1>3. seqnum' \in {seqnum, 10, next}
  BY DEF NumberMoves
<1>4. 10 \in Nat /\ 10 < 256
  OBVIOUS
<1> HIDE DEF next
<1> QED
  BY <1>1, <1>2, <1>3, <1>4

\* and, before the byte turns over, ten and a multiple of three further.
LEMMA NumberIsAFirst ==
  ASSUME MaxSyns \in Nat, MaxSyns <= 81, NumberMoves, \E i \in Nat : seqnum = 10 + 3 * i
  PROVE  \E i \in Nat : seqnum' = 10 + 3 * i
<1>0. PICK m \in Nat : seqnum = 10 + 3 * m
  OBVIOUS
<1>1. CASE seqnum' = seqnum
  BY <1>0, <1>1
<1>2. CASE seqnum' = 10
  <2>1. 10 = 10 + 3 * 0 /\ 0 \in Nat
    OBVIOUS
  <2> QED
    BY <1>2, <2>1
<1>3. CASE seqnum' = (seqnum + 3) % 256 /\ seqnum < 10 + 3 * MaxSyns
  <2> DEFINE next == (seqnum + 3) % 256
  <2>1. 10 + 3 * m < 10 + 3 * MaxSyns
    BY <1>0, <1>3
  <2>2. m < MaxSyns
    BY <2>1
  <2>3. m + 1 \in Nat /\ seqnum + 3 = 10 + 3 * (m + 1) /\ seqnum + 3 < 256
    BY <1>0, <2>2
  <2>4. next = 10 + 3 * (m + 1)
    BY <2>3
  <2>5. seqnum' = next
    BY <1>3
  <2> HIDE DEF next
  <2> QED
    BY <2>3, <2>4, <2>5
<1> QED
  BY <1>1, <1>2, <1>3 DEF NumberMoves

LEMMA NextKeepsTypes == IInv /\ TypesInv /\ [Next]_vars => TypesInv'
<1> SUFFICES ASSUME IInv, TypesInv, [Next]_vars PROVE TypesInv'
  OBVIOUS
<1>1. CASE \E p \in net : BoxGets(p)
  <2>1. PICK p \in net : BoxGets(p)
    BY <1>1
  <2>2. conn' = conn
    BY <2>1, BoxMoves
  <2>3. seqnum' \in Nat /\ seqnum' < 256
    BY <2>1, BoxMoves, NumberIsAByte
  <2>4. ASSUME NEW q \in net' PROVE Typed(q)
    <3>1. q \in net \/ Sent(q)
      BY <2>1, WhatTheBoxSends
    <3> QED
      BY <3>1 DEF Sent, TypesInv
  <2> QED
    BY <2>2, <2>3, <2>4 DEF TypesInv
<1>2. CASE \E c \in Connections :
             /\ (\E req \in Requests(c) : Connect(c, req)) \/ BrowserGets(c)
             /\ seqnum' = seqnum
  <2>1. PICK c \in Connections :
             /\ (\E req \in Requests(c) : Connect(c, req)) \/ BrowserGets(c)
             /\ seqnum' = seqnum
    BY <1>2
  <2>2. (\E l : Becomes(c, l)) /\ Sends(c)
    BY <2>1, BrowserMoves
  <2>3. PICK l : Becomes(c, l)
    BY <2>2
  <2>4. ASSUME NEW d \in Connections PROVE ConnTyped(d, conn'[d])
    <3>1. DOMAIN conn = Connections /\ ConnTyped(d, conn[d])
      BY DEF IInv, ConnInv, TypesInv
    <3>2. conn'[d] = IF d = c THEN l ELSE conn[d]
      BY <2>3, <3>1 DEF Becomes
    <3> QED
      BY <2>3, <3>1, <3>2 DEF Becomes
  <2>5. ASSUME NEW q \in net' PROVE Typed(q)
    BY <2>2, <2>5 DEF Sends, TypesInv
  <2>6. seqnum' \in Nat /\ seqnum' < 256
    BY <2>1 DEF TypesInv
  <2> QED
    BY <2>4, <2>5, <2>6 DEF TypesInv
<1>3. CASE conn' = conn /\ net' \subseteq net /\ NumberMoves
  BY <1>3, NumberIsAByte DEF TypesInv
<1> QED
  BY <1>1, <1>2, <1>3, WhoMoves

\* Before the byte turns over, a first number is ten and a multiple of three further.
LEMMA NextKeepsFirsts ==
  ASSUME MaxSyns \in Nat, MaxSyns <= 81
  PROVE  IInv /\ TypesInv /\ FirstsInv /\ [Next]_vars => FirstsInv'
<1> SUFFICES ASSUME IInv, TypesInv, FirstsInv, [Next]_vars PROVE FirstsInv'
  OBVIOUS
<1>0. PICK m \in Nat : seqnum = 10 + 3 * m
  BY DEF FirstsInv
<1>1. CASE \E p \in net : BoxGets(p)
  <2>1. PICK p \in net : BoxGets(p)
    BY <1>1
  <2>2. conn' = conn
    BY <2>1, BoxMoves
  <2>3. \E i \in Nat : seqnum' = 10 + 3 * i
    <3>1. NumberMoves
      BY <2>1, BoxMoves
    <3> QED
      BY <1>0, <3>1, NumberIsAFirst
  <2>4. ASSUME NEW q \in net' PROVE PageOrFirst(q)
    <3>1. CASE q \in net
      BY <3>1 DEF FirstsInv
    <3>2. CASE Sent(q)
      <4>1. CASE q.flags = {"SYN", "ACK"} /\ q.seq = seqnum * 256 /\ q.len = 0
        <5>1. IsFirst(q.seq)
          BY <1>0, <4>1 DEF IsFirst
        <5> QED
          BY <4>1, <5>1 DEF PageOrFirst
      <4>2. CASE "SYN" \notin q.flags /\ (q.len > 0 => q.ack = 1 + RequestLength)
        BY <4>2 DEF PageOrFirst
      <4> QED
        BY <3>2, <4>1, <4>2 DEF Sent
    <3> QED
      BY <2>1, <3>1, <3>2, WhatTheBoxSends
  <2> QED
    BY <2>2, <2>3, <2>4 DEF FirstsInv
<1>2. CASE \E c \in Connections :
             /\ (\E req \in Requests(c) : Connect(c, req)) \/ BrowserGets(c)
             /\ seqnum' = seqnum
  <2>1. PICK c \in Connections :
             /\ (\E req \in Requests(c) : Connect(c, req)) \/ BrowserGets(c)
             /\ seqnum' = seqnum
    BY <1>2
  <2>2. (\E l : Becomes(c, l)) /\ Sends(c)
    BY <2>1, BrowserMoves
  <2>3. PICK l : Becomes(c, l)
    BY <2>2
  <2>4. ASSUME NEW d \in Connections, Opened(conn'[d])
        PROVE  \E n : IsFirst(n) /\ conn'[d].next = n + 1
    <3>1. DOMAIN conn = Connections
      BY DEF IInv, ConnInv
    <3>2. conn'[d] = IF d = c THEN l ELSE conn[d]
      BY <2>3, <3>1 DEF Becomes
    <3>3. ASSUME Opened(l) PROVE \E n : IsFirst(n) /\ l.next = n + 1
      <4>1. CASE Opened(conn[c]) /\ l.next = conn[c].next
        BY <4>1 DEF FirstsInv
      <4>2. CASE \E p \in net : p.to = "browser" /\ "SYN" \in p.flags /\ l.next = p.seq + 1
        <5>1. PICK p \in net : p.to = "browser" /\ "SYN" \in p.flags /\ l.next = p.seq + 1
          BY <4>2
        <5>2. IsFirst(p.seq)
          BY <5>1 DEF FirstsInv, PageOrFirst
        <5> QED
          BY <5>1, <5>2
      <4> QED
        BY <2>3, <3>3, <4>1, <4>2 DEF Becomes
    <3>4. ASSUME Opened(conn[d]) PROVE \E n : IsFirst(n) /\ conn[d].next = n + 1
      BY <3>4 DEF FirstsInv
    <3> QED
      BY <2>4, <3>2, <3>3, <3>4
  <2>5. ASSUME NEW q \in net' PROVE PageOrFirst(q)
    BY <2>2, <2>5 DEF Sends, FirstsInv, PageOrFirst
  <2>6. \E i \in Nat : seqnum' = 10 + 3 * i
    BY <1>0, <2>1
  <2> QED
    BY <2>4, <2>5, <2>6 DEF FirstsInv
<1>3. CASE conn' = conn /\ net' \subseteq net /\ NumberMoves
  <2>1. \E i \in Nat : seqnum' = 10 + 3 * i
    BY <1>0, <1>3, NumberIsAFirst
  <2> QED
    BY <1>3, <2>1 DEF FirstsInv
<1> QED
  BY <1>1, <1>2, <1>3, WhoMoves

LEMMA FirstsDoNotOverlap == IInv /\ TypesInv /\ FirstsInv => NumbersDoNotOverlap
<1> SUFFICES ASSUME IInv, TypesInv, FirstsInv, NEW page \in net, NEW synack \in net,
                    page.to = "browser", page.len > 0,
                    synack.flags = {"SYN", "ACK"}, synack.seq >= page.seq
             PROVE  synack.seq > page.seq + page.len
  BY DEF NumbersDoNotOverlap
<1>1. synack.to = "browser"
  <2>1. Fits(synack)
    BY DEF IInv, NetInv
  <2> QED
    BY <2>1 DEF Fits, Asks
<1>2. PICK b \in Nat : synack.seq = (10 + 3 * b) * 256
  BY <1>1 DEF FirstsInv, PageOrFirst, IsFirst
<1>3. page.len \in Nat /\ page.len <= LongestPage
  BY DEF TypesInv, Typed
<1>4. page.ack = 1 + RequestLength /\ page.conn \in Connections /\ "SYN" \notin page.flags
  <2>1. page.conn \in Connections
    BY DEF TypesInv, Typed
  <2>2. "SYN" \in page.flags => page.len = 0
    BY DEF FirstsInv, PageOrFirst
  <2>3. page.ack = 1 + RequestLength
    BY DEF FirstsInv, PageOrFirst
  <2> QED
    BY <1>3, <2>1, <2>2, <2>3
<1>5. Opened(conn[page.conn]) /\ page.seq = conn[page.conn].next
  <2>1. Answers(page, conn[page.conn])
    BY DEF IInv, NetInv, Fits
  <2>2. 1 + RequestLength # 2 + RequestLength
    BY DEF RequestLength
  <2> QED
    BY <1>4, <2>1, <2>2 DEF Answers
<1>6. PICK a \in Nat : page.seq = (10 + 3 * a) * 256 + 1
  BY <1>4, <1>5 DEF FirstsInv, IsFirst
<1>7. (10 + 3 * b) * 256 >= (10 + 3 * a) * 256 + 1
  BY <1>2, <1>6
<1>8. b >= a + 1
  BY <1>7
<1> QED
  BY <1>2, <1>3, <1>6, <1>8 DEF LongestPage

\* No first number lies among those of a page that may still be on its way, whatever is
\* lost, repeated or restarted, as long as no more than 81 SYNs are answered or sent between
\* two starts; then the byte turns over, and 256 is no multiple of three
\* (ip_arp_udp_tcp.c:604-614).
THEOREM FirstNumbersKeepClear ==
  ASSUME MaxSyns \in Nat, MaxSyns <= 81
  PROVE  Spec => []NumbersDoNotOverlap
<1>1. IInv /\ TypesInv /\ FirstsInv /\ [Next]_vars => IInv' /\ TypesInv' /\ FirstsInv'
  BY NextKeepsNumbers, NextKeepsTypes, NextKeepsFirsts
<1>2. Init => IInv /\ TypesInv /\ FirstsInv
  BY InitNumbers, InitNumbersOfTheBox
<1> QED
  BY <1>1, <1>2, FirstsDoNotOverlap, PTL DEF Spec

-------------------------------------------------------------------------------
(* Types. *)

BoxTypes == sessionid \in {NoSession} \cup {SessionAt(time) : time \in Times}

LEMMA NextKeepsBoxTypes == BoxTypes /\ [Next]_vars => BoxTypes'
<1> SUFFICES ASSUME BoxTypes, [Next]_vars PROVE BoxTypes'
  OBVIOUS
<1>1. ASSUME UNCHANGED sessionid PROVE BoxTypes'
  BY <1>1 DEF BoxTypes
<1>2. ASSUME sessionid' = NoSession PROVE BoxTypes'
  BY <1>2 DEF BoxTypes
<1>3. ASSUME NEW p \in net, Login(p) PROVE BoxTypes'
  BY <1>3 DEF Login, BoxTypes
<1>4. ASSUME NEW p \in net, BoxGets(p) PROVE BoxTypes'
  <2>1. CASE HandleSyn(p) \/ HandleFin(p)
    BY <1>1, <2>1 DEF HandleSyn, HandleFin, SameBox, box
  <2>2. CASE Index(p) \/ Favicon(p) \/ LoginPage(p) \/ WrongSession(p) \/ Info(p) \/ NoAnswer(p)
    BY <1>1, <2>2 DEF Index, Favicon, LoginPage, WrongSession, Info, NoAnswer, SameBox, box
  <2>3. CASE Exit(p) \/ HandleRestart(p)
    BY <1>2, <2>3 DEF Exit, HandleRestart, Reboot, Started
  <2> QED
    BY <1>3, <1>4, <2>1, <2>2, <2>3 DEF BoxGets, HandleGet
<1>5. \/ \E p \in net : BoxGets(p)
      \/ PowerCut
      \/ UNCHANGED sessionid
  BY DEF Next, vars, BrowserGets, Lose, Ping, ClientSyn, box
<1> QED
  BY <1>1, <1>2, <1>4, <1>5 DEF PowerCut, Started

LEMMA TypesAreTypes ==
  ASSUME BUFFER_SIZE >= 700
  PROVE  SessionInv /\ TypesInv /\ BoxTypes => TypeOK
<1> SUFFICES ASSUME SessionInv, TypesInv, BoxTypes PROVE TypeOK
  OBVIOUS
<1>1. seqnum \in 0..255
  BY DEF TypesInv
<1>2. \A p \in net : p.len \in 0..RoomForText
  BY BufferAssumption DEF TypesInv, Typed, RoomForText, LongestPage
<1>3. sessionid # NoSession => login = {my_itoa_long(sessionid)}
  BY DEF SessionInv
<1> QED
  BY <1>1, <1>2, <1>3 DEF TypeOK, TypesInv, Typed, ConnTyped, BoxTypes

\* With a buffer of the size that the box has, types: the box's number is a byte, a session
\* is the one of the last login, a page fits behind the headers.
THEOREM WebTypesAreKept == ASSUME BUFFER_SIZE >= 700 PROVE Spec => []TypeOK
<1>1. /\ IInv /\ TypesInv /\ SessionInv /\ BoxTypes /\ [Next]_vars
         => IInv' /\ TypesInv' /\ SessionInv' /\ BoxTypes'
  BY NextKeepsNumbers, NextKeepsTypes, NextKeepsSession, NextKeepsBoxTypes
<1>2. Init => BoxTypes /\ SessionInv
  BY DEF Init, BoxTypes, SessionInv
<1>3. Init => IInv /\ TypesInv /\ SessionInv /\ BoxTypes
  BY <1>2, InitNumbers, InitNumbersOfTheBox
<1> QED
  BY <1>1, <1>3, TypesAreTypes, PTL DEF Spec
===============================================================================
