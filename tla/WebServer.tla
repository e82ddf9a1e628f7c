-------------------------------- MODULE WebServer -----------------------------
(***************************************************************************)
(* The web server of the packet loop (ip_arp_udp_tcp.c) and the session of *)
(* process_http_server() (protocol.c), with browsers on a network that     *)
(* loses, repeats, delays and reorders segments.  The box keeps nothing of *)
(* a connection: what it sends is made from the segment it answers.  What  *)
(* browsers send is in the network for good, as they send it again; the    *)
(* sequence numbers of a browser begin at 0.                               *)
(***************************************************************************)
EXTENDS WebPages, Integers, SequencesExt

CONSTANTS
  Connections,
  Kinds,          \* the requests each of them may make; "lost" names no page
  Times,          \* what Time_ms may be at a login: it counts ticks of 10 ms since the start
  EarlierTimes,   \*   and what it was at logins before the first start
  EchoData,       \* the words of the pings that arrive
  MaxSyns         \* bound: SYNs answered and sent between two starts

\* A number of 32 bits is two words, the high one first.
Word(w) == w \in Nat /\ w < 65536
ASSUME TimesAssumption ==
  \A time \in Times \cup EarlierTimes : DOMAIN time = {1, 2} /\ Word(time[1]) /\ Word(time[2])
ASSUME EchoAssumption == \A data \in EchoData : Word(data)

NoSession == <<0, 0>>

VARIABLES
  \* The box; all of it is RAM.
  seqnum, sessionid,
  \* Browsers: each connection's state ("closed", "syn", "asked", "shown"),
  \* its request, the sequence number it expects, the one behind the page, and
  \* whether its request was acknowledged; and the sessions that were shown.
  conn, known,
  net,
  \* History.
  login,          \* the text a login since the start showed, unless an Exit came after it
  restarted,      \* the session text of the request, if the last step restarted the box for one
  echo            \* the last ping and its answer, if that was the last step

box  == <<seqnum, sessionid, login>>
vars == <<box, conn, known, net, restarted, echo>>

-------------------------------------------------------------------------------
(* The number of a session.                                                    *)

\* The text of a number, by divisions by ten; strstr().
Digits == <<"0", "1", "2", "3", "4", "5", "6", "7", "8", "9">>
my_itoa_long(value) ==
  LET Text[high, low \in Nat] ==
        LET rest == (high % 10) * 65536 + low
            digit == <<Digits[(rest % 10) + 1]>>
        IN  IF high = 0 /\ low < 10 THEN digit ELSE Text[high \div 10, rest \div 10] \o digit
  IN  Text[value[1], value[2]]
strstr(s, find) ==
  \E i \in 1..(Len(s) - Len(find) + 1) : SubSeq(s, i, i + Len(find) - 1) = find

\* Time_ms * 121121 in 32 bits.  The product with a word is made of 473 * 256 + 33.
Product(word) ==
  LET low == word * 33 + ((word * 473) % 256) * 256
  IN  <<(word * 473) \div 256 + low \div 65536, low % 65536>>
SessionAt(time) == <<(Product(time[1])[2] + Product(time[2])[1]) % 65536, Product(time[2])[2]>>

-------------------------------------------------------------------------------
NoRequest == [kind |-> "none", sid |-> <<>>]
Closed == [st |-> "closed", req |-> NoRequest, next |-> 0, end |-> 0, acked |-> FALSE]
Quiet  == <<>>

\* RAM at a start.
Started == seqnum' = 10 /\ sessionid' = NoSession /\ login' = {}

Init ==
  /\ seqnum = 10 /\ sessionid = NoSession
  /\ conn = [c \in Connections |-> Closed]
  /\ known = {my_itoa_long(SessionAt(time)) : time \in EarlierTimes} /\ net = {}
  /\ login = {}
  /\ restarted = {} /\ echo = Quiet

-------------------------------------------------------------------------------
(* Segments, and the answers that are made of them in the same buffer.          *)

Segment(to, c, flags, seq, ack, len, body) ==
  [to |-> to, conn |-> c, flags |-> flags, seq |-> seq, ack |-> ack, len |-> len, body |-> body]

\* A request, as a browser sends it behind the SYN's number.
RequestLength == 120
Syn(c, req) == Segment("box", c, {"SYN"}, 0, 0, 0, req)
Get(c, req, next) == Segment("box", c, {"ACK", "PSH"}, 1, next, RequestLength, req)
Fin(c, req, end) == Segment("box", c, {"ACK", "FIN"}, 1 + RequestLength, end, 0, req)

NoBody == [kind |-> "ack", sid |-> <<>>]

\* make_tcphead() with step_seq(): the numbers change places.
make_tcphead(p, rel_ack_num, cp_seq) ==
  [p EXCEPT !.to = "browser", !.seq = IF cp_seq THEN p.ack ELSE 0, !.ack = p.seq + rel_ack_num,
            !.len = 0, !.body = NoBody]

make_tcp_synack_from_syn(p) ==
  [make_tcphead(p, 1, FALSE) EXCEPT !.flags = {"SYN", "ACK"}, !.seq = seqnum * 256]

\* Variant: the numbers of a SYN's answer.
WithAPresetNumber(p, datlentoack, addflags) ==
  [make_tcphead(p, IF datlentoack = 0 THEN 1 ELSE datlentoack, FALSE)
     EXCEPT !.flags = {"ACK"} \cup addflags]
make_tcp_ack_from_any(p, datlentoack, addflags) ==
  [make_tcphead(p, IF datlentoack = 0 THEN 1 ELSE datlentoack, TRUE)
     EXCEPT !.flags = {"ACK"} \cup addflags]

make_tcp_ack_with_data_noflags(p, body, dlen) == [p EXCEPT !.body = body, !.len = dlen]

\* The two segments of a page: one that acknowledges, and the page with a FIN.
www_server_reply(p, body, dlen) ==
  LET ack == make_tcp_ack_from_any(p, p.len, {})
  IN  {ack, make_tcp_ack_with_data_noflags([ack EXCEPT !.flags = {"ACK", "PSH", "FIN"}], body, dlen)}

-------------------------------------------------------------------------------
(* The session.                                                                *)

\* Variant: without the second half of the condition.
DigitsAgree(given) == strstr(given, my_itoa_long(sessionid))
Accepts(given) == strstr(given, my_itoa_long(sessionid)) /\ sessionid # NoSession

\* What the handlers answer, and what they do besides.
Page(kind) ==
  CASE kind = "index" -> print_webpage_index(<<>>)
    [] kind = "login" -> print_webpage_login
    [] kind = "main"  -> print_webpage_mainframe
    [] kind = "info"  -> print_webpage_info
    [] kind \in {"ex", "reb"} -> http200ok + TopLocation
    [] kind = "ip" -> http200ok + NewLocation
    [] OTHER -> http404
Reply(p, kind, sid) ==
  net' = net \cup www_server_reply(p, [kind |-> kind, sid |-> sid], Page(kind))
SameBox == UNCHANGED box

Index(p) == p.body.kind = "index" /\ Reply(p, "index", <<>>) /\ SameBox
\* Variant: without sendflag.
SilentFavicon(p) == p.body.kind = "favicon" /\ UNCHANGED <<box, net>>
Favicon(p) == p.body.kind = "favicon" /\ Reply(p, "404", <<>>) /\ SameBox

\* lg with the right password.  Time_ms turns over after 497 days, so that one login
\* is not always later than the other.
Login(p) == \E now \in Times :
  /\ p.body.kind = "lg"
  /\ sessionid' = SessionAt(now)
  /\ login' = {my_itoa_long(sessionid')}
  /\ Reply(p, "main", my_itoa_long(sessionid'))
  /\ UNCHANGED seqnum

\* ... and with another or none.
LoginPage(p) == p.body.kind = "lg?" /\ Reply(p, "login", <<>>) /\ SameBox

\* Answered, and then GoApp(): "reb" is reb?yes, "ip" is Save on ip? or pi?.
RestartPages == {"reb", "ip"}
Protected == {"info", "ex", "lost"} \cup RestartPages
WrongSession(p) ==
  /\ p.body.kind \in Protected /\ ~Accepts(p.body.sid)
  /\ Reply(p, "404", <<>>)
  /\ SameBox

Info(p) ==
  /\ p.body.kind = "info" /\ Accepts(p.body.sid)
  /\ Reply(p, "info", <<>>)
  /\ SameBox

\* Variant: the session goes on.
ExitAndStay(p) ==
  /\ p.body.kind = "ex" /\ Accepts(p.body.sid)
  /\ login' = {}
  /\ Reply(p, "ex", <<>>)
  /\ UNCHANGED <<seqnum, sessionid>>
Exit(p) ==
  /\ p.body.kind = "ex" /\ Accepts(p.body.sid)
  /\ sessionid' = NoSession /\ login' = {}
  /\ Reply(p, "ex", <<>>)
  /\ UNCHANGED seqnum

\* (What Save on ip? writes before is in BoxSettings.)
Reboot(p) ==
  /\ p.body.kind \in RestartPages /\ Accepts(p.body.sid)
  /\ Reply(p, p.body.kind, <<>>)
  /\ Started

\* A session with a page that there is not: sendflag is still 0.
NoAnswer(p) ==
  /\ p.body.kind = "lost" /\ Accepts(p.body.sid)
  /\ UNCHANGED <<box, net>>

-------------------------------------------------------------------------------
(* The packet loop.                                                            *)

\* A SYN is answered as often as it comes, each time with another number.
\* Variant: steps of one.
HandleSynByOne(p) ==
  /\ "SYN" \in p.flags
  /\ seqnum < 10 + MaxSyns
  /\ net' = net \cup {make_tcp_synack_from_syn(p)}
  /\ seqnum' = (seqnum + 1) % 256
  /\ UNCHANGED <<sessionid, login>>
HandleSyn(p) ==
  /\ "SYN" \in p.flags
  /\ seqnum < 10 + 3 * MaxSyns
  /\ net' = net \cup {make_tcp_synack_from_syn(p)}
  /\ seqnum' = (seqnum + 3) % 256
  /\ UNCHANGED <<sessionid, login>>

\* An ACK without data; only a FIN is answered.
HandleFin(p) ==
  /\ "ACK" \in p.flags /\ p.len = 0 /\ "FIN" \in p.flags
  /\ net' = net \cup {make_tcp_ack_from_any(p, 0, {})}
  /\ SameBox

HandleRestart(p) == "ACK" \in p.flags /\ p.len > 0 /\ Reboot(p)
HandleGet(p) ==
  /\ "ACK" \in p.flags /\ p.len > 0
  /\ \/ Index(p) \/ Favicon(p) \/ Login(p) \/ LoginPage(p) \/ WrongSession(p)
     \/ Info(p) \/ Exit(p) \/ NoAnswer(p)

BoxGets(p) ==
  /\ p.to = "box"
  /\ \/ (HandleSyn(p) \/ HandleFin(p) \/ HandleGet(p)) /\ restarted' = {}
     \/ HandleRestart(p) /\ restarted' = {p.body.sid}
  /\ echo' = Quiet
  /\ UNCHANGED <<conn, known>>

\* Of the steps below none is a page's.
Plain == restarted' = {} /\ echo' = Quiet

\* checksum(): the complement of the words' sum, with the carries added again.
Folded(sum) == LET once == (sum % 65536) + (sum \div 65536)
               IN  (once % 65536) + (once \div 65536)
SumOf(words) ==
  LET sum[n \in 0..Len(words)] == IF n = 0 THEN 0 ELSE sum[n - 1] + words[n]
  IN  Folded(sum[Len(words)])
checksum(words) == 65535 - SumOf(words)

\* A ping of type 8 becomes one of type 0, and the checksum is corrected by its high
\* byte alone, with the carry into the low byte.
High(word) == word \div 256
Low(word) == word % 256
Request(data) == <<8 * 256, checksum(<<8 * 256, data>>), data>>
\* Variant: without the carry.
WithoutCarry(ping) == <<0, ((High(ping[2]) + 8) % 256) * 256 + Low(ping[2]), ping[3]>>
make_echo_reply_from_request(ping) ==
  LET low == IF High(ping[2]) > 255 - 8 THEN (Low(ping[2]) + 1) % 256 ELSE Low(ping[2])
  IN  <<0, ((High(ping[2]) + 8) % 256) * 256 + low, ping[3]>>

\* Bound: pings come before the first browser.
Ping(data) ==
  /\ net = {}
  /\ echo' = <<Request(data), make_echo_reply_from_request(Request(data))>>
  /\ restarted' = {}
  /\ UNCHANGED <<box, conn, known, net>>

\* A SYN of the box's own client takes a number too.
ClientSyn ==
  /\ seqnum < 10 + 3 * MaxSyns
  /\ seqnum' = (seqnum + 3) % 256
  /\ Plain
  /\ UNCHANGED <<sessionid, login, conn, known, net>>

PowerCut ==
  /\ Started /\ Plain
  /\ UNCHANGED <<conn, known, net>>

-------------------------------------------------------------------------------
(* Browsers and the network (not part of the repository).                      *)

Requests(c) ==
  [kind : Kinds[c] \ Protected, sid : {<<>>}] \cup [kind : Kinds[c] \cap Protected, sid : known]

Connect(c, req) ==
  /\ conn[c].st = "closed"
  /\ conn' = [conn EXCEPT ![c] = [Closed EXCEPT !.st = "syn", !.req = req]]
  /\ net' = net \cup {Syn(c, req)}
  /\ UNCHANGED known

TakeSynAck(c, p) ==
  /\ conn[c].st = "syn" /\ p.flags = {"SYN", "ACK"} /\ p.ack = 1
  /\ conn' = [conn EXCEPT ![c].st = "asked", ![c].next = p.seq + 1]
  /\ net' = net \cup {Get(c, conn[c].req, p.seq + 1)}
  /\ UNCHANGED known

TakeAck(c, p) ==
  /\ conn[c].st = "asked" /\ p.flags = {"ACK"} /\ ~conn[c].acked
  /\ p.seq = conn[c].next /\ p.ack = 1 + RequestLength
  /\ conn' = [conn EXCEPT ![c].acked = TRUE]
  /\ UNCHANGED <<net, known>>

TakePage(c, p) ==
  /\ conn[c].st = "asked" /\ p.len > 0
  /\ p.seq = conn[c].next /\ p.ack = 1 + RequestLength
  /\ conn' = [conn EXCEPT ![c].st = "shown", ![c].acked = TRUE, ![c].end = p.seq + p.len + 1]
  /\ net' = net \cup {Fin(c, conn[c].req, p.seq + p.len + 1)}
  /\ known' = IF p.body.kind = "main" THEN known \cup {p.body.sid} ELSE known

BrowserGets(c) ==
  /\ \E p \in net :
       /\ p.to = "browser" /\ p.conn = c
       /\ TakeSynAck(c, p) \/ TakeAck(c, p) \/ TakePage(c, p)
  /\ Plain
  /\ UNCHANGED box

\* A segment that its browser does not wait for may as well stay.
Lose(p) ==
  /\ p.to = "browser"
  /\ conn[p.conn].st = IF "SYN" \in p.flags THEN "syn" ELSE "asked"
  /\ net' = net \ {p}
  /\ Plain
  /\ UNCHANGED <<box, conn, known>>

Next ==
  \/ \E c \in Connections :
       \/ (\E req \in Requests(c) : Connect(c, req)) /\ Plain /\ UNCHANGED box
       \/ BrowserGets(c)
  \/ \E p \in net : BoxGets(p) \/ Lose(p)
  \/ \E data \in EchoData : Ping(data)
  \/ ClientSyn \/ PowerCut

\* A browser repeats a request until it is acknowledged, and of what comes again and
\* again it takes something once.
BoxAnswers(c) == ~conn[c].acked /\ \E p \in net : p.conn = c /\ p.len > 0 /\ BoxGets(p)
Fairness == \A c \in Connections : WF_vars(BoxAnswers(c)) /\ SF_vars(BrowserGets(c))
Spec == Init /\ [][Next]_vars /\ Fairness

-------------------------------------------------------------------------------
(* Properties.                                                                 *)

AllFlags == {{"SYN"}, {"SYN", "ACK"}, {"ACK"}, {"ACK", "PSH"}, {"ACK", "FIN"}, {"ACK", "PSH", "FIN"}}

\* Types: the box's number is a byte, a session is the one of the last login, a page fits
\* behind the headers, and a browser's request is one of the requests there are.
TypeOK ==
  /\ seqnum \in 0..255
  /\ sessionid \in {NoSession} \cup {SessionAt(time) : time \in Times}
  /\ sessionid # NoSession => login = {my_itoa_long(sessionid)}
  /\ \A c \in Connections :
       /\ conn[c].st \in {"closed", "syn", "asked", "shown"}
       /\ conn[c].req.kind \in Kinds[c] \cup {"none"}
       /\ conn[c].next \in Nat /\ conn[c].end \in Nat /\ conn[c].acked \in BOOLEAN
  /\ \A p \in net :
       /\ p.to \in {"box", "browser"} /\ p.conn \in Connections /\ p.flags \in AllFlags
       /\ p.seq \in Nat /\ p.ack \in Nat /\ p.len \in 0..RoomForText

\* The box makes its answers from what it answers and keeps no connection, so a repeated
\* SYN gives a second first number and a restart begins the numbers again.  Whatever is
\* repeated, late or lost, no browser is sent an acknowledgement of something it did not
\* send, and once it took a first number no page or acknowledgement comes outside of it
\* (make_tcphead(), make_tcp_ack_from_any(), www_server_reply()).
AnswersAreAcceptable == \A p \in net : p.to = "browser" =>
  IF "SYN" \in p.flags
  THEN p.ack = 1
  ELSE \/ p.ack = 1 + RequestLength /\ p.seq = conn[p.conn].next
       \/ p.ack = 2 + RequestLength /\ p.seq = conn[p.conn].end

\* seqnum's steps of three leave room for a page: no first number that is given lies among
\* the numbers of an earlier page, which may still be on its way (ip_arp_udp_tcp.c:607).
NumbersDoNotOverlap == \A page, synack \in net :
  /\ page.to = "browser" /\ page.len > 0
  /\ synack.flags = {"SYN", "ACK"} /\ synack.seq >= page.seq
  => synack.seq > page.seq + page.len

\* A page restarts the box only for a request that shows the number of a login since the
\* last start with no Exit behind it, although the requests of earlier sessions come again,
\* and although 0 is no session but has a text too.  The number may be a part of what is
\* shown: the text of an earlier session with these digits in it passes as well, because
\* the box looks for its own text in it (protocol.c:1945).
RestartsNeedALogin ==
  [][\A sid \in restarted' : \E text \in login : strstr(sid, text)]_vars

\* Whatever is lost, a request of a page that there is is acknowledged in the end: no
\* handler returns without an answer (sendflag).
AskedIsAcked == \A c \in Connections :
  conn[c].st = "asked" /\ conn[c].req.kind # "lost" ~> conn[c].acked

\* The answer to a ping passes the other side's check, whose words' sum is FFFF.  The one
\* exception is a checksum whose low byte has no room for the carry.
PongsCheckOut == echo # Quiet =>
  \/ SumOf(echo[2]) = 65535
  \/ High(echo[1][2]) > 247 /\ Low(echo[1][2]) = 255
===============================================================================
