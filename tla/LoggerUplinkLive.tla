--------------------------- MODULE LoggerUplinkLive ---------------------------
(***************************************************************************)
(* The loggers between two restarts, with the scheduling the firmware      *)
(* gives them: the main loop never stops (the watchdog sees to that), the  *)
(* interrupt never stops, and in every second the loop makes at least one  *)
(* iteration that received no frame, so that sec is looked at before it    *)
(* wraps around.  The link is up; frames may be lost, but a gateway and a  *)
(* name server that are asked again and again are not silent forever.      *)
(***************************************************************************)
EXTENDS LoggerUplink

VARIABLE polled  \* an iteration without a frame was made in this second

liveVars == <<vars, polled>>

LiveInit == Init /\ polled = FALSE

IdleLinkUp ==
  /\ \/ NothingToPost(TRUE)
     \/ RequestLookup(TRUE, TRUE)
     \/ AwaitLookup(TRUE)
     \/ Post(TRUE)
     \/ AwaitCallback(TRUE)
  /\ polled' = TRUE

TimedTick ==
  /\ Tick
  /\ SecondPassed => polled
  /\ polled' = (polled /\ ~SecondPassed)

LiveNext ==
  \/ IdleLinkUp
  \/ FrameIteration /\ UNCHANGED polled
  \/ PollSensors /\ UNCHANGED polled
  \/ TimedTick

Fairness ==
  /\ SF_liveVars(IdleLinkUp)
  /\ WF_liveVars(PollSensors /\ UNCHANGED polled)
  /\ WF_liveVars(TimedTick)
  /\ SF_liveVars(GatewayAnswers /\ UNCHANGED polled)
  /\ SF_liveVars(dns_state = 1 /\ DnsAnswers(tid) /\ UNCHANGED polled)

LiveSpec == LiveInit /\ [][LiveNext]_liveVars /\ Fairness

\* The uplink never wedges: whatever is lost, answered late or answered by an
\* earlier connection, POSTs are asked for again and again while a logger is
\* enabled (protocol.c:1685-1783).
UplinkNeverWedges == []<><<PostStep>>_liveVars

\* What shows the network to be alive: a callback or a page served to a browser.
Alive ==
  \/ start_web_client = 2 /\ start_web_client' = 3
  \/ WebPage(TRUE)
  \/ \E k \in Loggers : \E new \in Settings[k] : SaveLogger(k, new)

\* A box whose POSTs are not answered any more and whose pages nobody asks for
\* resets its Ethernet chip again and again, whatever POSTs and lookups of the
\* two loggers share sec and reboot_counter (protocol.c:868-877, 1713-1716,
\* 1773-1776).
DeadUplinkResetsChip ==
  <>[][~Alive]_liveVars => []<><<PollSensors /\ ResetStep>>_liveVars
=============================================================================
