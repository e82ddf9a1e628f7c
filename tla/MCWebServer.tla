------------------------------ MODULE MCWebServer -----------------------------
(* Two browsers, or one that comes back.  A login ten seconds after a start has  *)
(* the session 121121000.  Before it there was one 34 days after its start, which *)
(* had 1211210002: that product turned over, and its text contains the other one, *)
(* as both contain 0.  The checksums of the pings are F7FF, F8FE, FFFE, and       *)
(* others around the borders of the two carries.                                 *)
EXTENDS WebServer

MCKinds ==
  "first" :> {"lg"}
  @@ "second" :> {"index", "lg?", "favicon", "info", "ex", "reb", "ip", "lost"}
MCTimes == {<<0, 1000>>}
MCEarlierTimes == {<<4561, 64722>>}
MCEchoData == {256 * high + low : high \in {0, 18, 247, 248, 249, 255}, low \in {0, 1, 254, 255}}
===============================================================================
