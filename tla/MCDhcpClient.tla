----------------------------- MODULE MCDhcpClient -----------------------------
(* Boxes and servers for TLC.  The countdowns of the client are those of the   *)
(* code; the boot delay is scaled down, the first retry still comes before it  *)
(* ends.  The shortest lease is the shortest that does not run out.            *)
EXTENDS DhcpClient
CONSTANTS s1, b1, b2, forever

MCAddresses == {<<b, t>> : b \in Boxes, t \in Tids}
LeaseOf(t) == IF t = 0 THEN 29 ELSE IF t = 1 THEN 70 ELSE forever
MCTerms ==
  [s \in Servers |-> [b \in Boxes |-> [t \in Tids |-> [addr |-> <<b, t>>, lease |-> LeaseOf(t)]]]]
MCInitialTid == [b \in Boxes |-> IF b = b1 THEN 2 ELSE 0]
===============================================================================
