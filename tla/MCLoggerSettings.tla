--------------------------- MODULE MCLoggerSettings ---------------------------
(* Settings of the two loggers for TLC: names alpha and beta, and a dotted     *)
(* address.  A logger whose timer was started waits for one tick at least,     *)
(* whatever its refresh time.                                                  *)
CONSTANTS alpha, beta, dotted

MCHosts == {alpha, beta, dotted}
MCNumericHosts == {dotted}

On(h)  == [enable |-> TRUE,  host |-> h, refresh |-> 0]
Off(h) == [enable |-> FALSE, host |-> h, refresh |-> 0]

\* The second logger can be given another host and be switched off.
MCSettings == [k \in {0, 1} |-> IF k = 0 THEN {On(alpha)} ELSE {On(beta), Off(dotted)}]
MCDefaultSettings == [k \in {0, 1} |-> IF k = 0 THEN On(alpha) ELSE On(beta)]
\* Settings that are only ever saved again as they are.
MCNamed  == [k \in {0, 1} |-> {IF k = 0 THEN On(alpha) ELSE On(beta)}]

MCNamedDefaults  == [k \in {0, 1} |-> IF k = 0 THEN On(alpha) ELSE On(beta)]
=============================================================================
