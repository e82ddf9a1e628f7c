------------------------------- MODULE MCEthChip ------------------------------
(* A ring of eight words.  A header that was overwritten may hold any address   *)
(* of the ring or one behind it.                                               *)
EXTENDS EthChip
MCJunkPointers == {0, 6, RXSTOP_INIT + 3}
===============================================================================
