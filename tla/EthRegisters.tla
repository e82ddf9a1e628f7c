----------------------------- MODULE EthRegisters -----------------------------
(***************************************************************************)
(* The control registers of the ENC28J60: four banks, of which ECON1       *)
(* selects one.  The driver remembers in Enc28j60Bank what it selected     *)
(* last.  Register names stand for their low and high byte together.       *)
(***************************************************************************)
EXTENDS Naturals, Sequences

AllBanks == {"EIE", "EIR", "ESTAT", "ECON2", "ECON1"}
Banks ==   \* bank 0, 1, 2 and 3
  <<{"ERDPT", "EWRPT", "ETXST", "ETXND", "ERXST", "ERXND", "ERXRDPT"},
    {"EPMM", "EPMCS", "ERXFCON", "EPKTCNT"},
    {"MACON1", "MACON2", "MACON3", "MABBIPG", "MAIPG", "MAMXFL", "MICMD", "MIREGADR",
     "MIWR", "MIRD"},
    {"MAADR", "MISTAT"}>>
Registers == AllBanks \cup UNION {Banks[i] : i \in 1..4}

\* address & BANK_MASK: the address of a register of all banks has these bits clear.
BankOf(reg) ==
  IF reg \in AllBanks THEN 0 ELSE (CHOOSE i \in 1..4 : reg \in Banks[i]) - 1

-------------------------------------------------------------------------------
(* Accesses.  A driver's access selects the bank first; a bit field operation   *)
(* by enc28j60WriteOp() relies on the bank that happens to be selected.         *)

Via(reg)    == [reg |-> reg, selects |-> TRUE]
Direct(reg) == [reg |-> reg, selects |-> FALSE]
Each(regs)  == [i \in DOMAIN regs |-> Via(regs[i])]

\* cached is Enc28j60Bank, selected is what ECON1 holds; astray tells that an access
\* reached the register of another bank that has the same address.
BankTypes == [cached : 0..3, selected : 0..3, astray : BOOLEAN]

\* After a reset of the chip: the driver's copy is kept.
BankReset(b) == [b EXCEPT !.selected = 0]

\* A variant of the next: the copy is not renewed.
SelectsOnce(b, reg) ==
  IF BankOf(reg) = b.cached THEN b ELSE [b EXCEPT !.selected = BankOf(reg)]

SetBank(b, reg) ==
  IF BankOf(reg) = b.cached THEN b
  ELSE [b EXCEPT !.cached = BankOf(reg), !.selected = BankOf(reg)]

Access(b, a) ==
  LET c == IF a.selects THEN SetBank(b, a.reg) ELSE b
  IN  [c EXCEPT !.astray = @ \/ (a.reg \notin AllBanks /\ c.selected # BankOf(a.reg))]

Accessed(a) == [b \in BankTypes |-> Access(b, a)]

Accesses(b, as) ==
  LET after[i \in 0..Len(as)] == IF i = 0 THEN b ELSE Accessed(as[i])[after[i - 1]]
  IN  after[Len(as)]

-------------------------------------------------------------------------------
(* The driver's functions, by the registers they use. *)

PhyRead  == Each(<<"MIREGADR", "MICMD", "MISTAT", "MICMD", "MIRD">>)
PhyWrite == Each(<<"MIREGADR", "MIWR", "MISTAT">>)
ChangeBroadcast == Each(<<"ERXFCON", "ERXFCON">>)

InitAccesses ==
  Each(<<"ERXST", "ERXRDPT", "ERXND", "ETXST", "ETXND", "ERXFCON", "EPMM", "EPMCS",
         "MACON1", "MACON2">>)
    \o <<Direct("MACON3")>>
    \o Each(<<"MAIPG", "MABBIPG", "MAMXFL", "MAADR">>)
    \o PhyWrite
    \o <<Via("ECON1"), Direct("EIE"), Direct("ECON1")>>

WaitForTransmitter == <<Direct("ECON1"), Via("EIR")>>
ResetTransmitter == <<Direct("ECON1"), Direct("ECON1"), Direct("EIR")>>
StartTransmitter == Each(<<"EWRPT", "ETXND">>) \o <<Direct("ECON1")>>
===============================================================================
