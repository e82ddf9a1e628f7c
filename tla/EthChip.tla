-------------------------------- MODULE EthChip -------------------------------
(***************************************************************************)
(* The driver of the Ethernet chip (enc28j60.c) and the chip beside it,    *)
(* which puts frames into a ring while the driver takes them out, and      *)
(* sends from a buffer of its own.  Memory is in words of two bytes, at    *)
(* even addresses: the chip begins every frame at an even address.         *)
(***************************************************************************)
EXTENDS EthRegisters, Integers

CONSTANTS
  RXSTOP_INIT,  \* the last address of the ring
  FrameSizes,   \* what frames take in the ring: header, data, CRC and padding
  JunkPointers, \* what a header that was overwritten may hold as next pointer
  Packets,      \* what the box sends
  NoPacket,
  MaxFrames     \* bound: frames received between two resets of the chip

RegisterWidth == 8192   \* ERXRDPT has 13 bits

\* The transmit buffer lies behind the ring, in the same 8 kB.
ASSUME ChipAssumption ==
  /\ RXSTOP_INIT \in Nat /\ RXSTOP_INIT % 2 = 1 /\ RXSTOP_INIT < RegisterWidth - 1
  /\ FrameSizes \subseteq {size \in 6..RXSTOP_INIT : size % 2 = 0}
  /\ JunkPointers \subseteq Int
  /\ NoPacket \notin Packets
  /\ MaxFrames \in Nat

RXSTART_INIT == 0
RingSize == RXSTOP_INIT + 1
Ring  == RXSTART_INIT..RXSTOP_INIT
Words == {a \in Ring : a % 2 = 0}

VARIABLES
  \* The driver.
  pc,             \* "boot"; "idle"; the step of enc28j60PacketReceive() that is next,
                  \*   "header", "body", "free" or "dec"; "send" in enc28j60PacketSend()
  gNextPacketPtr,
  cur,            \* the frame whose header was read, 0 if it was none
  packet,         \* to be sent
  bank,           \* Enc28j60Bank and the bank selected in the chip
  \* The chip.
  mem,            \* the frame that each word of the ring belongs to, 0 if none yet
  erxwrpt, erxrdpt, epktcnt,
  tx,             \* TXRTS, TXERIF, a stalled transmitter, the buffer and what of it
                  \*   has gone out already
  \* History, since the last reset of the chip.
  frames,         \* received
  taken,          \* of them, how many the driver has released
  delivered,      \* what enc28j60PacketReceive() returned, 0 for garbage
  smashed         \* was a frame overwritten that the driver had not released?

rx   == <<gNextPacketPtr, cur, mem, erxwrpt, erxrdpt, epktcnt, frames, taken,
          delivered, smashed>>
vars == <<rx, pc, packet, bank, tx>>

Frame == [at : Words, size : FrameSizes, good : BOOLEAN]
IdleTransmitter ==
  [rts |-> FALSE, txerif |-> FALSE, stalled |-> FALSE, buffer |-> NoPacket, out |-> NoPacket]

Place(a) == IF a > RXSTOP_INIT THEN a - RingSize ELSE a
NextOf(f) == Place(f.at + f.size)
WordsOf(f) == {Place(f.at + d) : d \in {d \in 0..(f.size - 1) : d % 2 = 0}}
HeaderOf(f) == {Place(f.at + d) : d \in {0, 2, 4}}
UnreadWords == UNION {WordsOf(frames[i]) : i \in (taken + 1)..Len(frames)}

Init ==
  /\ pc = "boot"
  /\ packet = NoPacket
  /\ bank = [cached |-> 0, selected |-> 0, astray |-> FALSE]
  /\ tx = IdleTransmitter
  /\ mem = [a \in Words |-> 0]
  /\ gNextPacketPtr = 0 /\ cur = 0
  /\ erxwrpt = 0 /\ erxrdpt = 0 /\ epktcnt = 0
  /\ frames = <<>> /\ taken = 0 /\ delivered = <<>> /\ smashed = FALSE

-------------------------------------------------------------------------------
(* The chip: it stores the frames that pass its filter and fit into the room    *)
(* that the data sheet computes from the pointers.  With a read pointer outside *)
(* the ring nothing is specified; it may store any frame.                       *)

Room == IF erxwrpt > erxrdpt THEN RXSTOP_INIT - (erxwrpt - erxrdpt)
        ELSE IF erxwrpt = erxrdpt THEN RXSTOP_INIT
        ELSE erxrdpt - erxwrpt - 1

ReceiveFrame ==
  /\ pc # "boot"
  /\ Len(frames) < MaxFrames
  /\ \E size \in FrameSizes, good \in BOOLEAN :
       LET f == [at |-> erxwrpt, size |-> size, good |-> good]
       IN  /\ erxrdpt \in Ring => size <= Room
           /\ mem' = [a \in Words |-> IF a \in WordsOf(f) THEN Len(frames) + 1 ELSE mem[a]]
           /\ erxwrpt' = NextOf(f)
           /\ epktcnt' = epktcnt + 1
           /\ frames' = Append(frames, f)
           /\ smashed' = (smashed \/ WordsOf(f) \cap UnreadWords # {})
  /\ UNCHANGED <<gNextPacketPtr, cur, erxrdpt, taken, delivered, pc, packet, bank, tx>>

\* The buffer is read while it goes out: first one half of it, then the other.
TransmitHalf ==
  /\ tx.rts /\ ~tx.stalled /\ tx.out = NoPacket
  /\ tx' = [tx EXCEPT !.out = tx.buffer]
  /\ UNCHANGED <<rx, pc, packet, bank>>

TransmitEnd ==
  /\ tx.rts /\ tx.out # NoPacket
  /\ tx' = [tx EXCEPT !.rts = FALSE, !.out = NoPacket]
  /\ UNCHANGED <<rx, pc, packet, bank>>

\* A collision: the transmitter works again after a reset only (errata 12).
TransmitError ==
  /\ tx.rts /\ ~tx.stalled
  /\ tx' = [tx EXCEPT !.rts = FALSE, !.out = NoPacket, !.txerif = TRUE, !.stalled = TRUE]
  /\ UNCHANGED <<rx, pc, packet, bank>>

-------------------------------------------------------------------------------
(* Reset: ENC28J60_INIT_CHIP() at boot and whenever the main loop finds the     *)
(* link down.                                                                   *)

InitChip ==
  /\ pc \in {"boot", "idle"}
  /\ pc' = "idle"
  /\ bank' = LET asked == IF pc = "idle" THEN Accesses(bank, PhyRead) ELSE bank
             IN  Accesses(BankReset(asked), InitAccesses \o PhyWrite)
  /\ gNextPacketPtr' = RXSTART_INIT /\ cur' = 0
  /\ erxrdpt' = RXSTART_INIT /\ erxwrpt' = RXSTART_INIT /\ epktcnt' = 0
  /\ mem' = [a \in Words |-> 0]
  /\ tx' = IdleTransmitter
  /\ frames' = <<>> /\ taken' = 0 /\ delivered' = <<>> /\ smashed' = FALSE
  /\ UNCHANGED packet

LinkIsUp ==
  /\ pc = "idle"
  /\ bank' = Accesses(bank, PhyRead)
  /\ UNCHANGED <<rx, pc, packet, tx>>

SetBroadcast ==
  /\ pc = "idle"
  /\ bank' = Accesses(bank, ChangeBroadcast)
  /\ UNCHANGED <<rx, pc, packet, tx>>

\* The watchdog, or the jump to 0 by which the box restarts itself: the variables of
\* the program are cleared, the chip is not.
Restart ==
  /\ pc # "boot"
  /\ pc' = "boot"
  /\ bank' = [bank EXCEPT !.cached = 0]
  /\ gNextPacketPtr' = 0 /\ cur' = 0
  /\ packet' = NoPacket
  /\ UNCHANGED <<mem, erxwrpt, erxrdpt, epktcnt, tx, frames, taken, delivered, smashed>>

-------------------------------------------------------------------------------
(* enc28j60PacketSend(). *)

CallSend ==
  /\ pc = "idle"
  /\ pc' = "send"
  /\ packet' \in Packets
  /\ UNCHANGED <<rx, bank, tx>>

\* Variants of the next two: no wait; no reset of the transmitter.
NeverBusy == FALSE
NoReset(t) == t

TransmitterBusy == tx.rts
Unblocked(t) == IF t.txerif THEN [t EXCEPT !.txerif = FALSE, !.stalled = FALSE] ELSE t

Send ==
  /\ pc = "send"
  /\ ~TransmitterBusy
  /\ pc' = "idle"
  /\ bank' = Accesses(bank, WaitForTransmitter
                              \o (IF tx.txerif THEN ResetTransmitter ELSE <<>>)
                              \o StartTransmitter)
  /\ tx' = [Unblocked(tx) EXCEPT !.buffer = packet, !.rts = TRUE]
  /\ UNCHANGED <<rx, packet>>

-------------------------------------------------------------------------------
(* enc28j60PacketReceive(), between whose steps the chip goes on receiving.     *)

\* Variants of the next: the interrupt flag, which says nothing (errata 6); off by one.
PacketFlag == TRUE
HasMorePackets == epktcnt > 1

HasPacket == epktcnt # 0

Poll ==
  /\ pc = "idle"
  /\ bank' = Accesses(bank, <<Via("EPKTCNT")>> \o (IF HasPacket THEN <<Via("ERDPT")>> ELSE <<>>))
  /\ pc' = IF HasPacket THEN "header" ELSE "idle"
  /\ UNCHANGED <<rx, packet, tx>>

\* The frame whose header is intact at the address.
HeaderAt(p) ==
  {i \in 1..Len(frames) : frames[i].at = p /\ \A a \in HeaderOf(frames[i]) : mem[a] = i}

ReadHeader ==
  /\ pc = "header"
  /\ pc' = "body"
  /\ \/ \E i \in HeaderAt(gNextPacketPtr) :
          cur' = i /\ gNextPacketPtr' = NextOf(frames[i])
     \/ /\ HeaderAt(gNextPacketPtr) = {}
        /\ cur' = 0
        /\ gNextPacketPtr' \in JunkPointers
  /\ UNCHANGED <<mem, erxwrpt, erxrdpt, epktcnt, frames, taken, delivered, smashed,
                 packet, bank, tx>>

Intact(i) == \A a \in WordsOf(frames[i]) : mem[a] = i

\* A variant of the next: the status is not looked at.
AnyStatus(i) == TRUE

StatusGood(i) == frames[i].good

\* The data, up to the caller's limit (which DhcpClient has), unless the status tells of
\* an error; the status of a header that was overwritten tells anything.
ReadBody ==
  /\ pc = "body"
  /\ pc' = "free"
  /\ \/ cur # 0 /\ StatusGood(cur)
          /\ delivered' = Append(delivered, IF Intact(cur) THEN cur ELSE 0)
     \/ cur = 0 /\ delivered' = Append(delivered, 0)
     \/ (cur # 0 => ~StatusGood(cur)) /\ UNCHANGED delivered
  /\ UNCHANGED <<gNextPacketPtr, cur, mem, erxwrpt, erxrdpt, epktcnt, frames, taken,
                 smashed, packet, bank, tx>>

\* A variant of the next: the pointer itself.
NextItself(next) == next

\* An int, of which the register takes 13 bits.
ReleasedTo(next) ==
  IF next - 1 > RXSTOP_INIT THEN RXSTOP_INIT ELSE (next - 1) % RegisterWidth

Release ==
  /\ pc = "free"
  /\ pc' = "dec"
  /\ erxrdpt' = ReleasedTo(gNextPacketPtr)
  /\ taken' = taken + 1
  /\ bank' = Accesses(bank, <<Via("ERXRDPT")>>)
  /\ UNCHANGED <<gNextPacketPtr, cur, mem, erxwrpt, epktcnt, frames, delivered, smashed,
                 packet, tx>>

\* A variant of the next: a frame with an error is not counted off.
CountedDownIfGood == IF cur # 0 /\ ~frames[cur].good THEN epktcnt ELSE epktcnt - 1

CountedDown == epktcnt - 1

CountDown ==
  /\ pc = "dec"
  /\ pc' = "idle"
  /\ epktcnt' = CountedDown
  /\ cur' = 0
  /\ bank' = Accesses(bank, <<Direct("ECON2")>>)
  /\ UNCHANGED <<gNextPacketPtr, mem, erxwrpt, erxrdpt, frames, taken, delivered, smashed,
                 packet, tx>>

-------------------------------------------------------------------------------
GoOn == \/ pc = "boot" /\ InitChip
        \/ Send \/ ReadHeader \/ ReadBody \/ Release \/ CountDown
Transmit == TransmitHalf \/ TransmitEnd

Next ==
  \/ ReceiveFrame \/ TransmitHalf \/ TransmitEnd \/ TransmitError
  \/ InitChip \/ LinkIsUp \/ SetBroadcast \/ Restart
  \/ CallSend \/ Send
  \/ Poll \/ ReadHeader \/ ReadBody \/ Release \/ CountDown

\* The main loop asks for a frame again and again, the program goes on, the chip
\* finishes what it sends.
Spec == /\ Init /\ [][Next]_vars
        /\ WF_vars(GoOn) /\ SF_vars(Poll) /\ WF_vars(Transmit)

-------------------------------------------------------------------------------
(* Properties. *)

TypeOK ==
  /\ pc \in {"boot", "idle", "header", "body", "free", "dec", "send"}
  /\ gNextPacketPtr \in Words \cup JunkPointers
  /\ cur \in 0..Len(frames)
  /\ packet \in Packets \cup {NoPacket}
  /\ bank \in BankTypes
  /\ mem \in [Words -> 0..Len(frames)]
  /\ erxwrpt \in Words /\ erxrdpt \in 0..(RegisterWidth - 1)
  /\ epktcnt \in 0..Len(frames)
  /\ tx \in [rts : BOOLEAN, txerif : BOOLEAN, stalled : BOOLEAN,
             buffer : Packets \cup {NoPacket}, out : Packets \cup {NoPacket}]
  /\ frames \in Seq(Frame)
  /\ taken \in 0..Len(frames)
  /\ delivered \in Seq(0..Len(frames))
  /\ smashed \in BOOLEAN

\* While no frame was overwritten, the driver's pointer is where the chip put the next
\* frame, or will put it, and the chip counts the frames that the driver has not
\* taken.
DriverFollowsChip ==
  pc \notin {"boot", "body", "free"} /\ ~smashed =>
    /\ gNextPacketPtr = IF taken < Len(frames) THEN frames[taken + 1].at ELSE erxwrpt
    /\ epktcnt = Len(frames) - taken + (IF pc = "dec" THEN 1 ELSE 0)

\* enc28j60PacketReceive() returns the good frames in the order in which they came,
\* each once, and none is left out: also while further frames arrive between the steps
\* of a call.  Each is whole, no part of another frame, up to the length that the caller
\* takes (enc28j60.c:391).
ReadSoFar == taken + (IF pc = "free" THEN 1 ELSE 0)
FramesInOrder ==
  pc # "boot" /\ ~smashed =>
    /\ \A i, j \in DOMAIN delivered : i < j => delivered[i] < delivered[j]
    /\ {delivered[i] : i \in DOMAIN delivered} = {i \in 1..ReadSoFar : frames[i].good}

\* The chip overwrites a frame that the driver has not released only while ERXRDPT
\* points outside the ring.
OverwritesOnlyWhenAstray == [][smashed' /\ ~smashed => erxrdpt \notin Ring]_smashed

\* Errata 13: the driver never writes an even address to ERXRDPT when it releases a
\* frame, as long as the pointers it finds in the ring are the chip's own.
ReleasesOddAddress ==
  [][erxrdpt' # RXSTART_INIT /\ ~smashed => erxrdpt' % 2 = 1]_erxrdpt

\* No access to a register goes to another bank's register of the same address: the
\* driver's copy of the bank is good across a reset of the chip, a restart of the
\* program in mid-operation and the accesses that do not select a bank.
RegistersInTheirBank == ~bank.astray

\* What goes out is one packet, not the beginning of one and the end of the next, and
\* it is sent by a transmitter that was reset after an error.
TransmitsWhole == tx.rts => /\ tx.out \in {NoPacket, tx.buffer}
                            /\ ~tx.stalled

\* Every frame in the ring is taken, unless the chip is reset or one is overwritten.
FramesAreTaken ==
  \A n \in 1..MaxFrames :
    Len(frames) >= n ~> taken >= n \/ smashed \/ frames = <<>>
===============================================================================
