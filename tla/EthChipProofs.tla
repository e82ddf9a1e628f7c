---------------------------- MODULE EthChipProofs -----------------------------
(***************************************************************************)
(* Proofs about EthChip, for a ring and frames of any size, any number of  *)
(* frames and any packets.                                                 *)
(***************************************************************************)
EXTENDS EthChip, CountingProofs, SequenceTheorems, TLAPS

-------------------------------------------------------------------------------
(* The transmitter. *)

TxFields == {"rts", "txerif", "stalled", "buffer", "out"}

\* Nothing has gone out of a buffer that is not being sent, and the interrupt flag tells
\* of a transmitter that is stalled.
TxInv ==
  /\ DOMAIN tx = TxFields
  /\ tx.rts \in BOOLEAN /\ tx.txerif \in BOOLEAN /\ tx.stalled \in BOOLEAN
  /\ ~tx.rts => tx.out = NoPacket
  /\ tx.rts => tx.out \in {NoPacket, tx.buffer} /\ ~tx.stalled
  /\ tx.stalled => tx.txerif

LEMMA IdleTx ==
  /\ DOMAIN IdleTransmitter = TxFields
  /\ ~IdleTransmitter.rts /\ ~IdleTransmitter.txerif /\ ~IdleTransmitter.stalled
  /\ IdleTransmitter.out = NoPacket
  /\ IdleTransmitter.rts \in BOOLEAN /\ IdleTransmitter.txerif \in BOOLEAN
  /\ IdleTransmitter.stalled \in BOOLEAN
BY DEF IdleTransmitter, TxFields

LEMMA SendKeepsTx == TxInv /\ Send => TxInv'
<1> SUFFICES ASSUME TxInv, Send PROVE TxInv'
  OBVIOUS
<1> DEFINE t == Unblocked(tx)
<1>1. /\ DOMAIN t = TxFields /\ t.out = NoPacket /\ ~t.stalled
      /\ t.txerif \in BOOLEAN /\ t.stalled \in BOOLEAN
  <2>1. ~tx.rts /\ tx.out = NoPacket
    BY DEF TxInv, Send, TransmitterBusy
  <2>2. CASE tx.txerif
    BY <2>1, <2>2 DEF TxInv, Unblocked, TxFields
  <2>3. CASE ~tx.txerif
    BY <2>1, <2>3 DEF TxInv, Unblocked
  <2> QED
    BY <2>2, <2>3
<1> HIDE DEF t
<1>2. tx' = [t EXCEPT !.buffer = packet, !.rts = TRUE]
  BY DEF Send, t
<1> QED
  BY <1>1, <1>2 DEF TxInv, TxFields

LEMMA NextKeepsTx == TxInv /\ [Next]_vars => TxInv'
<1> SUFFICES ASSUME TxInv, [Next]_vars PROVE TxInv'
  OBVIOUS
<1>1. CASE TransmitHalf
  BY <1>1 DEF TransmitHalf, TxInv, TxFields
<1>2. CASE TransmitEnd
  BY <1>2 DEF TransmitEnd, TxInv, TxFields
<1>3. CASE TransmitError
  BY <1>3 DEF TransmitError, TxInv, TxFields
<1>4. CASE InitChip
  <2>1. tx' = IdleTransmitter
    BY <1>4 DEF InitChip
  <2> QED
    BY <2>1, IdleTx DEF TxInv
<1>5. CASE UNCHANGED tx
  BY <1>5 DEF TxInv
<1>6. \/ TransmitHalf \/ TransmitEnd \/ TransmitError \/ InitChip \/ Send
      \/ UNCHANGED tx
  BY DEF Next, vars, ReceiveFrame, LinkIsUp, SetBroadcast, Restart, CallSend, Poll, ReadHeader,
         ReadBody, Release, CountDown
<1> QED
  BY <1>1, <1>2, <1>3, <1>4, <1>5, <1>6, SendKeepsTx

\* The buffer is never written while it goes out, and a stalled transmitter is reset before
\* it is asked to send, whatever restarts the program and whenever a collision comes
\* (enc28j60PacketSend()).
THEOREM AlwaysTransmitsWhole == Spec => []TransmitsWhole
<1>1. Init => TxInv
  <2> SUFFICES ASSUME Init PROVE TxInv
    OBVIOUS
  <2>1. tx = IdleTransmitter
    BY DEF Init
  <2> QED
    BY <2>1, IdleTx DEF TxInv
<1>2. TxInv => TransmitsWhole
  BY DEF TxInv, TransmitsWhole
<1> QED
  BY <1>1, <1>2, NextKeepsTx, PTL DEF Spec

-------------------------------------------------------------------------------
(* The ring. *)

\* Where the frame with a number is, or the next one will be.
At(i) == IF i <= Len(frames) THEN frames[i].at ELSE erxwrpt

\* The chip puts frame behind frame.
ChipInv ==
  /\ frames \in Seq(Frame)
  /\ erxwrpt \in Words
  /\ epktcnt \in Int
  /\ DOMAIN mem = Words
  /\ \A i \in 1..Len(frames) : NextOf(frames[i]) = At(i + 1)

\* The frames that the driver has not released are intact.
UnreadIntact ==
  \A i \in (taken + 1)..Len(frames) : \A a \in WordsOf(frames[i]) : mem[a] = i

Between == {"idle", "send", "header", "dec"}

\* Where the driver is in the ring.
DriverInv ==
  /\ taken \in 0..Len(frames)
  /\ UnreadIntact
  /\ pc \in Between => gNextPacketPtr = At(taken + 1)
  /\ pc = "header" => taken < Len(frames)
  /\ pc \in {"body", "free"} =>
       taken < Len(frames) /\ cur = taken + 1 /\ gNextPacketPtr = At(taken + 2)
  /\ epktcnt = Len(frames) - taken + (IF pc = "dec" THEN 1 ELSE 0)

Steps == Between \cup {"boot", "body", "free"}

RingInv ==
  /\ pc \in Steps
  /\ ChipInv
  /\ smashed \in BOOLEAN
  /\ pc # "boot" /\ ~smashed => DriverInv

LEMMA RingFacts ==
  ASSUME NEW f \in Frame
  PROVE  /\ WordsOf(f) \subseteq Words
         /\ f.at \in HeaderOf(f)
         /\ HeaderOf(f) \subseteq WordsOf(f)
         /\ NextOf(f) \in Words
<1>1. /\ RXSTOP_INIT \in Nat /\ RXSTOP_INIT % 2 = 1
      /\ f.size \in 6..RXSTOP_INIT /\ f.size % 2 = 0
      /\ f.at \in 0..RXSTOP_INIT /\ f.at % 2 = 0
  BY ChipAssumption DEF Frame, Words, Ring, RXSTART_INIT
<1>2. ASSUME NEW d \in Nat, d % 2 = 0, d <= RXSTOP_INIT
      PROVE  Place(f.at + d) \in Words
  <2>1. CASE f.at + d > RXSTOP_INIT
    <3>1. /\ Place(f.at + d) = f.at + d - (RXSTOP_INIT + 1)
          /\ f.at + d - (RXSTOP_INIT + 1) \in 0..RXSTOP_INIT
      BY <1>1, <1>2, <2>1 DEF Place, RingSize
    <3>2. (f.at + d - (RXSTOP_INIT + 1)) % 2 = 0
      BY <1>1, <1>2
    <3> QED
      BY <3>1, <3>2 DEF Words, Ring, RXSTART_INIT
  <2>2. CASE f.at + d <= RXSTOP_INIT
    <3>1. Place(f.at + d) = f.at + d /\ f.at + d \in 0..RXSTOP_INIT
      BY <1>1, <1>2, <2>2 DEF Place
    <3>2. (f.at + d) % 2 = 0
      BY <1>1, <1>2
    <3> QED
      BY <3>1, <3>2 DEF Words, Ring, RXSTART_INIT
  <2> QED
    BY <1>1, <1>2, <2>1, <2>2
<1>3. WordsOf(f) \subseteq Words
  BY <1>1, <1>2 DEF WordsOf
<1>4. NextOf(f) \in Words
  BY <1>1, <1>2 DEF NextOf
<1>5. HeaderOf(f) \subseteq WordsOf(f)
  BY <1>1 DEF HeaderOf, WordsOf
<1>6. f.at \in HeaderOf(f)
  <2>1. Place(f.at + 0) = f.at
    BY <1>1 DEF Place
  <2> QED
    BY <2>1 DEF HeaderOf
<1> QED
  BY <1>3, <1>4, <1>5, <1>6

LEMMA InitRing == Init => RingInv
<1> SUFFICES ASSUME Init PROVE RingInv
  OBVIOUS
<1>1. 0 \in Words
  BY ChipAssumption DEF Words, Ring, RXSTART_INIT
<1>2. frames = <<>> /\ Len(frames) = 0 /\ frames \in Seq(Frame)
  BY DEF Init
<1> QED
  BY <1>1, <1>2 DEF Init, RingInv, ChipInv, Steps

LEMMA RingInvImplies == RingInv => DriverFollowsChip
<1> SUFFICES ASSUME RingInv, pc \notin {"boot", "body", "free"}, ~smashed
             PROVE  /\ gNextPacketPtr = IF taken < Len(frames) THEN frames[taken + 1].at ELSE erxwrpt
                    /\ epktcnt = Len(frames) - taken + (IF pc = "dec" THEN 1 ELSE 0)
  BY DEF DriverFollowsChip
<1>1. DriverInv /\ pc \in Between /\ frames \in Seq(Frame)
  BY DEF RingInv, Steps, ChipInv
<1>2. taken \in Nat /\ Len(frames) \in Nat /\ (taken < Len(frames) <=> taken + 1 <= Len(frames))
  BY <1>1 DEF DriverInv
<1> QED
  BY <1>1, <1>2 DEF DriverInv, At

LEMMA ReceiveFrameStep == RingInv /\ ReceiveFrame => RingInv'
<1> SUFFICES ASSUME RingInv, ReceiveFrame PROVE RingInv'
  OBVIOUS
<1>1. PICK size \in FrameSizes, good \in BOOLEAN :
        LET f == [at |-> erxwrpt, size |-> size, good |-> good]
        IN  /\ mem' = [a \in Words |-> IF a \in WordsOf(f) THEN Len(frames) + 1 ELSE mem[a]]
            /\ erxwrpt' = NextOf(f)
            /\ epktcnt' = epktcnt + 1
            /\ frames' = Append(frames, f)
            /\ smashed' = (smashed \/ WordsOf(f) \cap UnreadWords # {})
  BY DEF ReceiveFrame
<1> DEFINE f == [at |-> erxwrpt, size |-> size, good |-> good]
<1>2. pc # "boot" /\ UNCHANGED <<pc, gNextPacketPtr, cur, taken>>
  BY DEF ReceiveFrame
<1>3. f \in Frame /\ f.at = erxwrpt
  BY DEF RingInv, ChipInv, Frame
<1>0. frames \in Seq(Frame) /\ Len(frames) \in Nat
  BY DEF RingInv, ChipInv
<1>4. PICK n \in Nat : n = Len(frames) /\ frames \in Seq(Frame)
  BY <1>0
<1> HIDE DEF f
<1>5. /\ frames' \in Seq(Frame) /\ Len(frames') = n + 1 /\ frames'[n + 1] = f
      /\ \A i \in 1..n : frames'[i] = frames[i]
  BY <1>1, <1>3, <1>4 DEF f
<1>6. At(n + 2)' = NextOf(f) /\ \A i \in 1..(n + 1) : At(i)' = At(i)
  <2>1. At(n + 2)' = NextOf(f)
    BY <1>1, <1>4, <1>5 DEF At, f
  <2>2. At(n + 1)' = At(n + 1)
    BY <1>3, <1>4, <1>5 DEF At
  <2>3. ASSUME NEW i \in 1..n PROVE At(i)' = At(i)
    BY <1>4, <1>5, <2>3 DEF At
  <2> QED
    BY <1>4, <2>1, <2>2, <2>3
<1>7. \A i \in 1..Len(frames') : NextOf(frames'[i]) = At(i + 1)'
  <2>1. ASSUME NEW i \in 1..n PROVE NextOf(frames'[i]) = At(i + 1)'
    <3>1. NextOf(frames[i]) = At(i + 1)
      BY <1>4, <2>1 DEF RingInv, ChipInv
    <3>2. i + 1 \in 1..(n + 1)
      BY <1>4, <2>1
    <3> QED
      BY <1>5, <1>6, <2>1, <3>1, <3>2
  <2>2. NextOf(frames'[n + 1]) = At(n + 2)'
    BY <1>5, <1>6
  <2>3. n + 1 + 1 = n + 2
    BY <1>4
  <2> QED
    BY <1>4, <1>5, <2>1, <2>2, <2>3
<1>8. /\ erxwrpt' \in Words /\ DOMAIN mem' = Words /\ epktcnt' \in Int
  BY <1>1, <1>3, RingFacts DEF f, RingInv, ChipInv
<1>9. ChipInv'
  BY <1>5, <1>7, <1>8 DEF ChipInv
<1>10. ASSUME ~smashed' PROVE DriverInv'
  <2>1. ~smashed /\ WordsOf(f) \cap UnreadWords = {}
    BY <1>1, <1>10 DEF f
  <2>2. DriverInv
    BY <1>2, <2>1 DEF RingInv
  <2>3. taken \in 0..n /\ taken' = taken
    BY <1>2, <1>4, <2>2 DEF DriverInv
  <2>4. ASSUME NEW i \in (taken + 1)..(n + 1), NEW a \in WordsOf(frames'[i]) PROVE mem'[a] = i
    <3>1. CASE i = n + 1
      <4>1. a \in WordsOf(f) /\ a \in Words
        BY <1>3, <1>5, <2>4, <3>1, RingFacts
      <4> QED
        BY <1>1, <1>4, <3>1, <4>1 DEF f
    <3>2. CASE i # n + 1
      <4>1. i \in (taken + 1)..n /\ i \in 1..n
        BY <1>4, <2>3, <3>2
      <4>2. frames'[i] = frames[i] /\ frames[i] \in Frame
        BY <1>4, <1>5, <4>1
      <4>3. a \in Words /\ a \in UnreadWords /\ a \notin WordsOf(f)
        BY <1>4, <2>1, <2>4, <4>1, <4>2, RingFacts DEF UnreadWords
      <4>4. mem[a] = i
        BY <1>4, <2>2, <2>4, <4>1, <4>2 DEF DriverInv, UnreadIntact
      <4> QED
        BY <1>1, <4>3, <4>4 DEF f
    <3> QED
      BY <3>1, <3>2
  <2>5. UnreadIntact'
    BY <1>5, <2>3, <2>4 DEF UnreadIntact
  <2>6. At(taken + 1)' = At(taken + 1) /\ (taken < n => At(taken + 2)' = At(taken + 2))
    BY <1>2, <1>4, <1>6, <2>3
  <2>7. epktcnt' = Len(frames') - taken' + (IF pc' = "dec" THEN 1 ELSE 0)
    <3>1. epktcnt = n - taken + (IF pc = "dec" THEN 1 ELSE 0)
      BY <1>4, <2>2 DEF DriverInv
    <3> QED
      BY <3>1, <1>1, <1>2, <1>4, <1>5, <2>3
  <2>8. taken' \in 0..Len(frames') /\ (taken < n => taken' < Len(frames'))
    BY <1>4, <1>5, <2>3
  <2> QED
    BY <1>2, <1>4, <2>2, <2>3, <2>5, <2>6, <2>7, <2>8 DEF DriverInv
<1>11. smashed' \in BOOLEAN /\ pc' \in Steps
  BY <1>1, <1>2 DEF RingInv
<1> QED
  BY <1>9, <1>10, <1>11 DEF RingInv

ChipVars == <<frames, erxwrpt, mem>>

LEMMA ChipStays ==
  ASSUME RingInv, UNCHANGED ChipVars, epktcnt' \in Int
  PROVE  ChipInv' /\ \A i : At(i)' = At(i)
BY DEF RingInv, ChipInv, ChipVars, At

\* The reset leaves an empty ring.
LEMMA InitChipStep == RingInv /\ InitChip => RingInv'
<1> SUFFICES ASSUME RingInv, InitChip PROVE RingInv'
  OBVIOUS
<1>1. /\ pc' = "idle" /\ gNextPacketPtr' = 0 /\ erxwrpt' = 0 /\ epktcnt' = 0
      /\ mem' = [a \in Words |-> 0] /\ frames' = <<>> /\ taken' = 0 /\ smashed' = FALSE
  BY DEF InitChip, RXSTART_INIT
<1>2. 0 \in Words
  BY ChipAssumption DEF Words, Ring, RXSTART_INIT
<1>3. Len(frames') = 0 /\ frames' \in Seq(Frame)
  BY <1>1
<1>4. ChipInv'
  BY <1>1, <1>2, <1>3 DEF ChipInv
<1>5. At(taken + 1)' = 0
  BY <1>1, <1>3 DEF At
<1>6. DriverInv'
  BY <1>1, <1>3, <1>5 DEF DriverInv, UnreadIntact, Between
<1> QED
  BY <1>1, <1>4, <1>6 DEF RingInv, Steps, Between

LEMMA RestartStep == RingInv /\ Restart => RingInv'
<1> SUFFICES ASSUME RingInv, Restart PROVE RingInv'
  OBVIOUS
<1>1. pc' = "boot" /\ UNCHANGED ChipVars /\ UNCHANGED <<epktcnt, smashed>>
  BY DEF Restart, ChipVars
<1>2. epktcnt' \in Int
  BY <1>1 DEF RingInv, ChipInv
<1> QED
  BY <1>1, <1>2, ChipStays DEF RingInv, Steps

\* Steps of the driver that leave the ring alone.
LEMMA ElsewhereStep ==
  ASSUME RingInv, UNCHANGED rx,
         \/ pc' = pc
         \/ pc \in {"idle", "send"} /\ pc' \in {"idle", "send"}
         \/ pc = "idle" /\ pc' = "header" /\ epktcnt # 0
  PROVE  RingInv'
<1>1. UNCHANGED <<gNextPacketPtr, cur, mem, erxwrpt, epktcnt, frames, taken, smashed>>
  BY DEF rx
<1>2. ChipInv' /\ \A i : At(i)' = At(i)
  BY <1>1, ChipStays DEF ChipVars, RingInv, ChipInv
<1>3. At(taken + 1)' = At(taken + 1) /\ At(taken + 2)' = At(taken + 2)
  BY <1>1, <1>2
<1>4. ASSUME pc # "boot", ~smashed PROVE DriverInv'
  <2>1. DriverInv
    BY <1>4 DEF RingInv
  <2>2. pc' = "header" /\ pc # "header" => taken < Len(frames)
    <3> SUFFICES ASSUME pc = "idle", epktcnt # 0 PROVE taken < Len(frames)
      OBVIOUS
    <3>1. epktcnt = Len(frames) - taken + 0
      BY <2>1 DEF DriverInv
    <3> QED
      BY <2>1, <3>1 DEF DriverInv, RingInv, ChipInv
  <2>3. UnreadIntact'
    BY <1>1, <2>1 DEF DriverInv, UnreadIntact
  <2> QED
    BY <1>1, <1>3, <2>1, <2>2, <2>3 DEF DriverInv, Between
<1>5. pc' \in Steps /\ (pc' # "boot" <=> pc # "boot")
  BY DEF RingInv, Steps, Between
<1> QED
  BY <1>1, <1>2, <1>4, <1>5 DEF RingInv

\* The header at the driver's pointer is the next frame's, and no other's.
LEMMA ReadHeaderStep == RingInv /\ ReadHeader => RingInv'
<1> SUFFICES ASSUME RingInv, ReadHeader PROVE RingInv'
  OBVIOUS
<1>1. /\ pc = "header" /\ pc' = "body" /\ UNCHANGED ChipVars
      /\ UNCHANGED <<epktcnt, taken, smashed>>
  BY DEF ReadHeader, ChipVars
<1>2. ChipInv' /\ \A i : At(i)' = At(i)
  BY <1>1, ChipStays DEF RingInv, ChipInv
<1>3. ASSUME ~smashed PROVE DriverInv'
  <2>1. DriverInv
    BY <1>1, <1>3 DEF RingInv
  <2>2. frames \in Seq(Frame) /\ taken \in Nat /\ taken + 1 \in 1..Len(frames)
    BY <1>1, <2>1 DEF RingInv, ChipInv, DriverInv
  <2> DEFINE n == taken + 1
             p == gNextPacketPtr
  <2>3. frames[n] \in Frame /\ p = frames[n].at
    BY <1>1, <2>1, <2>2 DEF DriverInv, Between, At
  <2>4. \A a \in WordsOf(frames[n]) : mem[a] = n
    BY <2>1, <2>2 DEF DriverInv, UnreadIntact
  <2>5. n \in HeaderAt(p)
    BY <2>2, <2>3, <2>4, RingFacts DEF HeaderAt
  <2>6. ASSUME NEW i \in HeaderAt(p) PROVE i = n
    <3>1. i \in 1..Len(frames) /\ frames[i].at = p /\ \A a \in HeaderOf(frames[i]) : mem[a] = i
      BY <2>6 DEF HeaderAt
    <3>2. frames[i] \in Frame
      BY <2>2, <3>1
    <3>3. mem[p] = i
      BY <3>1, <3>2, RingFacts
    <3>4. mem[p] = n
      BY <2>3, <2>4, RingFacts
    <3> QED
      BY <3>3, <3>4
  <2>7. cur' = n /\ gNextPacketPtr' = NextOf(frames[n])
    BY <2>5, <2>6 DEF ReadHeader
  <2>8. NextOf(frames[n]) = At(taken + 2)
    <3>1. NextOf(frames[n]) = At(n + 1)
      BY <2>2 DEF RingInv, ChipInv
    <3>2. n + 1 = taken + 2
      BY <2>2
    <3> QED
      BY <3>1, <3>2
  <2>9. At(taken + 2)' = At(taken + 2)
    BY <1>1, <1>2
  <2>10. UnreadIntact' /\ taken' \in 0..Len(frames') /\ taken' < Len(frames')
    BY <1>1, <2>1, <2>2 DEF ChipVars, DriverInv, UnreadIntact
  <2>11. epktcnt' = Len(frames') - taken' + (IF pc' = "dec" THEN 1 ELSE 0)
    BY <1>1, <2>1 DEF DriverInv, ChipVars
  <2> QED
    BY <1>1, <2>7, <2>8, <2>9, <2>10, <2>11 DEF DriverInv, Between
<1> QED
  BY <1>1, <1>2, <1>3 DEF RingInv, Steps, Between

LEMMA ReadBodyStep == RingInv /\ ReadBody => RingInv'
<1> SUFFICES ASSUME RingInv, ReadBody PROVE RingInv'
  OBVIOUS
<1>1. /\ pc = "body" /\ pc' = "free" /\ UNCHANGED ChipVars
      /\ UNCHANGED <<gNextPacketPtr, cur, epktcnt, taken, smashed>>
  BY DEF ReadBody, ChipVars
<1>2. ChipInv' /\ \A i : At(i)' = At(i)
  BY <1>1, ChipStays DEF RingInv, ChipInv
<1>3. At(taken + 2)' = At(taken + 2)
  BY <1>1, <1>2
<1>4. ASSUME ~smashed PROVE DriverInv'
  <2>1. DriverInv
    BY <1>1, <1>4 DEF RingInv
  <2>2. UnreadIntact'
    BY <1>1, <2>1 DEF ChipVars, DriverInv, UnreadIntact
  <2> QED
    BY <1>1, <1>3, <2>1, <2>2 DEF DriverInv, Between, ChipVars
<1> QED
  BY <1>1, <1>2, <1>4 DEF RingInv, Steps, Between

LEMMA ReleaseStep == RingInv /\ Release => RingInv'
<1> SUFFICES ASSUME RingInv, Release PROVE RingInv'
  OBVIOUS
<1>1. /\ pc = "free" /\ pc' = "dec" /\ UNCHANGED ChipVars /\ taken' = taken + 1
      /\ UNCHANGED <<gNextPacketPtr, epktcnt, smashed>>
  BY DEF Release, ChipVars
<1>2. ChipInv' /\ \A i : At(i)' = At(i)
  BY <1>1, ChipStays DEF RingInv, ChipInv
<1>3. ASSUME ~smashed PROVE DriverInv'
  <2>1. /\ DriverInv /\ taken \in Nat /\ Len(frames) \in Nat /\ taken < Len(frames)
        /\ gNextPacketPtr = At(taken + 2) /\ epktcnt = Len(frames) - taken + 0
    BY <1>1, <1>3 DEF RingInv, ChipInv, DriverInv
  <2>2. UnreadIntact'
    BY <1>1, <2>1 DEF ChipVars, DriverInv, UnreadIntact
  <2>3. At(taken + 1)' = At(taken + 2)
    <3>1. taken' + 1 = taken + 2
      BY <1>1, <2>1
    <3> QED
      BY <1>2, <3>1
  <2>4. taken' \in 0..Len(frames') /\ epktcnt' = Len(frames') - taken' + 1
    BY <1>1, <2>1 DEF ChipVars
  <2> QED
    BY <1>1, <2>1, <2>2, <2>3, <2>4 DEF DriverInv, Between
<1> QED
  BY <1>1, <1>2, <1>3 DEF RingInv, Steps, Between

LEMMA CountDownStep == RingInv /\ CountDown => RingInv'
<1> SUFFICES ASSUME RingInv, CountDown PROVE RingInv'
  OBVIOUS
<1>1. /\ pc = "dec" /\ pc' = "idle" /\ UNCHANGED ChipVars /\ epktcnt' = epktcnt - 1
      /\ UNCHANGED <<gNextPacketPtr, taken, smashed>>
  BY DEF CountDown, CountedDown, ChipVars
<1>2. ChipInv' /\ \A i : At(i)' = At(i)
  BY <1>1, ChipStays DEF RingInv, ChipInv
<1>3. ASSUME ~smashed PROVE DriverInv'
  <2>1. /\ DriverInv /\ taken \in 0..Len(frames) /\ Len(frames) \in Nat
        /\ gNextPacketPtr = At(taken + 1) /\ epktcnt = Len(frames) - taken + 1
    BY <1>1, <1>3 DEF RingInv, ChipInv, DriverInv, Between
  <2>2. UnreadIntact'
    BY <1>1, <2>1 DEF ChipVars, DriverInv, UnreadIntact
  <2>3. At(taken + 1)' = At(taken + 1)
    BY <1>1, <1>2
  <2>4. taken' \in 0..Len(frames') /\ epktcnt' = Len(frames') - taken' + 0
    BY <1>1, <2>1 DEF ChipVars
  <2> QED
    BY <1>1, <2>1, <2>2, <2>3, <2>4 DEF DriverInv, Between
<1> QED
  BY <1>1, <1>2, <1>3 DEF RingInv, Steps, Between

LEMMA NextKeepsRing == RingInv /\ [Next]_vars => RingInv'
<1> SUFFICES ASSUME RingInv, [Next]_vars PROVE RingInv'
  OBVIOUS
<1>1. CASE \/ TransmitHalf \/ TransmitEnd \/ TransmitError \/ LinkIsUp \/ SetBroadcast
           \/ UNCHANGED vars
  BY <1>1, ElsewhereStep DEF TransmitHalf, TransmitEnd, TransmitError, LinkIsUp, SetBroadcast, vars
<1>2. CASE CallSend
  BY <1>2, ElsewhereStep DEF CallSend
<1>3. CASE Send
  BY <1>3, ElsewhereStep DEF Send
<1>4. CASE Poll
  BY <1>4, ElsewhereStep DEF Poll, HasPacket
<1> QED
  BY <1>1, <1>2, <1>3, <1>4, ReceiveFrameStep, InitChipStep, RestartStep, ReadHeaderStep,
     ReadBodyStep, ReleaseStep, CountDownStep DEF Next

\* While no frame is overwritten, the driver's pointer and the chip's count name the
\* frames that were not taken, whatever arrives between the steps of
\* enc28j60PacketReceive() and whenever the chip or the program is reset.
THEOREM DriverAlwaysFollowsChip == Spec => []DriverFollowsChip
BY InitRing, NextKeepsRing, RingInvImplies, PTL DEF Spec

\* A frame begins at an even address, so the address before it is odd in 13 bits too.
LEMMA OddIsReleased ==
  ASSUME NEW next \in Words
  PROVE  ReleasedTo(next) % 2 = 1
<1>1. RXSTOP_INIT \in Nat /\ RXSTOP_INIT % 2 = 1 /\ next \in 0..RXSTOP_INIT /\ next % 2 = 0
  BY ChipAssumption DEF Words, Ring, RXSTART_INIT
<1>2. next - 1 \in Int /\ (next - 1) % 2 = 1
  BY <1>1
<1>3. ((next - 1) % 8192) % 2 = 1
  BY <1>2
<1> QED
  BY <1>1, <1>3 DEF ReleasedTo, RegisterWidth

LEMMA ReleaseIsOdd ==
  ASSUME RingInv, Release, ~smashed
  PROVE  erxrdpt' % 2 = 1
<1>1. /\ frames \in Seq(Frame) /\ erxwrpt \in Words
      /\ taken \in Nat /\ Len(frames) \in Nat /\ gNextPacketPtr = At(taken + 2)
  BY DEF RingInv, ChipInv, DriverInv, Release
<1>2. ASSUME NEW f \in Frame PROVE f.at \in Words
  BY DEF Frame
<1>3. At(taken + 2) \in Words
  <2>1. CASE taken + 2 <= Len(frames)
    <3>1. frames[taken + 2] \in Frame
      BY <1>1, <2>1
    <3> QED
      BY <1>2, <2>1, <3>1 DEF At
  <2>2. CASE ~(taken + 2 <= Len(frames))
    BY <1>1, <2>2 DEF At
  <2> QED
    BY <2>1, <2>2
<1> QED
  BY <1>1, <1>3, OddIsReleased DEF Release

\* Errata 13: ERXRDPT is never released to an even address (enc28j60PacketReceive()).
THEOREM AlwaysReleasesOddAddress == Spec => ReleasesOddAddress
<1>1. RingInv /\ [Next]_vars => [erxrdpt' # RXSTART_INIT /\ ~smashed => erxrdpt' % 2 = 1]_erxrdpt
  <2> SUFFICES ASSUME RingInv, [Next]_vars, erxrdpt' # erxrdpt, erxrdpt' # RXSTART_INIT, ~smashed
               PROVE  erxrdpt' % 2 = 1
    OBVIOUS
  <2>1. Release
    BY DEF Next, vars, rx, ReceiveFrame, TransmitHalf, TransmitEnd, TransmitError, InitChip,
           LinkIsUp, SetBroadcast, Restart, CallSend, Send, Poll, ReadHeader, ReadBody, CountDown
  <2> QED
    BY <2>1, ReleaseIsOdd
<1> QED
  BY <1>1, InitRing, NextKeepsRing, PTL DEF Spec, ReleasesOddAddress

-------------------------------------------------------------------------------
(* The banks of the control registers. *)

Accessing == [reg : Registers, selects : BOOLEAN]

\* The driver's copy is right, and every access so far was.
Selected(b) == b \in BankTypes /\ b.cached = b.selected /\ ~b.astray

LEMMA BanksHoldRegisters ==
  ASSUME NEW reg \in Registers
  PROVE  BankOf(reg) \in 0..3
<1>1. CASE reg \in AllBanks
  BY <1>1 DEF BankOf
<1>2. CASE reg \notin AllBanks
  <2>1. \E i \in 1..4 : reg \in Banks[i]
    BY <1>2 DEF Registers
  <2> DEFINE k == CHOOSE i \in 1..4 : reg \in Banks[i]
  <2>2. k \in 1..4
    BY <2>1
  <2>3. BankOf(reg) = k - 1
    BY <1>2 DEF BankOf
  <2> HIDE DEF k
  <2> QED
    BY <2>2, <2>3
<1> QED
  BY <1>1, <1>2

\* An access that selects its bank is right whatever was selected, if the copy is right;
\* so is one to a register of all banks, and one to the bank selected last.
LEMMA AccessSelects ==
  ASSUME NEW b, NEW a \in Accessing,
         \/ Selected(b)
         \/ b \in BankTypes /\ ~b.astray /\ b.selected = 0 /\ a.selects /\ BankOf(a.reg) = 0,
         a.selects \/ a.reg \in AllBanks \/ BankOf(a.reg) = b.selected
  PROVE  /\ Selected(Access(b, a))
         /\ a.selects => Access(b, a).selected = BankOf(a.reg)
<1> DEFINE n == BankOf(a.reg)
           c == IF a.selects THEN SetBank(b, a.reg) ELSE b
           d == [c EXCEPT !.astray = @ \/ (a.reg \notin AllBanks /\ c.selected # n)]
<1>1. b \in BankTypes /\ n \in 0..3 /\ a.reg \in Registers /\ a.selects \in BOOLEAN
  BY BanksHoldRegisters DEF Selected, Accessing
<1>2. Access(b, a) = d
  BY DEF Access
<1>3. /\ c \in BankTypes /\ c.cached = c.selected /\ ~c.astray
      /\ a.selects => c.selected = n
  <2>1. CASE ~a.selects
    BY <1>1, <2>1 DEF Selected
  <2>2. CASE a.selects
    <3>1. c = IF n = b.cached THEN b ELSE [b EXCEPT !.cached = n, !.selected = n]
      BY <2>2 DEF SetBank
    <3>2. CASE n = b.cached
      BY <1>1, <2>2, <3>1, <3>2 DEF Selected, BankTypes
    <3>3. CASE n # b.cached
      <4>1. /\ c = [b EXCEPT !.cached = n, !.selected = n]
            /\ b = [cached |-> b.cached, selected |-> b.selected, astray |-> b.astray]
        BY <1>1, <3>1, <3>3 DEF BankTypes
      <4>2. [b EXCEPT !.cached = n] = [cached |-> n, selected |-> b.selected, astray |-> b.astray]
        BY <4>1
      <4>3. c = [[b EXCEPT !.cached = n] EXCEPT !.selected = n]
        BY <4>1
      <4>4. c = [cached |-> n, selected |-> n, astray |-> b.astray]
        BY <4>2, <4>3
      <4> QED
        BY <1>1, <4>4 DEF Selected, BankTypes
    <3> QED
      BY <3>2, <3>3
  <2> QED
    BY <1>1, <2>1, <2>2
<1> HIDE DEF c
<1>4. ~(a.reg \notin AllBanks /\ c.selected # n)
  <2>1. CASE a.selects
    BY <1>3, <2>1
  <2>2. CASE ~a.selects
    BY <2>2 DEF c
  <2> QED
    BY <1>1, <2>1, <2>2
<1>5. d = [cached |-> c.cached, selected |-> c.selected, astray |-> FALSE]
  <2>1. c = [cached |-> c.cached, selected |-> c.selected, astray |-> c.astray]
    BY <1>3 DEF BankTypes
  <2> DEFINE v == c.astray \/ (a.reg \notin AllBanks /\ c.selected # n)
  <2>2. v = FALSE
    BY <1>3, <1>4
  <2>3. d = [c EXCEPT !.astray = v]
    OBVIOUS
  <2> HIDE DEF v, d
  <2> QED
    BY <2>1, <2>2, <2>3
<1> HIDE DEF d
<1> QED
  BY <1>2, <1>3, <1>5 DEF Selected, BankTypes

\* The recursion of Accesses() unfolded: the banks after each access.
LEMMA AccessByAccess ==
  ASSUME NEW b, NEW accesses \in Seq(Accessing)
  PROVE  \E after : /\ after[0] = b
                    /\ \A i \in 1..Len(accesses) : after[i] = Accessed(accesses[i])[after[i - 1]]
                    /\ Accesses(b, accesses) = after[Len(accesses)]
<1> DEFINE n == Len(accesses)
           Is(g, k) == g = [i \in 0..k |-> IF i = 0 THEN b ELSE Accessed(accesses[i])[g[i - 1]]]
           S == {k \in 0..n : \E g : Is(g, k)}
           run == CHOOSE g : Is(g, n)
<1>1. n \in Nat
  OBVIOUS
<1>2. 0 \in S
  <2> DEFINE g == [i \in 0..0 |-> b]
  <2>1. \A i \in 0..0 : i = 0
    OBVIOUS
  <2>2. Is(g, 0)
    BY <2>1
  <2> HIDE DEF g
  <2> QED
    BY <1>1, <2>2
<1>3. \A k \in 1..n : k - 1 \in S => k \in S
  <2> SUFFICES ASSUME NEW k \in 1..n, k - 1 \in S PROVE k \in S
    OBVIOUS
  <2>1. PICK g : Is(g, k - 1)
    OBVIOUS
  <2> DEFINE h == [i \in 0..k |-> IF i < k THEN g[i] ELSE Accessed(accesses[k])[g[k - 1]]]
  <2>2. ASSUME NEW i \in 0..k
        PROVE  h[i] = IF i = 0 THEN b ELSE Accessed(accesses[i])[h[i - 1]]
    <3>1. CASE i = k
      <4>1. k - 1 \in 0..k /\ k - 1 < k /\ k # 0
        BY <1>1
      <4>2. h[k - 1] = g[k - 1]
        BY <4>1
      <4>3. h[k] = Accessed(accesses[k])[g[k - 1]]
        OBVIOUS
      <4> QED
        BY <3>1, <4>1, <4>2, <4>3
    <3>2. CASE i = 0
      <4>1. 0 \in 0..(k - 1) /\ 0 < k
        BY <1>1
      <4>2. g[0] = b
        BY <2>1, <4>1
      <4> QED
        BY <3>2, <4>1, <4>2
    <3>3. CASE i # k /\ i # 0
      <4>1. i \in 0..(k - 1) /\ i - 1 \in 0..k /\ i < k /\ i - 1 < k
        BY <1>1, <3>3
      <4>2. g[i] = Accessed(accesses[i])[g[i - 1]]
        BY <2>1, <3>3, <4>1
      <4>3. h[i] = g[i] /\ h[i - 1] = g[i - 1]
        BY <4>1
      <4> QED
        BY <3>3, <4>2, <4>3
    <3> QED
      BY <3>1, <3>2, <3>3
  <2>3. h = [i \in 0..k |-> h[i]]
    OBVIOUS
  <2> HIDE DEF h
  <2>4. Is(h, k)
    BY <2>2, <2>3
  <2> QED
    BY <1>1, <2>4
<1>4. n \in S
  <2> HIDE DEF S
  <2>1. 0..n \subseteq S
    BY <1>1, <1>2, <1>3, IntervalInduction
  <2> QED
    BY <1>1, <2>1
<1>5. Is(run, n)
  BY <1>4
<1>6. Accesses(b, accesses) = run[n]
  BY DEF Accesses
<1> HIDE DEF run
<1>7. run[0] = b /\ \A i \in 1..n : run[i] = Accessed(accesses[i])[run[i - 1]]
  BY <1>1, <1>5
<1> QED
  BY <1>6, <1>7

\* An access that selects its bank, is to a register of all banks, or goes to the bank
\* that the access before selected.
Careful(accesses) ==
  /\ accesses \in Seq(Accessing)
  /\ \A i \in 1..Len(accesses) :
       \/ accesses[i].selects
       \/ accesses[i].reg \in AllBanks
       \/ i > 1 /\ accesses[i - 1].selects /\ BankOf(accesses[i].reg) = BankOf(accesses[i - 1].reg)

\* The copy is right, or the first access makes it so, as after a reset of the chip.
StartsRight(b, accesses) ==
  \/ Selected(b)
  \/ /\ b \in BankTypes /\ ~b.astray /\ b.selected = 0
     /\ Len(accesses) > 0 /\ accesses[1].selects /\ BankOf(accesses[1].reg) = 0

LEMMA CarefulAccesses ==
  ASSUME NEW b, NEW accesses, Careful(accesses), StartsRight(b, accesses)
  PROVE  Selected(Accesses(b, accesses))
<1>1. accesses \in Seq(Accessing) /\ Len(accesses) \in Nat /\ \A i \in 1..Len(accesses) : accesses[i] \in Accessing
  BY DEF Careful
<1>2. PICK after : /\ after[0] = b
                   /\ \A i \in 1..Len(accesses) : after[i] = Accessed(accesses[i])[after[i - 1]]
                   /\ Accesses(b, accesses) = after[Len(accesses)]
  BY <1>1, AccessByAccess
<1> DEFINE S == {i \in 0..Len(accesses) :
                   \/ i = 0
                   \/ Selected(after[i]) /\ (accesses[i].selects => after[i].selected = BankOf(accesses[i].reg))}
<1>3. ASSUME NEW i \in 1..Len(accesses), i - 1 \in S
      PROVE  i \in S
  <2>1. /\ after[i] = Accessed(accesses[i])[after[i - 1]] /\ accesses[i] \in Accessing
        /\ after[i - 1] \in BankTypes => after[i] = Access(after[i - 1], accesses[i])
    BY <1>1, <1>2 DEF Accessed
  <2>2. CASE i = 1
    <3>1. accesses[1].selects \/ accesses[1].reg \in AllBanks
      BY <2>2 DEF Careful
    <3>2. after[1] = Access(b, accesses[1]) /\ accesses[1] \in Accessing
      <4>1. b \in BankTypes
        BY DEF StartsRight, Selected
      <4> QED
        BY <1>2, <2>1, <2>2, <4>1
    <3>3. \/ Selected(b)
          \/ b \in BankTypes /\ ~b.astray /\ b.selected = 0 /\ accesses[1].selects /\ BankOf(accesses[1].reg) = 0
      BY DEF StartsRight
    <3>4. Selected(after[1]) /\ (accesses[1].selects => after[1].selected = BankOf(accesses[1].reg))
      BY <3>1, <3>2, <3>3, AccessSelects
    <3> QED
      BY <2>2, <3>4
  <2>3. CASE i > 1
    <3>1. /\ Selected(after[i - 1])
          /\ accesses[i - 1].selects => after[i - 1].selected = BankOf(accesses[i - 1].reg)
      BY <1>3, <2>3
    <3>2. accesses[i].selects \/ accesses[i].reg \in AllBanks \/ BankOf(accesses[i].reg) = after[i - 1].selected
      BY <2>3, <3>1 DEF Careful
    <3>3. after[i] = Access(after[i - 1], accesses[i]) /\ accesses[i] \in Accessing
      BY <2>1, <3>1 DEF Selected
    <3>4. Selected(after[i]) /\ (accesses[i].selects => after[i].selected = BankOf(accesses[i].reg))
      BY <3>1, <3>2, <3>3, AccessSelects
    <3> QED
      BY <1>1, <3>4
  <2> QED
    BY <1>1, <2>2, <2>3
<1>4. Len(accesses) \in S
  <2>1. 0 \in S
    BY <1>1
  <2> HIDE DEF S
  <2>2. 0..Len(accesses) \subseteq S
    BY <1>1, <1>3, <2>1, IntervalInduction
  <2> QED
    BY <1>1, <2>2
<1>5. CASE Len(accesses) = 0
  BY <1>2, <1>5 DEF StartsRight
<1>6. CASE Len(accesses) # 0
  BY <1>2, <1>4, <1>6
<1> QED
  BY <1>5, <1>6

\* Which banks the accesses of the driver are in.
LEMMA RegisterFacts ==
  /\ {"ERXST", "ERXRDPT", "ERXND", "ETXST", "ETXND", "EWRPT", "ERDPT", "ERXFCON", "EPMM", "EPMCS",
      "EPKTCNT", "MACON1", "MACON2", "MACON3", "MAIPG", "MABBIPG", "MAMXFL", "MAADR", "MISTAT",
      "MIREGADR", "MICMD", "MIRD", "MIWR", "ECON1", "ECON2", "EIE", "EIR"} \subseteq Registers
  /\ BankOf("ERXST") = 0
  /\ BankOf("MACON2") = BankOf("MACON3")
<1>1. /\ Banks[1] = {"ERDPT", "EWRPT", "ETXST", "ETXND", "ERXST", "ERXND", "ERXRDPT"}
      /\ Banks[2] = {"EPMM", "EPMCS", "ERXFCON", "EPKTCNT"}
      /\ Banks[3] = {"MACON1", "MACON2", "MACON3", "MABBIPG", "MAIPG", "MAMXFL", "MICMD", "MIREGADR",
                     "MIWR", "MIRD"}
      /\ Banks[4] = {"MAADR", "MISTAT"}
  BY DEF Banks
<1>2. \A i \in 1..4 : Banks[i] \subseteq Registers
  BY DEF Registers
<1>3. AllBanks \subseteq Registers
  BY DEF Registers
<1>4. Banks[1] \cup Banks[2] \cup Banks[3] \cup Banks[4] \cup AllBanks \subseteq Registers
  BY <1>2, <1>3
<1>5. /\ "ERXST" \in Banks[1] /\ "ERXST" \notin Banks[2] /\ "ERXST" \notin Banks[3]
      /\ "ERXST" \notin Banks[4] /\ "ERXST" \notin AllBanks
  BY <1>1 DEF AllBanks
<1>6. \A reg \in {"MACON2", "MACON3"} : /\ reg \in Banks[3] /\ reg \notin Banks[1] /\ reg \notin Banks[2]
                                        /\ reg \notin Banks[4] /\ reg \notin AllBanks
  BY <1>1 DEF AllBanks
<1>7. 1..4 = {1, 2, 3, 4}
  OBVIOUS
<1>8. BankOf("ERXST") = 0
  <2>1. \A i \in 1..4 : "ERXST" \in Banks[i] <=> i = 1
    BY <1>5, <1>7
  <2>2. (CHOOSE i \in 1..4 : "ERXST" \in Banks[i]) = 1
    BY <2>1
  <2> QED
    BY <1>5, <2>2 DEF BankOf
<1>9. ASSUME NEW reg \in {"MACON2", "MACON3"} PROVE BankOf(reg) = 2
  <2>1. \A i \in 1..4 : reg \in Banks[i] <=> i = 3
    BY <1>6, <1>7
  <2>2. (CHOOSE i \in 1..4 : reg \in Banks[i]) = 3
    BY <2>1
  <2>3. reg \notin AllBanks
    BY <1>6
  <2> QED
    BY <2>2, <2>3 DEF BankOf
<1> QED
  BY <1>1, <1>4, <1>8, <1>9 DEF AllBanks

LEMMA EachIsCareful ==
  ASSUME NEW regs \in Seq(Registers)
  PROVE  /\ Careful(Each(regs)) /\ Len(Each(regs)) = Len(regs)
         /\ \A i \in 1..Len(regs) : Each(regs)[i] = Via(regs[i])
<1> DEFINE s == Each(regs)
<1>1. s = [i \in 1..Len(regs) |-> Via(regs[i])]
  BY DEF Each
<1>2. \A i \in 1..Len(regs) : Via(regs[i]) \in Accessing /\ Via(regs[i]).selects
  BY DEF Via, Accessing
<1> HIDE DEF s
<1>3. s \in Seq(Accessing) /\ Len(s) = Len(regs) /\ \A i \in 1..Len(regs) : s[i] = Via(regs[i])
  BY <1>1, <1>2
<1>4. Careful(s)
  BY <1>2, <1>3 DEF Careful
<1> QED
  BY <1>3, <1>4 DEF s

LEMMA CarefulBehind ==
  ASSUME NEW s, Careful(s), NEW t, Careful(t)
  PROVE  /\ Careful(s \o t) /\ Len(s \o t) = Len(s) + Len(t)
         /\ \A i \in 1..Len(s) + Len(t) : (s \o t)[i] = IF i <= Len(s) THEN s[i] ELSE t[i - Len(s)]
<1> DEFINE u == s \o t
<1>1. s \in Seq(Accessing) /\ t \in Seq(Accessing) /\ Len(s) \in Nat /\ Len(t) \in Nat
  BY DEF Careful
<1>2. /\ u \in Seq(Accessing) /\ Len(u) = Len(s) + Len(t)
      /\ \A i \in 1..Len(s) + Len(t) : u[i] = IF i <= Len(s) THEN s[i] ELSE t[i - Len(s)]
  BY <1>1, ConcatProperties
<1> HIDE DEF u
<1>3. ASSUME NEW i \in 1..Len(u)
      PROVE  \/ u[i].selects
             \/ u[i].reg \in AllBanks
             \/ i > 1 /\ u[i - 1].selects /\ BankOf(u[i].reg) = BankOf(u[i - 1].reg)
  <2>1. CASE i <= Len(s)
    <3>1. i \in 1..Len(s) /\ u[i] = s[i] /\ (i > 1 => u[i - 1] = s[i - 1])
      BY <1>1, <1>2, <2>1
    <3> QED
      BY <3>1 DEF Careful
  <2>2. CASE ~(i <= Len(s))
    <3> DEFINE j == i - Len(s)
    <3>1. j \in 1..Len(t) /\ u[i] = t[j] /\ (j > 1 => i > 1 /\ u[i - 1] = t[j - 1])
      <4>1. j \in 1..Len(t) /\ i \in 1..Len(s) + Len(t) /\ u[i] = t[j]
        BY <1>1, <1>2, <2>2
      <4>2. ASSUME j > 1 PROVE i > 1 /\ u[i - 1] = t[j - 1]
        <5>1. i - 1 \in 1..Len(s) + Len(t) /\ ~(i - 1 <= Len(s)) /\ i - 1 - Len(s) = j - 1 /\ i > 1
          BY <1>1, <4>1, <4>2
        <5> QED
          BY <1>2, <5>1
      <4> QED
        BY <4>1, <4>2
    <3> HIDE DEF j
    <3> QED
      BY <3>1 DEF Careful
  <2> QED
    BY <2>1, <2>2
<1>4. Careful(u)
  BY <1>2, <1>3 DEF Careful
<1> QED
  BY <1>2, <1>4 DEF u

LEMMA DirectIsCareful ==
  ASSUME NEW reg \in AllBanks
  PROVE  Careful(<<Direct(reg)>>) /\ Careful(<<Via(reg)>>)
<1>1. Direct(reg) \in Accessing /\ Via(reg) \in Accessing
  BY DEF Direct, Via, Accessing, Registers
<1>2. Direct(reg).reg = reg /\ Via(reg).reg = reg
  BY DEF Direct, Via
<1>3. ASSUME NEW a \in Accessing, a.reg \in AllBanks PROVE Careful(<<a>>)
  BY <1>3 DEF Careful
<1> QED
  BY <1>1, <1>2, <1>3

LEMMA PhyIsCareful == Careful(PhyRead) /\ Careful(PhyWrite) /\ Careful(ChangeBroadcast)
<1>1. <<"MIREGADR", "MICMD", "MISTAT", "MICMD", "MIRD">> \in Seq(Registers)
  BY RegisterFacts
<1>2. <<"MIREGADR", "MIWR", "MISTAT">> \in Seq(Registers)
  BY RegisterFacts
<1>3. <<"ERXFCON", "ERXFCON">> \in Seq(Registers)
  BY RegisterFacts
<1> QED
  BY <1>1, <1>2, <1>3, EachIsCareful DEF PhyRead, PhyWrite, ChangeBroadcast

\* The reset selects bank 0 first; MACON3 is accessed behind MACON2.
LEMMA InitIsCareful ==
  LET all == InitAccesses \o PhyWrite
  IN  Careful(all) /\ Len(all) > 0 /\ all[1] = Via("ERXST")
<1> DEFINE first  == <<"ERXST", "ERXRDPT", "ERXND", "ETXST", "ETXND", "ERXFCON", "EPMM", "EPMCS",
                       "MACON1", "MACON2">>
           second == <<"MAIPG", "MABBIPG", "MAMXFL", "MAADR">>
           third  == <<Via("ECON1"), Direct("EIE"), Direct("ECON1")>>
           s1 == Each(first)
           s2 == s1 \o <<Direct("MACON3")>>
           s3 == s2 \o Each(second)
           s4 == s3 \o PhyWrite
           s5 == s4 \o third
<1>1. first \in Seq(Registers) /\ Len(first) = 10 /\ first[1] = "ERXST" /\ first[10] = "MACON2"
  BY RegisterFacts
<1>2. second \in Seq(Registers)
  BY RegisterFacts
<1>3. Careful(third)
  <2>1. /\ third \in Seq(Accessing) /\ Len(third) = 3
        /\ third[1] = Via("ECON1") /\ third[2] = Direct("EIE") /\ third[3] = Direct("ECON1")
    BY RegisterFacts DEF Via, Direct, Accessing
  <2>2. \A i \in 1..3 : third[i].reg \in AllBanks
    BY <2>1 DEF Via, Direct, AllBanks
  <2> HIDE DEF third
  <2> QED
    BY <2>1, <2>2 DEF Careful
<1> HIDE DEF first, second, third
<1>4. Careful(s1) /\ Len(s1) = 10 /\ s1[1] = Via("ERXST") /\ s1[10] = Via("MACON2")
  BY <1>1, EachIsCareful
<1> HIDE DEF s1
<1>5. Careful(s2) /\ Len(s2) = 11 /\ s2[1] = Via("ERXST")
  <2> DEFINE one == <<Direct("MACON3")>>
  <2>1. one \in Seq(Accessing) /\ Len(one) = 1 /\ one[1] = Direct("MACON3")
    BY RegisterFacts DEF Direct, Accessing
  <2>2. s1 \in Seq(Accessing)
    BY <1>4 DEF Careful
  <2> HIDE DEF one
  <2>3. /\ s1 \o one \in Seq(Accessing) /\ Len(s1 \o one) = 11
        /\ \A i \in 1..11 : (s1 \o one)[i] = IF i <= 10 THEN s1[i] ELSE one[i - 10]
    <3>1. /\ s1 \o one \in Seq(Accessing) /\ Len(s1 \o one) = Len(s1) + Len(one)
          /\ \A i \in 1..Len(s1) + Len(one) :
               (s1 \o one)[i] = IF i <= Len(s1) THEN s1[i] ELSE one[i - Len(s1)]
      BY <2>1, <2>2, ConcatProperties
    <3>2. Len(s1) + Len(one) = 11
      BY <1>4, <2>1
    <3> QED
      BY <1>4, <3>1, <3>2
  <2>4. s2 = s1 \o one
    BY DEF one
  <2> HIDE DEF s2
  <2>5. /\ s2 \in Seq(Accessing) /\ Len(s2) = 11
        /\ s2[11] = Direct("MACON3") /\ \A i \in 1..10 : s2[i] = s1[i]
    <3>1. 11 \in 1..11 /\ ~(11 <= 10) /\ 11 - 10 = 1
      OBVIOUS
    <3>2. (s1 \o one)[11] = one[1]
      BY <2>3, <3>1
    <3>3. \A i \in 1..10 : i \in 1..11 /\ i <= 10
      OBVIOUS
    <3>4. \A i \in 1..10 : (s1 \o one)[i] = s1[i]
      BY <2>3, <3>3
    <3> QED
      BY <2>1, <2>3, <2>4, <3>2, <3>4
  <2>6. ASSUME NEW i \in 1..11
        PROVE  \/ s2[i].selects
               \/ s2[i].reg \in AllBanks
               \/ i > 1 /\ s2[i - 1].selects /\ BankOf(s2[i].reg) = BankOf(s2[i - 1].reg)
    <3>1. CASE i = 11
      <4>1. s2[10] = Via("MACON2") /\ s2[11] = Direct("MACON3") /\ i - 1 = 10
        BY <1>4, <2>5, <3>1
      <4>2. s2[10].selects /\ s2[10].reg = "MACON2" /\ s2[11].reg = "MACON3"
        BY <4>1 DEF Via, Direct
      <4> QED
        BY <3>1, <4>1, <4>2, RegisterFacts
    <3>2. CASE i # 11
      <4>1. i \in 1..10 /\ s2[i] = s1[i] /\ (i > 1 => s2[i - 1] = s1[i - 1])
        BY <2>5, <3>2
      <4> QED
        BY <1>4, <4>1 DEF Careful
    <3> QED
      BY <3>1, <3>2
  <2> QED
    BY <1>4, <2>5, <2>6 DEF Careful
<1> HIDE DEF s2
<1>6. Careful(s3) /\ Len(s3) \in Nat /\ Len(s3) > 0 /\ s3[1] = Via("ERXST")
  <2>1. Careful(Each(second)) /\ Len(Each(second)) \in Nat
    BY <1>2, EachIsCareful
  <2> QED
    BY <1>5, <2>1, CarefulBehind
<1> HIDE DEF s3
<1>7. Careful(PhyWrite) /\ Len(PhyWrite) \in Nat /\ Len(third) \in Nat
  BY <1>3, PhyIsCareful DEF Careful
<1>8. Careful(s4) /\ Len(s4) \in Nat /\ Len(s4) > 0 /\ s4[1] = Via("ERXST")
  BY <1>6, <1>7, CarefulBehind
<1> HIDE DEF s4
<1>9. Careful(s5) /\ Len(s5) \in Nat /\ Len(s5) > 0 /\ s5[1] = Via("ERXST")
  BY <1>3, <1>7, <1>8, CarefulBehind
<1>10. InitAccesses = s5
  BY DEF InitAccesses, s1, s2, s3, s4, s5, first, second, third
<1> HIDE DEF s5
<1>11. Careful(s5 \o PhyWrite) /\ Len(s5 \o PhyWrite) > 0 /\ (s5 \o PhyWrite)[1] = Via("ERXST")
  BY <1>7, <1>9, CarefulBehind
<1> QED
  BY <1>10, <1>11

LEMMA SendIsCareful ==
  /\ Careful(WaitForTransmitter \o ResetTransmitter \o StartTransmitter)
  /\ Careful(WaitForTransmitter \o <<>> \o StartTransmitter)
<1> DEFINE one == <<Direct("ECON1")>>
           regs == <<"EWRPT", "ETXND">>
<1>1. Careful(WaitForTransmitter)
  <2>1. /\ WaitForTransmitter \in Seq(Accessing) /\ Len(WaitForTransmitter) = 2
        /\ WaitForTransmitter[1] = Direct("ECON1") /\ WaitForTransmitter[2] = Via("EIR")
    BY RegisterFacts DEF WaitForTransmitter, Via, Direct, Accessing
  <2>2. \A i \in 1..2 : WaitForTransmitter[i].reg \in AllBanks
    BY <2>1 DEF Via, Direct, AllBanks
  <2> QED
    BY <2>1, <2>2 DEF Careful
<1>2. Careful(ResetTransmitter)
  <2>1. /\ ResetTransmitter \in Seq(Accessing) /\ Len(ResetTransmitter) = 3
        /\ ResetTransmitter[1] = Direct("ECON1") /\ ResetTransmitter[2] = Direct("ECON1")
        /\ ResetTransmitter[3] = Direct("EIR")
    BY RegisterFacts DEF ResetTransmitter, Direct, Accessing
  <2>2. \A i \in 1..3 : ResetTransmitter[i].reg \in AllBanks
    BY <2>1 DEF Direct, AllBanks
  <2> QED
    BY <2>1, <2>2 DEF Careful
<1>3. Careful(StartTransmitter)
  <2>1. regs \in Seq(Registers)
    BY RegisterFacts
  <2> HIDE DEF regs
  <2>2. Careful(Each(regs))
    BY <2>1, EachIsCareful
  <2>3. Careful(one)
    BY DirectIsCareful DEF AllBanks
  <2> HIDE DEF one
  <2>4. StartTransmitter = Each(regs) \o one
    BY DEF StartTransmitter, regs, one
  <2> QED
    BY <2>2, <2>3, <2>4, CarefulBehind
<1>4. WaitForTransmitter \o <<>> = WaitForTransmitter
  BY <1>1, ConcatEmptySeq DEF Careful
<1> QED
  BY <1>1, <1>2, <1>3, <1>4, CarefulBehind

\* Outside of the boot the driver's copy of the bank is right; the reset of the chip needs
\* no right copy.
BankInv ==
  /\ bank \in BankTypes /\ ~bank.astray
  /\ pc # "boot" => bank.cached = bank.selected

LEMMA ResetBanks ==
  ASSUME NEW b \in BankTypes, ~b.astray
  PROVE  Selected(Accesses(BankReset(b), InitAccesses \o PhyWrite))
<1>1. BankReset(b) = [cached |-> b.cached, selected |-> 0, astray |-> b.astray]
  BY DEF BankReset, BankTypes
<1>2. BankReset(b) \in BankTypes /\ ~BankReset(b).astray /\ BankReset(b).selected = 0
  BY <1>1 DEF BankTypes
<1> DEFINE all == InitAccesses \o PhyWrite
<1>3. Careful(all) /\ Len(all) > 0 /\ all[1].selects /\ BankOf(all[1].reg) = 0
  BY InitIsCareful, RegisterFacts DEF Via
<1> HIDE DEF all
<1>4. Selected(Accesses(BankReset(b), all))
  BY <1>2, <1>3, CarefulAccesses DEF StartsRight
<1> QED
  BY <1>4 DEF all

LEMMA CarefulSteps ==
  ASSUME NEW accesses, Careful(accesses), BankInv, pc # "boot", bank' = Accesses(bank, accesses)
  PROVE  BankInv'
<1>1. Selected(bank)
  BY DEF BankInv, Selected
<1>2. Selected(bank')
  BY <1>1, CarefulAccesses DEF StartsRight
<1> QED
  BY <1>2 DEF BankInv, Selected

LEMMA ReceiveIsCareful ==
  /\ Careful(<<Via("EPKTCNT")>> \o <<Via("ERDPT")>>) /\ Careful(<<Via("EPKTCNT")>> \o <<>>)
  /\ Careful(<<Via("ERXRDPT")>>) /\ Careful(<<Direct("ECON2")>>)
<1>1. ASSUME NEW reg \in Registers PROVE Careful(<<Via(reg)>>)
  <2> DEFINE one == <<Via(reg)>>
  <2>1. one \in Seq(Accessing) /\ Len(one) = 1 /\ one[1] = Via(reg) /\ Via(reg).selects
    BY DEF Via, Accessing
  <2>2. Careful(one)
    <3> HIDE DEF one
    <3> QED
      BY <2>1 DEF Careful
  <2> QED
    BY <2>2
<1> DEFINE one == <<Via("EPKTCNT")>>
           two == <<Via("ERDPT")>>
<1>2. Careful(one) /\ Careful(two) /\ Careful(<<Via("ERXRDPT")>>)
  BY <1>1, RegisterFacts
<1> HIDE DEF one, two
<1>3. Careful(one \o two)
  BY <1>2, CarefulBehind
<1>4. one \o <<>> = one
  BY <1>2, ConcatEmptySeq DEF Careful
<1>5. Careful(<<Direct("ECON2")>>)
  BY DirectIsCareful DEF AllBanks
<1> QED
  BY <1>2, <1>3, <1>4, <1>5 DEF one, two

LEMMA NextKeepsBanks == BankInv /\ [Next]_vars => BankInv'
<1> SUFFICES ASSUME BankInv, [Next]_vars PROVE BankInv'
  OBVIOUS
<1>1. CASE InitChip
  <2> DEFINE asked == IF pc = "idle" THEN Accesses(bank, PhyRead) ELSE bank
  <2>1. asked \in BankTypes /\ ~asked.astray
    <3>1. CASE pc = "idle"
      <4>1. Selected(bank)
        BY <3>1 DEF BankInv, Selected
      <4>2. Selected(Accesses(bank, PhyRead))
        BY <4>1, PhyIsCareful, CarefulAccesses DEF StartsRight
      <4> QED
        BY <3>1, <4>2 DEF Selected
    <3>2. CASE pc # "idle"
      BY <3>2 DEF BankInv
    <3> QED
      BY <3>1, <3>2
  <2>2. bank' = Accesses(BankReset(asked), InitAccesses \o PhyWrite)
    BY <1>1 DEF InitChip
  <2> HIDE DEF asked
  <2>3. Selected(bank')
    BY <2>1, <2>2, ResetBanks
  <2> QED
    BY <2>3 DEF BankInv, Selected
<1>2. CASE Restart
  <2>1. pc' = "boot" /\ bank' = [bank EXCEPT !.cached = 0]
    BY <1>2 DEF Restart
  <2>2. bank' = [cached |-> 0, selected |-> bank.selected, astray |-> bank.astray]
    BY <2>1 DEF BankInv, BankTypes
  <2> QED
    BY <2>1, <2>2 DEF BankInv, BankTypes
<1>3. CASE LinkIsUp \/ SetBroadcast
  BY <1>3, PhyIsCareful, CarefulSteps DEF LinkIsUp, SetBroadcast
<1>4. CASE Send
  BY <1>4, SendIsCareful, CarefulSteps DEF Send
<1>5. CASE Poll
  BY <1>5, ReceiveIsCareful, CarefulSteps DEF Poll
<1>6. CASE Release \/ CountDown
  BY <1>6, ReceiveIsCareful, CarefulSteps DEF Release, CountDown
<1>7. CASE UNCHANGED bank /\ (pc # "boot" \/ pc' = "boot")
  BY <1>7 DEF BankInv
<1>8. \/ InitChip \/ Restart \/ LinkIsUp \/ SetBroadcast \/ Send \/ Poll \/ Release \/ CountDown
      \/ UNCHANGED bank /\ (pc # "boot" \/ pc' = "boot")
  BY DEF Next, vars, ReceiveFrame, TransmitHalf, TransmitEnd, TransmitError, CallSend, ReadHeader,
         ReadBody
<1> QED
  BY <1>1, <1>2, <1>3, <1>4, <1>5, <1>6, <1>7, <1>8

LEMMA InitBanks == Init => BankInv
BY DEF Init, BankInv, BankTypes

\* Every access reaches the register it names (enc28j60SetBank(), enc28j60Init(), and the
\* bit field operations that select no bank): after any restart of the program in
\* mid-operation and any reset of the chip.
THEOREM RegistersAlwaysInTheirBank == Spec => []RegistersInTheirBank
<1>1. BankInv => RegistersInTheirBank
  BY DEF BankInv, RegistersInTheirBank
<1> QED
  BY <1>1, InitBanks, NextKeepsBanks, PTL DEF Spec

-------------------------------------------------------------------------------
(* What the driver returns. *)

Increasing(d) == \A i, j \in DOMAIN d : i < j => d[i] < d[j]
Elements(d) == {d[i] : i \in DOMAIN d}
GoodOf(n) == {i \in 1..n : frames[i].good}

OrderInv == pc # "boot" /\ ~smashed =>
  /\ delivered \in Seq(Nat)
  /\ Increasing(delivered)
  /\ Elements(delivered) = GoodOf(ReadSoFar)

LEMMA LongerDelivery ==
  ASSUME NEW d \in Seq(Nat), NEW n \in Nat, Increasing(d), \A i \in DOMAIN d : d[i] < n
  PROVE  /\ Append(d, n) \in Seq(Nat) /\ Increasing(Append(d, n))
         /\ Elements(Append(d, n)) = Elements(d) \cup {n}
<1> DEFINE e == Append(d, n)
<1>1. /\ e \in Seq(Nat) /\ Len(e) = Len(d) + 1 /\ e[Len(d) + 1] = n /\ Len(d) \in Nat
      /\ \A i \in 1..Len(d) : e[i] = d[i]
  OBVIOUS
<1>2. DOMAIN d = 1..Len(d) /\ DOMAIN e = 1..(Len(d) + 1)
  BY <1>1
<1> HIDE DEF e
<1>3. Increasing(e)
  <2> SUFFICES ASSUME NEW i \in 1..(Len(d) + 1), NEW j \in 1..(Len(d) + 1), i < j PROVE e[i] < e[j]
    BY <1>2 DEF Increasing
  <2>1. i \in 1..Len(d) /\ e[i] = d[i]
    BY <1>1
  <2>2. CASE j = Len(d) + 1
    BY <1>1, <1>2, <2>1, <2>2
  <2>3. CASE j # Len(d) + 1
    <3>1. j \in 1..Len(d)
      BY <1>1, <2>3
    <3>2. e[j] = d[j] /\ d[i] < d[j]
      BY <1>1, <1>2, <2>1, <3>1 DEF Increasing
    <3> QED
      BY <2>1, <3>2
  <2> QED
    BY <2>2, <2>3
<1>4. Elements(e) = Elements(d) \cup {n}
  <2>1. \A x \in Elements(e) : x \in Elements(d) \cup {n}
    <3> SUFFICES ASSUME NEW i \in 1..(Len(d) + 1) PROVE e[i] \in Elements(d) \cup {n}
      BY <1>2 DEF Elements
    <3>1. CASE i = Len(d) + 1
      BY <1>1, <3>1
    <3>2. CASE i # Len(d) + 1
      <4>1. i \in 1..Len(d)
        BY <1>1, <3>2
      <4> QED
        BY <1>1, <1>2, <4>1 DEF Elements
    <3> QED
      BY <3>1, <3>2
  <2>2. \A i \in 1..Len(d) : d[i] \in Elements(e)
    <3> SUFFICES ASSUME NEW i \in 1..Len(d) PROVE d[i] \in Elements(e)
      OBVIOUS
    <3>1. i \in 1..(Len(d) + 1) /\ e[i] = d[i]
      BY <1>1
    <3> QED
      BY <1>2, <3>1 DEF Elements
  <2>3. n \in Elements(e)
    <3>1. Len(d) + 1 \in DOMAIN e
      BY <1>1, <1>2
    <3> QED
      BY <1>1, <3>1 DEF Elements
  <2> QED
    BY <1>2, <2>1, <2>2, <2>3 DEF Elements
<1> QED
  BY <1>1, <1>3, <1>4 DEF e

LEMMA ReceiveKeepsOrder == RingInv /\ OrderInv /\ ReceiveFrame => OrderInv'
<1> SUFFICES ASSUME RingInv, OrderInv, ReceiveFrame, ~smashed' PROVE OrderInv'
  BY DEF OrderInv
<1>1. pc # "boot" /\ UNCHANGED <<pc, taken, delivered>> /\ ~smashed
      /\ \E f : frames' = Append(frames, f)
  BY DEF ReceiveFrame
<1>2. frames \in Seq(Frame) /\ Len(frames) \in Nat /\ taken \in 0..Len(frames)
      /\ (pc = "free" => taken < Len(frames))
  BY <1>1 DEF RingInv, ChipInv, DriverInv
<1>3. \A i \in 1..Len(frames) : frames'[i] = frames[i]
  BY <1>1, <1>2
<1>4. ReadSoFar \in 0..Len(frames) /\ ReadSoFar' = ReadSoFar
  BY <1>1, <1>2 DEF ReadSoFar
<1>5. \A i \in 1..ReadSoFar : frames'[i] = frames[i]
  BY <1>2, <1>3, <1>4
<1>6. GoodOf(ReadSoFar)' = GoodOf(ReadSoFar)
  BY <1>4, <1>5 DEF GoodOf
<1> QED
  BY <1>1, <1>6 DEF OrderInv

LEMMA ReadBodyKeepsOrder == RingInv /\ OrderInv /\ ReadBody => OrderInv'
<1> SUFFICES ASSUME RingInv, OrderInv, ReadBody, ~smashed' PROVE OrderInv'
  BY DEF OrderInv
<1>1. pc = "body" /\ pc' = "free" /\ ~smashed /\ UNCHANGED <<frames, taken>>
  BY DEF ReadBody
<1>2. /\ frames \in Seq(Frame) /\ taken \in Nat /\ Len(frames) \in Nat /\ taken < Len(frames)
      /\ cur = taken + 1 /\ UnreadIntact
  BY <1>1 DEF RingInv, ChipInv, DriverInv
<1>3. ReadSoFar = taken /\ ReadSoFar' = taken + 1
  BY <1>1, <1>2 DEF ReadSoFar
<1>4. Intact(cur) /\ cur # 0
  BY <1>2 DEF Intact, UnreadIntact
<1>5. GoodOf(ReadSoFar)' = GoodOf(taken) \cup (IF StatusGood(cur) THEN {cur} ELSE {})
  <2>1. 1..(taken + 1) = (1..taken) \cup {taken + 1}
    BY <1>2
  <2>2. GoodOf(ReadSoFar)' = {i \in 1..(taken + 1) : frames[i].good}
    BY <1>1, <1>3 DEF GoodOf
  <2> QED
    BY <1>2, <2>1, <2>2 DEF GoodOf, StatusGood
<1>6. delivered \in Seq(Nat) /\ Increasing(delivered) /\ Elements(delivered) = GoodOf(taken)
  BY <1>1, <1>3 DEF OrderInv
<1>7. \A i \in DOMAIN delivered : delivered[i] < cur
  <2>1. \A x \in GoodOf(taken) : x < cur
    BY <1>2 DEF GoodOf
  <2> QED
    BY <1>6, <2>1 DEF Elements
<1>8. CASE StatusGood(cur)
  <2>1. delivered' = Append(delivered, cur)
    BY <1>4, <1>8 DEF ReadBody
  <2>2. cur \in Nat
    BY <1>2
  <2>3. /\ Append(delivered, cur) \in Seq(Nat) /\ Increasing(Append(delivered, cur))
        /\ Elements(Append(delivered, cur)) = Elements(delivered) \cup {cur}
    BY <1>6, <1>7, <2>2, LongerDelivery
  <2> QED
    BY <1>5, <1>6, <1>8, <2>1, <2>3 DEF OrderInv
<1>9. CASE ~StatusGood(cur)
  <2>1. delivered' = delivered
    BY <1>4, <1>9 DEF ReadBody
  <2> QED
    BY <1>5, <1>6, <1>9, <2>1 DEF OrderInv
<1> QED
  BY <1>8, <1>9

LEMMA NextKeepsOrder == RingInv /\ OrderInv /\ [Next]_vars => OrderInv'
<1> SUFFICES ASSUME RingInv, OrderInv, [Next]_vars PROVE OrderInv'
  OBVIOUS
<1>1. CASE InitChip
  <2>1. pc' = "idle" /\ delivered' = <<>> /\ taken' = 0
    BY <1>1 DEF InitChip
  <2>2. ReadSoFar' = 0
    BY <2>1 DEF ReadSoFar
  <2>3. GoodOf(ReadSoFar)' = {}
    BY <2>2 DEF GoodOf
  <2> QED
    BY <2>1, <2>3 DEF OrderInv, Increasing, Elements
<1>2. CASE Restart
  BY <1>2 DEF Restart, OrderInv
<1>3. CASE Release
  <2> SUFFICES ASSUME ~smashed' PROVE OrderInv'
    BY DEF OrderInv
  <2>1. pc = "free" /\ pc' = "dec" /\ taken' = taken + 1 /\ UNCHANGED <<frames, delivered, smashed>>
    BY <1>3 DEF Release
  <2>2. taken \in Nat
    BY <2>1 DEF RingInv, DriverInv, ChipInv
  <2>3. ReadSoFar' = ReadSoFar
    BY <2>1, <2>2 DEF ReadSoFar
  <2>4. GoodOf(ReadSoFar)' = GoodOf(ReadSoFar)
    BY <2>1, <2>3 DEF GoodOf
  <2> QED
    BY <2>1, <2>4 DEF OrderInv
<1>4. CASE /\ UNCHANGED <<frames, taken, delivered, smashed>>
           /\ pc # "boot" \/ pc' = "boot"
           /\ pc # "free" \/ pc' = "free"
           /\ pc' # "free" \/ pc = "free"
  <2>1. ReadSoFar' = ReadSoFar
    BY <1>4 DEF ReadSoFar
  <2>2. GoodOf(ReadSoFar)' = GoodOf(ReadSoFar)
    BY <1>4, <2>1 DEF GoodOf
  <2> QED
    BY <1>4, <2>2 DEF OrderInv
<1>5. \/ ReceiveFrame \/ InitChip \/ Restart \/ ReadBody \/ Release
      \/ /\ UNCHANGED <<frames, taken, delivered, smashed>>
         /\ pc # "boot" \/ pc' = "boot"
         /\ pc # "free" \/ pc' = "free"
         /\ pc' # "free" \/ pc = "free"
  BY DEF Next, vars, rx, TransmitHalf, TransmitEnd, TransmitError, LinkIsUp, SetBroadcast, CallSend,
         Send, Poll, ReadHeader, CountDown
<1> QED
  BY <1>1, <1>2, <1>3, <1>4, <1>5, ReceiveKeepsOrder, ReadBodyKeepsOrder

\* The good frames are returned in their order, each once and whole, and none is left
\* out, whatever arrives between the steps of enc28j60PacketReceive(), until a frame is
\* overwritten.
THEOREM FramesAlwaysInOrder == Spec => []FramesInOrder
<1>1. Init => OrderInv
  BY DEF Init, OrderInv
<1>2. OrderInv => FramesInOrder
  BY DEF OrderInv, FramesInOrder, Increasing, Elements, GoodOf
<1> QED
  BY <1>1, <1>2, InitRing, NextKeepsRing, NextKeepsOrder, PTL DEF Spec

-------------------------------------------------------------------------------
(* The room in the ring. *)

\* How far one has to go from u to come to a, once round the ring if it is u itself.
Ahead(u, a) == IF a > u THEN a - u ELSE a - u + RingSize

\* How far a frame lies behind the first that was not released.
Offset(i) == IF i = taken + 1 THEN 0 ELSE Ahead(At(taken + 1), At(i))

\* The frames not released lie one behind the other, less than once round the ring; the
\* chip knows where they begin, or ERXRDPT is outside of the ring.
RoomInv == pc # "boot" /\ ~smashed =>
  /\ \A i, j \in (taken + 1)..(Len(frames) + 1) : i < j => Offset(i) + frames[i].size <= Offset(j)
  /\ erxrdpt \in Ring =>
       /\ Offset(Len(frames) + 1) <= RingSize - 2
       /\ erxrdpt = At(taken + 1) - 1 \/ (erxrdpt = 0 /\ At(taken + 1) = 0)

LEMMA RingNumbers ==
  /\ RingSize \in Nat /\ RingSize = RXSTOP_INIT + 1 /\ RingSize >= 2 /\ RingSize % 2 = 0
  /\ RXSTOP_INIT \in Nat /\ RXSTOP_INIT < 8191
  /\ \A a \in Words : a \in 0..(RingSize - 1) /\ a % 2 = 0
BY ChipAssumption DEF RingSize, Words, Ring, RXSTART_INIT, RegisterWidth

LEMMA FrameNumbers ==
  ASSUME NEW f \in Frame
  PROVE  f.size \in Nat /\ f.size >= 6 /\ f.size <= RXSTOP_INIT /\ f.size % 2 = 0 /\ f.at \in Words
<1>1. f.size \in FrameSizes /\ f.at \in Words
  BY DEF Frame
<1>2. f.size \in 6..RXSTOP_INIT /\ f.size % 2 = 0
  BY <1>1, ChipAssumption
<1> QED
  BY <1>1, <1>2, ChipAssumption

LEMMA AheadFacts ==
  ASSUME NEW u \in Words, NEW a \in Words
  PROVE  /\ Ahead(u, a) \in 1..RingSize /\ Ahead(u, a) % 2 = 0
         /\ Place(u + Ahead(u, a)) = a
<1>1. /\ RingSize \in Nat /\ RingSize = RXSTOP_INIT + 1 /\ RXSTOP_INIT \in Nat /\ RingSize % 2 = 0
      /\ u \in 0..(RingSize - 1) /\ u % 2 = 0 /\ a \in 0..(RingSize - 1) /\ a % 2 = 0
  BY RingNumbers
<1>2. (a - u) % 2 = 0 /\ (a - u + RingSize) % 2 = 0
  BY <1>1
<1> QED
  BY <1>1, <1>2 DEF Ahead, Place

\* Different distances below the ring's size are different places.
LEMMA DistancesAreApart ==
  ASSUME NEW u \in Words, NEW x \in 0..(RingSize - 1), NEW y \in 0..(RingSize - 1), x # y
  PROVE  Place(u + x) # Place(u + y)
<1>1. RingSize \in Nat /\ RingSize = RXSTOP_INIT + 1 /\ RXSTOP_INIT \in Nat /\ u \in 0..(RingSize - 1)
  BY RingNumbers
<1> QED
  BY <1>1 DEF Place

LEMMA PlacesAdd ==
  ASSUME NEW u \in Words, NEW x \in 0..RingSize, NEW d \in Nat, x + d <= RingSize
  PROVE  Place(Place(u + x) + d) = Place(u + (x + d))
<1>1. RingSize \in Nat /\ RingSize = RXSTOP_INIT + 1 /\ RXSTOP_INIT \in Nat /\ u \in 0..(RingSize - 1)
  BY RingNumbers
<1> QED
  BY <1>1 DEF Place

LEMMA AheadAdds ==
  ASSUME NEW u \in Words, NEW x \in 0..RingSize, NEW d \in Nat, x + d <= RingSize, x + d > 0
  PROVE  Ahead(u, Place(Place(u + x) + d)) = x + d
<1>1. RingSize \in Nat /\ RingSize = RXSTOP_INIT + 1 /\ RXSTOP_INIT \in Nat /\ u \in 0..(RingSize - 1)
  BY RingNumbers
<1>2. Ahead(u, Place(u + (x + d))) = x + d
  BY <1>1 DEF Place, Ahead
<1> QED
  BY <1>2, PlacesAdd

\* From a place that lies before another one.
LEMMA AheadFromLater ==
  ASSUME NEW u \in Words, NEW v \in Words, NEW a \in Words, Ahead(u, v) < Ahead(u, a)
  PROVE  Ahead(v, a) = Ahead(u, a) - Ahead(u, v)
<1>1. /\ RingSize \in Nat /\ u \in 0..(RingSize - 1) /\ v \in 0..(RingSize - 1)
      /\ a \in 0..(RingSize - 1)
  BY RingNumbers
<1> QED
  BY <1>1 DEF Ahead

LEMMA FramesAreApart ==
  ASSUME NEW u \in Words, NEW f \in Frame, NEW g \in Frame,
         NEW x \in 0..RingSize, NEW y \in 0..RingSize,
         f.at = Place(u + x), g.at = Place(u + y),
         x + f.size <= y, y + g.size <= RingSize
  PROVE  WordsOf(f) \cap WordsOf(g) = {}
<1>1. RingSize \in Nat /\ f.size \in Nat /\ g.size \in Nat
  BY RingNumbers, FrameNumbers
<1>2. ASSUME NEW w \in WordsOf(f), w \in WordsOf(g) PROVE FALSE
  <2>1. PICK d \in 0..(f.size - 1) : w = Place(f.at + d)
    BY DEF WordsOf
  <2>2. PICK e \in 0..(g.size - 1) : w = Place(g.at + e)
    BY <1>2 DEF WordsOf
  <2>3. w = Place(u + (x + d))
    <3>1. d \in Nat /\ x + d <= RingSize
      BY <1>1, <2>1
    <3> QED
      BY <2>1, <3>1, PlacesAdd
  <2>4. w = Place(u + (y + e))
    <3>1. e \in Nat /\ y + e <= RingSize
      BY <1>1, <2>2
    <3> QED
      BY <2>2, <3>1, PlacesAdd
  <2>5. x + d \in 0..(RingSize - 1) /\ y + e \in 0..(RingSize - 1) /\ x + d # y + e
    BY <1>1, <2>1, <2>2
  <2> QED
    BY <2>3, <2>4, <2>5, DistancesAreApart
<1> QED
  BY <1>2

\* A frame that would go more than once round the ring covers the place it started from.
LEMMA FrameComesRound ==
  ASSUME NEW u \in Words, NEW g \in Frame, NEW y \in 0..RingSize, y % 2 = 0,
         g.at = Place(u + y), y + g.size > RingSize
  PROVE  u \in WordsOf(g)
<1> DEFINE d == RingSize - y
<1>1. /\ RingSize \in Nat /\ RingSize = RXSTOP_INIT + 1 /\ RXSTOP_INIT \in Nat /\ RingSize % 2 = 0 /\ g.size \in Nat
      /\ u \in 0..(RingSize - 1)
  BY RingNumbers, FrameNumbers
<1>2. d \in 0..(g.size - 1) /\ d \in Nat /\ y + d = RingSize /\ y + d <= RingSize
  BY <1>1
<1>3. d % 2 = 0
  BY <1>1
<1>4. Place(u + RingSize) = u
  BY <1>1 DEF Place
<1>5. Place(g.at + d) = u
  <2> HIDE DEF d
  <2>1. Place(Place(u + y) + d) = Place(u + (y + d))
    BY <1>2, PlacesAdd
  <2> QED
    BY <1>2, <1>4, <2>1
<1> HIDE DEF d
<1>6. d \in {e \in 0..(g.size - 1) : e % 2 = 0}
  BY <1>2, <1>3
<1> QED
  BY <1>5, <1>6 DEF WordsOf

LEMMA AtWords ==
  ASSUME RingInv, NEW i \in 1..(Len(frames) + 1)
  PROVE  At(i) \in Words
<1>1. frames \in Seq(Frame) /\ erxwrpt \in Words /\ Len(frames) \in Nat
  BY DEF RingInv, ChipInv
<1>2. \A f \in Frame : f.at \in Words
  BY DEF Frame
<1>3. CASE i <= Len(frames)
  <2>1. frames[i] \in Frame
    BY <1>1, <1>3
  <2> QED
    BY <1>2, <1>3, <2>1 DEF At
<1>4. CASE ~(i <= Len(frames))
  BY <1>1, <1>4 DEF At
<1> QED
  BY <1>3, <1>4

LEMMA OffsetFacts ==
  ASSUME RingInv, pc # "boot", ~smashed, NEW i \in (taken + 1)..(Len(frames) + 1)
  PROVE  /\ At(taken + 1) \in Words /\ At(i) \in Words
         /\ Offset(i) \in 0..RingSize /\ Offset(i) % 2 = 0
         /\ Place(At(taken + 1) + Offset(i)) = At(i)
<1>1. taken \in 0..Len(frames) /\ Len(frames) \in Nat
  BY DEF RingInv, ChipInv, DriverInv
<1>2. i \in 1..(Len(frames) + 1) /\ taken + 1 \in 1..(Len(frames) + 1)
  BY <1>1
<1>3. At(taken + 1) \in Words /\ At(i) \in Words
  BY <1>2, AtWords
<1>4. CASE i = taken + 1
  <2>1. Place(At(i) + 0) = At(i)
    BY <1>3, RingNumbers DEF Place
  <2> QED
    BY <1>3, <1>4, <2>1, RingNumbers DEF Offset
<1>5. CASE i # taken + 1
  <2>1. Offset(i) = Ahead(At(taken + 1), At(i))
    BY <1>5 DEF Offset
  <2>2. Ahead(At(taken + 1), At(i)) \in 0..RingSize
    BY <1>3, AheadFacts, RingNumbers
  <2> QED
    BY <1>3, <2>1, <2>2, AheadFacts
<1> QED
  BY <1>4, <1>5

\* What a frame that arrives changes in the ring.
LEMMA ReceivedFrame ==
  ASSUME RingInv, ReceiveFrame
  PROVE  \E f \in Frame :
           /\ f.at = erxwrpt /\ (erxrdpt \in Ring => f.size <= Room)
           /\ smashed' = (smashed \/ WordsOf(f) \cap UnreadWords # {})
           /\ Len(frames') = Len(frames) + 1
           /\ frames'[Len(frames) + 1] = f
           /\ \A i \in 1..Len(frames) : frames'[i] = frames[i]
           /\ erxwrpt' = Place(f.at + f.size)
           /\ \A i \in 1..(Len(frames) + 1) : At(i)' = At(i)
<1>1. PICK size \in FrameSizes, good \in BOOLEAN :
        LET f == [at |-> erxwrpt, size |-> size, good |-> good]
        IN  /\ erxrdpt \in Ring => size <= Room
            /\ erxwrpt' = NextOf(f)
            /\ frames' = Append(frames, f)
            /\ smashed' = (smashed \/ WordsOf(f) \cap UnreadWords # {})
  BY DEF ReceiveFrame
<1> DEFINE f == [at |-> erxwrpt, size |-> size, good |-> good]
<1>2. f \in Frame /\ f.at = erxwrpt /\ f.size = size
  BY DEF RingInv, ChipInv, Frame
<1>3. frames' = Append(frames, f) /\ erxwrpt' = NextOf(f)
  BY <1>1
<1>4. smashed' = (smashed \/ WordsOf(f) \cap UnreadWords # {})
  BY <1>1
<1>5. erxrdpt \in Ring => f.size <= Room
  BY <1>1, <1>2
<1> HIDE DEF f
<1>6. frames \in Seq(Frame) /\ Len(frames) \in Nat
  BY DEF RingInv, ChipInv
<1>7. /\ Len(frames') = Len(frames) + 1 /\ frames'[Len(frames) + 1] = f
      /\ \A i \in 1..Len(frames) : frames'[i] = frames[i]
  BY <1>2, <1>3, <1>6
<1>8. erxwrpt' = Place(f.at + f.size)
  BY <1>3 DEF NextOf
<1>9. ASSUME NEW i \in 1..(Len(frames) + 1) PROVE At(i)' = At(i)
  <2>1. CASE i = Len(frames) + 1
    BY <1>2, <1>6, <1>7, <2>1 DEF At
  <2>2. CASE i # Len(frames) + 1
    <3>1. i \in 1..Len(frames) /\ i <= Len(frames')
      BY <1>6, <1>7, <2>2
    <3> QED
      BY <1>7, <3>1 DEF At
  <2> QED
    BY <2>1, <2>2
<1> QED
  BY <1>2, <1>4, <1>5, <1>7, <1>8, <1>9

\* The room that the chip computes is what the frames not released leave of the ring, up
\* to the last word.
LEMMA RoomIsLeft ==
  ASSUME RingInv, RoomInv, pc # "boot", ~smashed, erxrdpt \in Ring,
         NEW f \in Frame, f.size <= Room
  PROVE  Offset(Len(frames) + 1) + f.size <= RingSize - 2
<1> DEFINE n == Len(frames)
           u == At(taken + 1)
           w == erxwrpt
           T == Offset(n + 1)
<1>1. taken \in 0..n /\ n \in Nat
  BY DEF RingInv, ChipInv, DriverInv
<1>2. n + 1 \in (taken + 1)..(n + 1) /\ At(n + 1) = w
  BY <1>1 DEF At
<1>3. u \in Words /\ w \in Words /\ T \in 0..RingSize /\ T % 2 = 0
  BY <1>2, OffsetFacts
<1>4. T <= RingSize - 2 /\ (erxrdpt = u - 1 \/ (erxrdpt = 0 /\ u = 0))
  BY DEF RoomInv
<1>5. (T = 0 /\ w = u) \/ T = Ahead(u, w)
  BY <1>1, <1>2 DEF Offset
<1>6. /\ u \in 0..(RingSize - 1) /\ u % 2 = 0 /\ w \in 0..(RingSize - 1) /\ w % 2 = 0
      /\ RXSTOP_INIT \in Nat /\ RingSize = RXSTOP_INIT + 1 /\ RingSize \in Nat /\ RingSize % 2 = 0
  BY <1>3, RingNumbers
<1>7. f.size \in Nat /\ f.size % 2 = 0
  BY FrameNumbers
<1>8. erxrdpt >= 0
  BY ChipAssumption DEF Ring, RXSTART_INIT
<1> HIDE DEF n, u, w, T
<1>9. CASE erxrdpt = u - 1
  <2>1. Room <= RingSize - 2 - T
    BY <1>4, <1>5, <1>6, <1>3, <1>8, <1>9 DEF Room, Ahead, w
  <2>2. Room \in Int
    BY <1>6, <1>9 DEF Room, w
  <2> QED
    BY <1>3, <1>6, <1>7, <2>1, <2>2 DEF T, n
<1>10. CASE erxrdpt = 0 /\ u = 0
  <2>1. Room <= RingSize - 1 - T
    BY <1>4, <1>5, <1>6, <1>3, <1>10 DEF Room, Ahead, w
  <2>2. Room \in Int
    BY <1>6, <1>10 DEF Room, w
  <2>3. f.size <= RingSize - 1 - T
    BY <1>3, <1>6, <1>7, <2>1, <2>2
  <2>4. (RingSize - 1 - T) % 2 = 1
    BY <1>3, <1>6
  <2>5. f.size # RingSize - 1 - T
    BY <1>7, <2>4
  <2> QED
    BY <1>3, <1>6, <1>7, <2>3, <2>5 DEF T, n
<1> QED
  BY <1>4, <1>9, <1>10

\* A frame for which there is room does not touch those not released.
LEMMA RoomIsFree ==
  ASSUME RingInv, RoomInv, pc # "boot", ~smashed, NEW f \in Frame, f.at = erxwrpt,
         Offset(Len(frames) + 1) + f.size <= RingSize
  PROVE  WordsOf(f) \cap UnreadWords = {}
<1> DEFINE n == Len(frames)
<1>1. taken \in 0..n /\ n \in Nat /\ frames \in Seq(Frame)
  BY DEF RingInv, ChipInv, DriverInv
<1>2. n + 1 \in (taken + 1)..(n + 1) /\ At(n + 1) = erxwrpt
  BY <1>1 DEF At
<1>3. /\ At(taken + 1) \in Words /\ Offset(n + 1) \in 0..RingSize
      /\ f.at = Place(At(taken + 1) + Offset(n + 1))
  BY <1>2, OffsetFacts
<1>4. ASSUME NEW i \in (taken + 1)..n PROVE WordsOf(f) \cap WordsOf(frames[i]) = {}
  <2>1. i \in (taken + 1)..(n + 1) /\ i < n + 1 /\ i \in 1..n
    BY <1>1
  <2>2. frames[i] \in Frame /\ At(i) = frames[i].at
    BY <1>1, <2>1 DEF At
  <2>3. Offset(i) \in 0..RingSize /\ Place(At(taken + 1) + Offset(i)) = At(i)
    BY <2>1, OffsetFacts
  <2>4. Offset(i) + frames[i].size <= Offset(n + 1)
    BY <1>2, <2>1 DEF RoomInv
  <2>5. WordsOf(frames[i]) \cap WordsOf(f) = {}
    BY <1>3, <2>2, <2>3, <2>4, FramesAreApart
  <2> QED
    BY <2>5
<1> QED
  BY <1>4 DEF UnreadWords

LEMMA ReceiveKeepsRoom ==
  ASSUME RingInv, RoomInv, ReceiveFrame
  PROVE  RoomInv' /\ (smashed' /\ ~smashed => erxrdpt \notin Ring)
<1>1. PICK f \in Frame :
           /\ f.at = erxwrpt /\ (erxrdpt \in Ring => f.size <= Room)
           /\ smashed' = (smashed \/ WordsOf(f) \cap UnreadWords # {})
           /\ Len(frames') = Len(frames) + 1
           /\ frames'[Len(frames) + 1] = f
           /\ \A i \in 1..Len(frames) : frames'[i] = frames[i]
           /\ erxwrpt' = Place(f.at + f.size)
           /\ \A i \in 1..(Len(frames) + 1) : At(i)' = At(i)
  BY ReceivedFrame
<1>2. pc # "boot" /\ pc' = pc /\ taken' = taken /\ erxrdpt' = erxrdpt
  BY DEF ReceiveFrame
<1>3. ASSUME ~smashed, erxrdpt \in Ring PROVE ~smashed'
  <2>1. Offset(Len(frames) + 1) + f.size <= RingSize - 2
    BY <1>1, <1>2, <1>3, RoomIsLeft
  <2>2. Offset(Len(frames) + 1) \in 0..RingSize
    <3>1. Len(frames) + 1 \in (taken + 1)..(Len(frames) + 1)
      BY <1>2, <1>3 DEF RingInv, ChipInv, DriverInv
    <3> QED
      BY <1>2, <1>3, <3>1, OffsetFacts
  <2>3. Offset(Len(frames) + 1) + f.size <= RingSize
    BY <2>1, <2>2, FrameNumbers, RingNumbers
  <2> QED
    BY <1>1, <1>2, <1>3, <2>3, RoomIsFree
<1>4. ASSUME ~smashed' PROVE RoomInv'
  <2>1. ~smashed /\ WordsOf(f) \cap UnreadWords = {}
    BY <1>1, <1>4
  <2>2. PICK n \in Nat : n = Len(frames) /\ taken \in 0..n /\ frames \in Seq(Frame)
    BY <1>2, <2>1 DEF RingInv, ChipInv, DriverInv
  <2>3. PICK u \in Words : u = At(taken + 1)
    <3>1. n + 1 \in (taken + 1)..(n + 1)
      BY <2>2
    <3> QED
      BY <1>2, <2>1, <2>2, <3>1, OffsetFacts
  <2>4. PICK T \in 0..RingSize : T = Offset(n + 1) /\ T % 2 = 0 /\ f.at = Place(u + T)
    <3>1. n + 1 \in (taken + 1)..(n + 1) /\ At(n + 1) = erxwrpt
      BY <2>2 DEF At
    <3> QED
      BY <1>1, <1>2, <2>1, <2>2, <2>3, <3>1, OffsetFacts
  <2>5. T + f.size <= RingSize
    <3> SUFFICES ASSUME ~(T + f.size <= RingSize) PROVE FALSE
      OBVIOUS
    <3>1. T + f.size > RingSize
      BY RingNumbers, FrameNumbers
    <3>2. u \in WordsOf(f)
      BY <2>4, <3>1, FrameComesRound
    <3>3. CASE taken = n
      <4>1. T = 0
        BY <2>2, <2>4, <3>3 DEF Offset
      <4> QED
        BY <3>1, <4>1, RingNumbers, FrameNumbers
    <3>4. CASE taken # n
      <4>1. taken + 1 \in (taken + 1)..Len(frames) /\ taken + 1 \in 1..n
        BY <2>2, <3>4
      <4>2. frames[taken + 1] \in Frame /\ u = frames[taken + 1].at
        BY <2>2, <2>3, <4>1 DEF At
      <4>3. u \in WordsOf(frames[taken + 1])
        BY <4>2, RingFacts
      <4>4. u \in UnreadWords
        BY <4>1, <4>3 DEF UnreadWords
      <4> QED
        BY <2>1, <3>2, <4>4
    <3> QED
      BY <3>3, <3>4
  <2>6. At(taken + 1)' = u
    <3>1. taken' + 1 = taken + 1 /\ taken + 1 \in 1..(Len(frames) + 1)
      BY <1>2, <2>2
    <3> QED
      BY <1>1, <2>3, <3>1
  <2>7. ASSUME NEW i \in (taken + 1)..(n + 1) PROVE Offset(i)' = Offset(i)
    <3>1. i \in 1..(n + 1)
      BY <2>2
    <3> QED
      BY <1>1, <1>2, <2>2, <2>3, <2>6, <3>1 DEF Offset
  <2>8. Offset(n + 2)' = T + f.size
    <3>1. n + 2 # taken' + 1
      BY <1>2, <2>2
    <3>2. Offset(n + 2)' = Ahead(u, erxwrpt')
      <4>1. At(n + 2)' = erxwrpt'
        BY <1>1, <2>2 DEF At
      <4> QED
        BY <2>6, <3>1, <4>1 DEF Offset
    <3>3. Ahead(u, Place(Place(u + T) + f.size)) = T + f.size
      <4>1. f.size \in Nat /\ T + f.size > 0
        BY <2>4, FrameNumbers, RingNumbers
      <4> QED
        BY <2>4, <2>5, <4>1, AheadAdds
    <3> QED
      BY <1>1, <2>2, <2>4, <3>2, <3>3
  <2>9. ASSUME NEW i \in (taken + 1)..(n + 2), NEW j \in (taken + 1)..(n + 2), i < j
        PROVE  Offset(i)' + frames'[i].size <= Offset(j)'
    <3>1. i \in (taken + 1)..(n + 1)
      BY <2>2, <2>9
    <3>2. CASE j # n + 2
      <4>1. j \in (taken + 1)..(n + 1) /\ i \in 1..n
        BY <2>2, <2>9, <3>2
      <4>2. Offset(i) + frames[i].size <= Offset(j)
        BY <1>2, <2>1, <2>2, <2>9, <3>1, <4>1 DEF RoomInv
      <4> QED
        BY <1>1, <2>2, <2>7, <3>1, <4>1, <4>2
    <3>3. CASE j = n + 2 /\ i = n + 1
      <4>1. Offset(i)' = T /\ frames'[i] = f
        BY <1>1, <2>2, <2>4, <2>7, <3>1, <3>3
      <4> QED
        BY <2>4, <2>8, <3>3, <4>1, FrameNumbers, RingNumbers
    <3>4. CASE j = n + 2 /\ i # n + 1
      <4>1. i \in 1..n /\ i < n + 1 /\ n + 1 \in (taken + 1)..(n + 1)
        BY <2>2, <3>1, <3>4
      <4>2. Offset(i) + frames[i].size <= T
        BY <1>2, <2>1, <2>2, <2>4, <3>1, <4>1 DEF RoomInv
      <4>3. Offset(i)' = Offset(i) /\ frames'[i] = frames[i]
        BY <1>1, <2>2, <2>7, <3>1, <4>1
      <4>4. Offset(i) \in 0..RingSize /\ frames[i].size \in Nat
        BY <1>2, <2>1, <2>2, <3>1, <4>1, OffsetFacts, FrameNumbers
      <4> QED
        BY <2>4, <2>8, <3>4, <4>2, <4>3, <4>4, FrameNumbers, RingNumbers
    <3> QED
      BY <3>2, <3>3, <3>4
  <2>10. ASSUME erxrdpt \in Ring PROVE T + f.size <= RingSize - 2
    BY <1>1, <1>2, <2>1, <2>2, <2>4, <2>10, RoomIsLeft
  <2>11. /\ Len(frames') + 1 = n + 2
         /\ \A i, j \in (taken' + 1)..(n + 2) : i < j => Offset(i)' + frames'[i].size <= Offset(j)'
    BY <1>1, <1>2, <2>2, <2>9
  <2>12. erxrdpt' \in Ring =>
           /\ Offset(n + 2)' <= RingSize - 2
           /\ erxrdpt' = At(taken + 1)' - 1 \/ (erxrdpt' = 0 /\ At(taken + 1)' = 0)
    <3>1. erxrdpt \in Ring => erxrdpt = u - 1 \/ (erxrdpt = 0 /\ u = 0)
      BY <1>2, <2>1, <2>3 DEF RoomInv
    <3> QED
      BY <1>2, <2>6, <2>8, <2>10, <3>1
  <2>13. Offset(Len(frames) + 1)' = Offset(n + 2)'
    BY <2>11 DEF Offset
  <2> QED
    BY <2>11, <2>12, <2>13 DEF RoomInv
<1>5. smashed' \in BOOLEAN
  BY <1>1 DEF RingInv
<1>6. CASE smashed'
  BY <1>3, <1>6 DEF RoomInv
<1> QED
  BY <1>3, <1>4, <1>5, <1>6

\* 13 bits of a negative number.
LEMMA NegativeWraps ==
  ASSUME NEW k \in Int, k < 0, k + 8192 >= 0
  PROVE  k % 8192 = k + 8192
OBVIOUS

LEMMA ReleasedAddress ==
  ASSUME NEW v \in Words
  PROVE  /\ v = 0 => ReleasedTo(v) \notin Ring
         /\ v # 0 => ReleasedTo(v) = v - 1
<1>1. RXSTOP_INIT \in Nat /\ RXSTOP_INIT < 8191 /\ v \in 0..RXSTOP_INIT
  BY RingNumbers
<1>2. ASSUME v = 0 PROVE (v - 1) % 8192 = v + 8191
  <2>1. v - 1 \in Int /\ v - 1 < 0 /\ v - 1 + 8192 >= 0 /\ v - 1 + 8192 = v + 8191
    BY <1>1, <1>2
  <2> QED
    BY <2>1, NegativeWraps
<1>3. v # 0 => (v - 1) % 8192 = v - 1
  BY <1>1
<1> QED
  BY <1>1, <1>2, <1>3 DEF ReleasedTo, RegisterWidth, Ring, RXSTART_INIT

LEMMA ReleaseKeepsRoom == RingInv /\ RoomInv /\ Release => RoomInv'
<1> SUFFICES ASSUME RingInv, RoomInv, Release, ~smashed' PROVE RoomInv'
  BY DEF RoomInv
<1>1. /\ pc = "free" /\ ~smashed /\ taken' = taken + 1 /\ UNCHANGED <<frames, erxwrpt>>
      /\ erxrdpt' = ReleasedTo(gNextPacketPtr)
  BY DEF Release
<1>2. PICK n \in Nat : n = Len(frames) /\ taken \in 0..n /\ taken < n /\ frames \in Seq(Frame)
                       /\ gNextPacketPtr = At(taken + 2)
  BY <1>1 DEF RingInv, ChipInv, DriverInv
<1>3. \A i : At(i)' = At(i)
  BY <1>1 DEF At
<1>4. taken + 1 \in (taken + 1)..(n + 1) /\ taken + 2 \in (taken + 1)..(n + 1) /\ taken + 1 \in 1..n
      /\ n + 1 \in (taken + 1)..(n + 1)
  BY <1>2
<1>5. PICK u \in Words : u = At(taken + 1)
  BY <1>1, <1>2, <1>4, OffsetFacts
<1>6. PICK v \in Words : v = At(taken + 2)
  BY <1>1, <1>2, <1>4, OffsetFacts
<1>7. PICK s \in 0..RingSize : s = Offset(taken + 2) /\ s = Ahead(u, v)
  <2>1. taken + 2 # taken + 1
    BY <1>2
  <2> QED
    BY <1>1, <1>2, <1>4, <1>5, <1>6, <2>1, OffsetFacts DEF Offset
<1>8. s >= 6
  <2>1. Offset(taken + 1) = 0
    BY DEF Offset
  <2>2. frames[taken + 1] \in Frame
    BY <1>2, <1>4
  <2>3. Offset(taken + 1) + frames[taken + 1].size <= Offset(taken + 2)
    <3>1. taken + 1 < taken + 2
      BY <1>2
    <3> QED
      BY <1>1, <1>2, <1>4, <3>1 DEF RoomInv
  <2> QED
    BY <1>7, <2>1, <2>2, <2>3, FrameNumbers, RingNumbers
<1>9. At(taken + 1)' = v
  <2>1. taken' + 1 = taken + 2
    BY <1>1, <1>2
  <2> QED
    BY <1>3, <1>6, <2>1
<1>10. ASSUME NEW j \in (taken + 2)..(n + 1)
       PROVE  Offset(j) \in 0..RingSize /\ Offset(j)' = Offset(j) - s
  <2>1. j \in (taken + 1)..(n + 1) /\ j # taken + 1 /\ At(j)' = At(j)
    BY <1>2, <1>3, <1>10
  <2>2. At(j) \in Words /\ Offset(j) \in 0..RingSize
    BY <1>1, <1>2, <2>1, OffsetFacts
  <2>3. CASE j = taken + 2
    <3>1. Offset(j)' = 0
      BY <1>1, <1>2, <2>3 DEF Offset
    <3> QED
      BY <1>7, <2>2, <2>3, <3>1, RingNumbers
  <2>4. CASE j # taken + 2
    <3>1. taken + 2 < j /\ taken + 2 \in 1..n
      BY <1>2, <1>10, <2>4
    <3>2. Offset(taken + 2) + frames[taken + 2].size <= Offset(j)
      BY <1>1, <1>2, <1>4, <2>1, <3>1 DEF RoomInv
    <3>3. frames[taken + 2] \in Frame
      BY <1>2, <3>1
    <3>4. Offset(j) = Ahead(u, At(j))
      BY <1>5, <2>1 DEF Offset
    <3>5. Ahead(u, v) < Ahead(u, At(j))
      BY <1>7, <2>2, <3>2, <3>3, <3>4, FrameNumbers, RingNumbers
    <3>6. Ahead(v, At(j)) = Ahead(u, At(j)) - Ahead(u, v)
      BY <2>2, <3>5, AheadFromLater
    <3>7. Offset(j)' = Ahead(v, At(j))
      <4>1. j # taken' + 1
        BY <1>1, <1>2, <2>4, <1>10
      <4> QED
        BY <1>9, <2>1, <4>1 DEF Offset
    <3> QED
      BY <1>7, <2>2, <3>4, <3>6, <3>7
  <2> QED
    BY <2>3, <2>4
<1>11. ASSUME NEW i \in (taken + 2)..(n + 1), NEW j \in (taken + 2)..(n + 1), i < j
       PROVE  Offset(i)' + frames'[i].size <= Offset(j)'
  <2>1. i \in (taken + 1)..(n + 1) /\ j \in (taken + 1)..(n + 1) /\ i \in 1..n
    BY <1>2, <1>11
  <2>2. Offset(i) + frames[i].size <= Offset(j)
    BY <1>1, <1>2, <1>11, <2>1 DEF RoomInv
  <2>3. frames[i] \in Frame /\ frames'[i] = frames[i]
    BY <1>1, <1>2, <2>1
  <2>4. frames[i].size \in Nat
    BY <2>3, FrameNumbers
  <2> QED
    BY <1>7, <1>10, <1>11, <2>2, <2>3, <2>4, RingNumbers
<1>12. Offset(n + 1)' <= RingSize - 2
  <2>1. n + 1 \in (taken + 2)..(n + 1)
    BY <1>2
  <2> QED
    BY <1>7, <1>8, <1>10, <2>1, RingNumbers
<1>13. erxrdpt' \in Ring => erxrdpt' = v - 1
  BY <1>1, <1>2, <1>6, ReleasedAddress
<1>14. /\ Len(frames') = n /\ taken' + 1 = taken + 2
       /\ Offset(Len(frames) + 1)' = Offset(n + 1)'
  BY <1>1, <1>2 DEF Offset
<1> QED
  BY <1>9, <1>11, <1>12, <1>13, <1>14 DEF RoomInv

LEMMA NextKeepsRoom == RingInv /\ RoomInv /\ [Next]_vars => RoomInv'
<1> SUFFICES ASSUME RingInv, RoomInv, [Next]_vars PROVE RoomInv'
  OBVIOUS
<1>1. CASE InitChip
  <2>1. frames' = <<>> /\ taken' = 0 /\ erxwrpt' = 0 /\ erxrdpt' = 0
    BY <1>1 DEF InitChip, RXSTART_INIT
  <2>2. Len(frames') = 0 /\ Len(frames') + 1 = 1 /\ taken' + 1 = 1
    BY <2>1
  <2>3. At(taken + 1)' = 0
    BY <2>1, <2>2 DEF At
  <2>4. Offset(Len(frames) + 1)' = 0
    BY <2>2 DEF Offset
  <2>5. \A i, j \in 1..1 : ~(i < j)
    OBVIOUS
  <2> QED
    BY <2>1, <2>2, <2>3, <2>4, <2>5, RingNumbers DEF RoomInv
<1>2. CASE Restart
  BY <1>2 DEF Restart, RoomInv
<1>3. CASE UNCHANGED <<frames, taken, erxwrpt, erxrdpt, smashed>> /\ (pc # "boot" \/ pc' = "boot")
  <2>1. \A i : At(i)' = At(i)
    BY <1>3 DEF At
  <2>2. At(taken + 1)' = At(taken + 1)
    BY <1>3, <2>1
  <2>3. \A i : Offset(i)' = Offset(i)
    BY <1>3, <2>1, <2>2 DEF Offset
  <2>4. Offset(Len(frames) + 1)' = Offset(Len(frames) + 1)
    BY <1>3, <2>3
  <2> QED
    BY <1>3, <2>2, <2>3, <2>4 DEF RoomInv
<1>4. \/ ReceiveFrame \/ InitChip \/ Restart \/ Release
      \/ UNCHANGED <<frames, taken, erxwrpt, erxrdpt, smashed>> /\ (pc # "boot" \/ pc' = "boot")
  BY DEF Next, vars, rx, TransmitHalf, TransmitEnd, TransmitError, LinkIsUp, SetBroadcast, CallSend,
         Send, Poll, ReadHeader, ReadBody, CountDown
<1> QED
  BY <1>1, <1>2, <1>3, <1>4, ReceiveKeepsRoom, ReleaseKeepsRoom

\* The chip overwrites a frame that was not released only when the last release wrote an
\* address outside of the ring to ERXRDPT, which it does at the ring's end
\* (enc28j60PacketReceive(), line 413); with frames of any size and a ring of any.
THEOREM OnlyOverwritesWhenAstray == Spec => OverwritesOnlyWhenAstray
<1>1. Init => RoomInv
  BY DEF Init, RoomInv
<1>2. RingInv /\ RoomInv /\ [Next]_vars => [smashed' /\ ~smashed => erxrdpt \notin Ring]_smashed
  <2> SUFFICES ASSUME RingInv, RoomInv, [Next]_vars, smashed', ~smashed
               PROVE  erxrdpt \notin Ring
    OBVIOUS
  <2>1. ReceiveFrame
    BY DEF Next, vars, rx, TransmitHalf, TransmitEnd, TransmitError, InitChip, LinkIsUp, SetBroadcast,
           Restart, CallSend, Send, Poll, ReadHeader, ReadBody, Release, CountDown
  <2> QED
    BY <2>1, ReceiveKeepsRoom
<1> QED
  BY <1>1, <1>2, InitRing, NextKeepsRing, NextKeepsRoom, PTL DEF Spec, OverwritesOnlyWhenAstray

-------------------------------------------------------------------------------
(* Types. *)

\* The chip's count is of the frames that were not taken, also when one was overwritten.
CountInv ==
  /\ taken \in 0..Len(frames) /\ epktcnt \in 0..Len(frames)
  /\ pc \notin {"boot", "dec"} => epktcnt = Len(frames) - taken
  /\ pc = "dec" => epktcnt = Len(frames) - taken + 1
  /\ pc \in {"header", "body", "free"} => taken < Len(frames)

LEMMA NextKeepsCount == RingInv /\ CountInv /\ [Next]_vars => CountInv'
<1> SUFFICES ASSUME RingInv, CountInv, [Next]_vars PROVE CountInv'
  OBVIOUS
<1> DEFINE n == Len(frames)
<1>0. n \in Nat /\ pc \in Steps
  BY DEF RingInv, ChipInv
<1>1. CASE ReceiveFrame
  <2>1. Len(frames') = n + 1
    BY <1>1, ReceivedFrame
  <2>2. UNCHANGED <<pc, taken>> /\ epktcnt' = epktcnt + 1 /\ pc # "boot"
    BY <1>1 DEF ReceiveFrame
  <2>3. PICK t \in Nat, e \in Nat : t = taken /\ e = epktcnt
    BY <1>0 DEF CountInv
  <2>4. /\ t \in 0..n /\ e \in 0..n
        /\ pc \notin {"boot", "dec"} => e = n - t
        /\ pc = "dec" => e = n - t + 1
        /\ pc \in {"header", "body", "free"} => t < n
    BY <2>3 DEF CountInv
  <2>5. /\ pc' = pc /\ taken' = t /\ epktcnt' = e + 1
    BY <2>2, <2>3
  <2> HIDE DEF n
  <2>6. PICK m \in Nat : m = n + 1
    BY <1>0
  <2>7. /\ t \in 0..m /\ e + 1 \in 0..m
        /\ pc \notin {"boot", "dec"} => e + 1 = m - t
        /\ pc = "dec" => e + 1 = m - t + 1
        /\ pc \in {"header", "body", "free"} => t < m
    BY <2>4, <2>6, <1>0
  <2> QED
    BY <2>1, <2>5, <2>6, <2>7 DEF CountInv
<1>2. CASE InitChip
  <2>1. pc' = "idle" /\ epktcnt' = 0 /\ taken' = 0 /\ frames' = <<>>
    BY <1>2 DEF InitChip
  <2>2. Len(frames') = 0
    BY <2>1
  <2> QED
    BY <2>1, <2>2 DEF CountInv
<1>3. CASE Restart
  BY <1>3 DEF Restart, CountInv
<1>4. CASE Poll
  <2>1. UNCHANGED <<epktcnt, taken, frames>> /\ pc = "idle"
        /\ pc' = IF epktcnt # 0 THEN "header" ELSE "idle"
    BY <1>4 DEF Poll, rx, HasPacket
  <2> QED
    BY <1>0, <2>1 DEF CountInv
<1>5. CASE Release
  BY <1>0, <1>5 DEF Release, CountInv
<1>6. CASE CountDown
  BY <1>0, <1>6 DEF CountDown, CountedDown, CountInv
<1>7. CASE /\ UNCHANGED <<epktcnt, taken, frames>>
           /\ \/ pc' = pc
              \/ pc \in {"idle", "send"} /\ pc' \in {"idle", "send"}
              \/ pc = "header" /\ pc' = "body"
              \/ pc = "body" /\ pc' = "free"
  BY <1>7 DEF CountInv
<1>8. \/ ReceiveFrame \/ InitChip \/ Restart \/ Poll \/ Release \/ CountDown
      \/ /\ UNCHANGED <<epktcnt, taken, frames>>
         /\ \/ pc' = pc
            \/ pc \in {"idle", "send"} /\ pc' \in {"idle", "send"}
            \/ pc = "header" /\ pc' = "body"
            \/ pc = "body" /\ pc' = "free"
  BY DEF Next, vars, rx, TransmitHalf, TransmitEnd, TransmitError, LinkIsUp, SetBroadcast, CallSend,
         Send, ReadHeader, ReadBody
<1> QED
  BY <1>1, <1>2, <1>3, <1>4, <1>5, <1>6, <1>7, <1>8

Pointers == Words \cup JunkPointers
MaybePackets == Packets \cup {NoPacket}

DriverTypes ==
  /\ gNextPacketPtr \in Pointers /\ cur \in 0..Len(frames)
  /\ packet \in MaybePackets /\ (pc = "send" => packet \in Packets)
  /\ mem \in [Words -> 0..Len(frames)]
  /\ erxrdpt \in 0..8191
  /\ delivered \in Seq(0..Len(frames))

\* 13 bits of what is released.
LEMMA ReleasedFits ==
  ASSUME NEW p \in Pointers
  PROVE  ReleasedTo(p) \in 0..8191
<1>1. p \in Int
  BY ChipAssumption DEF Pointers, Words, Ring, RXSTART_INIT
<1>2. RXSTOP_INIT \in 0..8191
  BY RingNumbers
<1> DEFINE before == p - 1
           lower == before % 8192
<1>3. lower \in 0..8191
  <2>1. before \in Int
    BY <1>1
  <2> HIDE DEF before
  <2> QED
    BY <2>1
<1>4. ReleasedTo(p) = RXSTOP_INIT \/ ReleasedTo(p) = lower
  BY DEF ReleasedTo, RegisterWidth
<1> HIDE DEF before, lower
<1>5. CASE ReleasedTo(p) = RXSTOP_INIT
  BY <1>2, <1>5
<1>6. CASE ReleasedTo(p) = lower
  BY <1>3, <1>6
<1> QED
  BY <1>4, <1>5, <1>6

LEMMA ZeroIsWord == 0 \in Words
BY ChipAssumption DEF Words, Ring, RXSTART_INIT

LEMMA NextKeepsDriverTypes == RingInv /\ CountInv /\ DriverTypes /\ [Next]_vars => DriverTypes'
<1> SUFFICES ASSUME RingInv, CountInv, DriverTypes, [Next]_vars PROVE DriverTypes'
  OBVIOUS
<1>0. Len(frames) \in Nat /\ frames \in Seq(Frame)
  BY DEF RingInv, ChipInv
<1>1. CASE ReceiveFrame
  <2>1. Len(frames') = Len(frames) + 1
    BY <1>1, ReceivedFrame
  <2>2. UNCHANGED <<pc, gNextPacketPtr, cur, packet, erxrdpt, delivered>>
        /\ \E W : mem' = [a \in Words |-> IF a \in W THEN Len(frames) + 1 ELSE mem[a]]
    BY <1>1 DEF ReceiveFrame
  <2>3. PICK n \in Nat : n = Len(frames)
    BY <1>0
  <2>4. 0..n \subseteq 0..(n + 1) /\ n + 1 \in 0..(n + 1)
    OBVIOUS
  <2>5. mem' \in [Words -> 0..(n + 1)]
    BY <2>2, <2>3, <2>4 DEF DriverTypes
  <2>6. delivered \in Seq(0..(n + 1))
    <3>1. delivered \in Seq(0..n)
      BY <2>3 DEF DriverTypes
    <3>2. Len(delivered) \in Nat /\ delivered = [i \in 1..Len(delivered) |-> delivered[i]]
      BY <3>1
    <3>3. \A i \in 1..Len(delivered) : delivered[i] \in 0..(n + 1)
      BY <3>1, <2>4
    <3> QED
      BY <3>1, <3>2, <3>3
  <2> QED
    BY <2>1, <2>2, <2>3, <2>4, <2>5, <2>6 DEF DriverTypes
<1>2. CASE InitChip
  <2>1. /\ pc' = "idle" /\ gNextPacketPtr' = 0 /\ cur' = 0 /\ erxrdpt' = 0 /\ packet' = packet
        /\ mem' = [a \in Words |-> 0] /\ frames' = <<>> /\ delivered' = <<>>
    BY <1>2 DEF InitChip, RXSTART_INIT
  <2>2. Len(frames') = 0 /\ <<>> \in Seq(0..0) /\ 0 \in 0..0
    BY <2>1
  <2> QED
    BY <2>1, <2>2, ZeroIsWord DEF DriverTypes, Pointers
<1>3. CASE Restart
  BY <1>0, <1>3, ZeroIsWord DEF Restart, DriverTypes, Pointers, MaybePackets
<1>4. CASE CallSend
  BY <1>4 DEF CallSend, rx, DriverTypes, MaybePackets
<1>5. CASE ReadHeader
  <2>1. /\ pc' = "body" /\ UNCHANGED <<mem, erxrdpt, delivered, packet, frames>>
    BY <1>5 DEF ReadHeader
  <2>2. cur' \in 0..Len(frames) /\ gNextPacketPtr' \in Pointers
    <3>1. CASE HeaderAt(gNextPacketPtr) = {}
      BY <1>0, <1>5, <3>1 DEF ReadHeader, Pointers
    <3>2. CASE HeaderAt(gNextPacketPtr) # {}
      <4>1. PICK i \in HeaderAt(gNextPacketPtr) : cur' = i /\ gNextPacketPtr' = NextOf(frames[i])
        BY <1>5, <3>2 DEF ReadHeader
      <4>2. i \in 1..Len(frames)
        BY DEF HeaderAt
      <4>3. frames[i] \in Frame
        BY <1>0, <4>2
      <4> QED
        BY <1>0, <4>1, <4>2, <4>3, RingFacts DEF Pointers
    <3> QED
      BY <3>1, <3>2
  <2> QED
    BY <2>1, <2>2 DEF DriverTypes
<1>6. CASE ReadBody
  <2>1. /\ pc' = "free" /\ UNCHANGED <<gNextPacketPtr, cur, mem, erxrdpt, packet, frames>>
    BY <1>6 DEF ReadBody
  <2> DEFINE counts == 0..Len(frames)
  <2>2. delivered \in Seq(counts) /\ cur \in counts /\ 0 \in counts
    BY <1>0 DEF DriverTypes
  <2>3. \/ delivered' = delivered
        \/ delivered' = Append(delivered, cur)
        \/ delivered' = Append(delivered, 0)
    BY <1>6 DEF ReadBody
  <2>4. delivered' \in Seq(counts)
    <3> HIDE DEF counts
    <3> QED
      BY <2>2, <2>3
  <2>5. delivered' \in Seq(0..Len(frames'))
    BY <2>1, <2>4
  <2>6. pc' # "send" /\ gNextPacketPtr \in Pointers /\ packet \in MaybePackets
    BY <2>1 DEF DriverTypes
  <2> QED
    BY <2>1, <2>5, <2>6 DEF DriverTypes
<1>7. CASE Release
  <2>0. gNextPacketPtr \in Pointers /\ erxrdpt' = ReleasedTo(gNextPacketPtr)
    BY <1>7 DEF Release, DriverTypes
  <2>1. erxrdpt' \in 0..8191
    BY <2>0, ReleasedFits
  <2>2. /\ UNCHANGED <<gNextPacketPtr, cur, mem, packet, delivered, frames>>
        /\ pc' # "send"
    BY <1>7 DEF Release
  <2> QED
    BY <2>1, <2>2 DEF DriverTypes
<1>8. CASE CountDown
  BY <1>0, <1>8 DEF CountDown, DriverTypes
<1>9. CASE /\ UNCHANGED <<gNextPacketPtr, cur, packet, mem, erxrdpt, delivered, frames>>
           /\ pc' # "send" \/ pc' = pc
  BY <1>9 DEF DriverTypes
<1>10. \/ ReceiveFrame \/ InitChip \/ Restart \/ CallSend \/ ReadHeader \/ ReadBody \/ Release \/ CountDown
       \/ /\ UNCHANGED <<gNextPacketPtr, cur, packet, mem, erxrdpt, delivered, frames>>
          /\ pc' # "send" \/ pc' = pc
  BY DEF Next, vars, rx, TransmitHalf, TransmitEnd, TransmitError, LinkIsUp, SetBroadcast, Send, Poll
<1> QED
  BY <1>1, <1>2, <1>3, <1>4, <1>5, <1>6, <1>7, <1>8, <1>9, <1>10

TxTypes == [rts : BOOLEAN, txerif : BOOLEAN, stalled : BOOLEAN,
            buffer : Packets \cup {NoPacket}, out : Packets \cup {NoPacket}]

LEMMA NextKeepsTxTypes == DriverTypes /\ tx \in TxTypes /\ [Next]_vars => tx' \in TxTypes
<1> SUFFICES ASSUME DriverTypes, tx \in TxTypes, [Next]_vars PROVE tx' \in TxTypes
  OBVIOUS
<1>1. CASE TransmitHalf \/ TransmitEnd \/ TransmitError
  BY <1>1 DEF TransmitHalf, TransmitEnd, TransmitError, TxTypes
<1>2. CASE InitChip
  <2>1. tx' = IdleTransmitter
    BY <1>2 DEF InitChip
  <2> QED
    BY <2>1 DEF IdleTransmitter, TxTypes
<1>3. CASE Send
  <2>1. Unblocked(tx) \in TxTypes
    BY DEF Unblocked, TxTypes
  <2>2. packet \in Packets
    BY <1>3 DEF Send, DriverTypes
  <2>3. tx' = [Unblocked(tx) EXCEPT !.buffer = packet, !.rts = TRUE]
    BY <1>3 DEF Send
  <2> QED
    BY <2>1, <2>2, <2>3 DEF TxTypes
<1>4. CASE UNCHANGED tx
  BY <1>4
<1>5. \/ TransmitHalf \/ TransmitEnd \/ TransmitError \/ InitChip \/ Send
      \/ UNCHANGED tx
  BY DEF Next, vars, ReceiveFrame, LinkIsUp, SetBroadcast, Restart, CallSend, Poll, ReadHeader,
         ReadBody, Release, CountDown
<1> QED
  BY <1>1, <1>2, <1>3, <1>4, <1>5

\* The driver's and the chip's variables stay within their ranges: ERXRDPT in its 13 bits
\* whatever pointer was found in a header that was overwritten, the chip's count at or
\* above 0 although it goes on counting between the driver's steps.
THEOREM ChipTypesAreKept == Spec => []TypeOK
<1> DEFINE Inv == RingInv /\ CountInv /\ DriverTypes /\ BankInv /\ tx \in TxTypes
<1>1. Init => Inv
  <2> SUFFICES ASSUME Init PROVE CountInv /\ DriverTypes /\ tx \in TxTypes
    BY InitRing, InitBanks
  <2>1. Len(frames) = 0 /\ taken = 0 /\ epktcnt = 0 /\ pc = "boot" /\ gNextPacketPtr = 0 /\ cur = 0
        /\ packet = NoPacket /\ mem = [a \in Words |-> 0] /\ erxrdpt = 0 /\ delivered = <<>>
        /\ tx = IdleTransmitter
    BY DEF Init
  <2>2. CountInv
    BY <2>1 DEF CountInv
  <2>3. DriverTypes
    BY <2>1, ZeroIsWord DEF DriverTypes, Pointers, MaybePackets
  <2> QED
    BY <2>1, <2>2, <2>3 DEF IdleTransmitter, TxTypes
<1>2. Inv /\ [Next]_vars => Inv'
  BY NextKeepsRing, NextKeepsCount, NextKeepsDriverTypes, NextKeepsBanks, NextKeepsTxTypes
<1>3. Inv => TypeOK
  BY DEF TypeOK, RingInv, ChipInv, Steps, Between, CountInv, DriverTypes, Pointers, MaybePackets,
         BankInv, TxTypes, RegisterWidth
<1> QED
  BY <1>1, <1>2, <1>3, PTL DEF Spec
===============================================================================
