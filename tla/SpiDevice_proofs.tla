-------------------------- MODULE SpiDevice_proofs --------------------------
(***************************************************************************)
(* Proofs about SpiDevice, for FIFOs, thresholds and transfers of any      *)
(* size, as long as the next call does not overtake the end of a firmware  *)
(* piece; it cannot if no write is longer than the TX threshold.           *)
(*                                                                         *)
(* A bus transfers a byte in for a byte out, and bytes are only ever lost  *)
(* on the way in.  So the invariant counts: the dummy bytes pushed, those  *)
(* still in the TX FIFO or in the shift register, and the bytes that came  *)
(* in.  A read is reported when as many were stored as were pushed at all; *)
(* none can have been lost, and they are in order.                         *)
(***************************************************************************)
EXTENDS SpiDevice, TLAPS

Values ==
  /\ pc \in {"idle", "set_data", "writing", "flush", "start", "set_dummy", "reading"}
  /\ len \in {0} \union WriteLens \union ReadLens
  /\ pc \in {"set_data", "writing"} => len \in WriteLens /\ wrote
  /\ pc = "idle" /\ wrote => len \in WriteLens
  /\ pc \in {"flush", "start", "set_dummy", "reading"} => len \in ReadLens /\ ~wrote
  /\ TrDone \in {0, 1} /\ masterRxDone \in {0, 1}
  /\ wrote \in BOOLEAN /\ tx_busy \in BOOLEAN /\ rx_busy \in BOOLEAN
  /\ TxOwn \in BOOLEAN /\ RxOwn \in BOOLEAN
  /\ tx_imr \in BOOLEAN /\ rx_imr \in BOOLEAN /\ isr \in BOOLEAN /\ astray \in BOOLEAN
  /\ TxLength \in Nat /\ RxLength \in Nat /\ gave \in Nat /\ TxNext \in Nat \ {0}
  /\ tx_fifo \in Seq(Nat) /\ rx_fifo \in Seq(Nat) /\ buf \in Seq(Nat)
  /\ shift \in Nat \union {Nothing}
  /\ Len(tx_fifo) <= FifoLen /\ Len(rx_fifo) <= FifoLen

(* Some transfer is as long.                                               *)
WithinTransfer(n) == \E m \in {0} \union WriteLens \union ReadLens : n <= m
WithinRead(n) == \E m \in {0} \union ReadLens : n <= m

Bounds ==
  /\ WithinTransfer(TxLength) /\ WithinTransfer(gave)
  /\ WithinRead(RxLength) /\ WithinRead(Len(buf))

(* The handler runs for an enabled interrupt; the TX interrupt goes off    *)
(* with nothing to push and the bus idle; the RX interrupt with nothing to *)
(* store.  Outside of transfers nothing moves but the end of a firmware    *)
(* piece, and what comes in for it is not stored for any call.             *)
Interrupts ==
  /\ isr => tx_imr
  /\ ~tx_imr => tx_fifo = <<>> /\ shift = Nothing
  /\ ~tx_imr /\ pc \notin {"set_data", "set_dummy"} => TxLength = 0
  /\ rx_busy = rx_imr /\ (rx_imr <=> RxLength > 0)
  /\ pc \in {"set_data", "flush", "start", "set_dummy"} => ~tx_imr /\ ~RxPending
  /\ pc = "idle" /\ tx_imr => wrote /\ len > TxThreshold /\ TxLength = 0 /\ ~RxOwn
  /\ pc = "idle" /\ RxOwn => ~RxPending

(* A write has given what it has not left to push, and nothing else is in  *)
(* the FIFO.                                                               *)
Writing ==
  /\ pc \notin {"set_data", "writing"} => ~tx_busy
  /\ pc = "set_data" => tx_busy /\ TxLength = len /\ gave = 0 /\ TrDone = 0 /\ ~RxOwn
  /\ pc = "writing" /\ tx_busy =>
       /\ gave + TxLength = len /\ TxLength > 0 /\ TrDone = 0
       /\ TxOwn /\ tx_imr /\ Len(tx_fifo) <= gave /\ ~RxOwn
  /\ pc = "writing" /\ ~tx_busy =>
       /\ TxLength = 0 /\ gave = len
       /\ Len(tx_fifo) <= len /\ ~RxOwn

(* A read before its dummy bytes, and one that was refused.                *)
Starting ==
  /\ pc \in {"flush", "start"} => masterRxDone = 0 /\ ~RxOwn /\ buf = <<>>
  /\ pc \in {"start", "set_dummy"} => rx_fifo = <<>>
  /\ pc = "set_dummy" =>
       /\ masterRxDone = 0 /\ RxOwn /\ buf = <<>>
       /\ RxLength = len /\ TxLength = len
  /\ pc = "reading" /\ ~RxOwn =>
       masterRxDone = 0 /\ ~tx_imr /\ rx_fifo = <<>> /\ rx_imr

(* The bytes that came in for the dummy bytes of this read.                *)
CameIn == TxNext - 1 - Len(tx_fifo) - (IF shift = Nothing THEN 0 ELSE 1)

(* A read with its dummy bytes: what is stored and missing, and what is    *)
(* pushed and left; which byte is where on its way out; and that those     *)
(* that came in are all there, in order, unless there are fewer.           *)
Counted ==
  /\ Len(buf) + RxLength = len
  /\ TxNext - 1 + TxLength = len
  /\ masterRxDone = 1 <=> RxLength = 0

Outgoing ==
  /\ \A i \in 1 .. Len(tx_fifo) : tx_fifo[i] = TxNext - 1 - Len(tx_fifo) + i
  /\ shift # Nothing => shift = TxNext - 1 - Len(tx_fifo)

Incoming ==
  /\ Len(buf) + Len(rx_fifo) <= CameIn
  /\ Len(buf) + Len(rx_fifo) = CameIn =>
       /\ \A i \in 1 .. Len(buf) : buf[i] = i
       /\ \A i \in 1 .. Len(rx_fifo) : rx_fifo[i] = Len(buf) + i

Reading == pc = "reading" /\ RxOwn => Counted /\ Outgoing /\ Incoming

Inv ==
  /\ Values
  /\ Bounds
  /\ Interrupts
  /\ Writing
  /\ Starting
  /\ Reading

(* Nothing is transferred before the first call.                           *)
LEMMA InitInv == Init => Inv
<1> SUFFICES ASSUME Init PROVE Inv
  OBVIOUS
<1> USE SpiAssumption DEF Init
<1>1. Values
  <2>1. <<>> \in Seq(Nat) /\ Len(<<>>) = 0
    OBVIOUS
  <2>2. /\ TxLength \in Nat /\ RxLength \in Nat /\ gave \in Nat /\ TxNext \in Nat \ {0}
        /\ tx_fifo \in Seq(Nat) /\ rx_fifo \in Seq(Nat) /\ buf \in Seq(Nat)
        /\ Len(tx_fifo) <= FifoLen /\ Len(rx_fifo) <= FifoLen
        /\ shift \in Nat \union {Nothing} /\ len = 0
        /\ TrDone \in {0, 1} /\ masterRxDone \in {0, 1}
    BY <2>1
  <2> QED
    BY <2>2, Zenon DEF Values
<1>2. Bounds
  BY DEF Bounds, WithinTransfer, WithinRead
<1>3. Interrupts
  <2>1. ~(RxLength > 0)
    OBVIOUS
  <2> QED
    BY <2>1, Zenon DEF Interrupts, RxPending
<1>4. Writing
  BY DEF Writing
<1>5. Starting /\ Reading
  BY DEF Starting, Reading
<1> QED
  BY <1>1, <1>2, <1>3, <1>4, <1>5 DEF Inv

(* What is left of a sequence of bytes when the first is taken.            *)
LEMMA TakeFirst ==
  ASSUME NEW s \in Seq(Nat), s # <<>>, NEW t, t = Tail(s)
  PROVE  /\ Head(s) = s[1] /\ Head(s) \in Nat
         /\ t \in Seq(Nat) /\ Len(t) = Len(s) - 1 /\ Len(s) \in Nat /\ Len(s) > 0
         /\ \A i \in 1 .. Len(s) - 1 : t[i] = s[i + 1]
  OBVIOUS

(* A byte behind the others.                                               *)
LEMMA PutLast ==
  ASSUME NEW s \in Seq(Nat), NEW x \in Nat, NEW t, t = Append(s, x)
  PROVE  /\ t \in Seq(Nat) /\ Len(t) = Len(s) + 1 /\ Len(s) \in Nat
         /\ \A i \in 1 .. Len(s) : t[i] = s[i]
         /\ t[Len(s) + 1] = x
  OBVIOUS

(* One sequence of bytes behind another.                                   *)
LEMMA Behind ==
  ASSUME NEW s \in Seq(Nat), NEW p \in Seq(Nat)
  PROVE  /\ s \o p \in Seq(Nat) /\ Len(s \o p) = Len(s) + Len(p) /\ Len(s) \in Nat
         /\ \A i \in 1 .. Len(s) : (s \o p)[i] = s[i]
         /\ \A i \in 1 .. Len(p) : (s \o p)[Len(s) + i] = p[i]
  OBVIOUS

(* The first k bytes of one sequence moved behind another.                 *)
LEMMA MoveFirst ==
  ASSUME NEW b \in Seq(Nat), NEW f \in Seq(Nat), NEW k \in 0 .. Len(f)
  PROVE  /\ SubSeq(f, 1, k) \in Seq(Nat) /\ Len(SubSeq(f, 1, k)) = k
         /\ b \o SubSeq(f, 1, k) \in Seq(Nat) /\ Len(b \o SubSeq(f, 1, k)) = Len(b) + k
         /\ SubSeq(f, k + 1, Len(f)) \in Seq(Nat)
         /\ Len(SubSeq(f, k + 1, Len(f))) = Len(f) - k
         /\ \A i \in 1 .. Len(b) : (b \o SubSeq(f, 1, k))[i] = b[i]
         /\ \A i \in 1 .. k : (b \o SubSeq(f, 1, k))[Len(b) + i] = f[i]
         /\ \A i \in 1 .. Len(f) - k : SubSeq(f, k + 1, Len(f))[i] = f[k + i]
<1> DEFINE first == SubSeq(f, 1, k)
           rest == SubSeq(f, k + 1, Len(f))
<1>1. first \in Seq(Nat) /\ Len(first) = k /\ \A i \in 1 .. k : first[i] = f[i]
  OBVIOUS
<1>2. rest \in Seq(Nat) /\ Len(rest) = Len(f) - k
  OBVIOUS
<1>3. \A i \in 1 .. Len(f) - k : rest[i] = f[k + i]
  OBVIOUS
<1> HIDE DEF first, rest
<1>4. /\ b \o first \in Seq(Nat) /\ Len(b \o first) = Len(b) + k
      /\ \A i \in 1 .. Len(b) : (b \o first)[i] = b[i]
      /\ \A i \in 1 .. k : (b \o first)[Len(b) + i] = f[i]
  BY <1>1, Behind
<1> QED
  BY <1>1, <1>2, <1>3, <1>4 DEF first, rest

(* Pushed is a sequence of bytes.                                          *)
LEMMA PushedBytes ==
  ASSUME Values, NEW k \in Nat
  PROVE  /\ Pushed(k) \in Seq(Nat) /\ Len(Pushed(k)) = k
         /\ pc = "reading" => \A i \in 1 .. k : Pushed(k)[i] = TxNext + i - 1
<1>1. Pushed(k) \in [1 .. k -> Nat]
  BY DEF Pushed, Values, Junk
<1>2. Pushed(k) \in Seq(Nat)
  BY <1>1
<1> QED
  BY <1>1, <1>2 DEF Pushed

(* What is left of an earlier call, seen as a sequence of bytes.           *)
LEMMA AllJunk ==
  ASSUME NEW s \in Seq(Nat)
  PROVE  LET j == [i \in DOMAIN s |-> Junk]
         IN  j \in Seq(Nat) /\ Len(j) = Len(s)
<1>1. Len(s) \in Nat /\ DOMAIN s = 1 .. Len(s)
  OBVIOUS
<1> DEFINE j == [i \in 1 .. Len(s) |-> Junk]
<1>2. j \in Seq(Nat) /\ Len(j) = Len(s)
  BY <1>1 DEF Junk
<1> QED
  BY <1>1, <1>2

(* Lengths that some transfer has.                                         *)
LEMMA Within ==
  /\ \A m \in ReadLens : WithinRead(m) /\ WithinTransfer(m)
  /\ \A m \in WriteLens : WithinTransfer(m)
  /\ WithinRead(0)
  /\ \A n, k \in Nat : k <= n /\ WithinTransfer(n) => WithinTransfer(k)
  /\ \A n, k \in Nat : k <= n /\ WithinRead(n) => WithinRead(k)
  BY SpiAssumption DEF WithinRead, WithinTransfer

(* The handler stores the first bytes that are there, as far as they are   *)
(* wanted.                                                                 *)
LEMMA StoresFirst ==
  ASSUME Values, IsrReceive, RxPending
  PROVE  \E k \in 0 .. Len(rx_fifo) :
           /\ k <= RxLength /\ RxLength' = RxLength - k
           /\ rx_fifo' \in Seq(Nat) /\ Len(rx_fifo') = Len(rx_fifo) - k
           /\ \A i \in 1 .. Len(rx_fifo) - k : rx_fifo'[i] = rx_fifo[k + i]
           /\ buf' \in Seq(Nat) /\ Len(buf') = Len(buf) + (IF RxOwn THEN k ELSE 0)
           /\ \A i \in 1 .. Len(buf) : buf'[i] = buf[i]
           /\ RxOwn => \A i \in 1 .. k : buf'[Len(buf) + i] = rx_fifo[i]
<1>1. /\ Len(rx_fifo) \in Nat /\ RxLength \in Nat /\ Len(buf) \in Nat
      /\ rx_fifo \in Seq(Nat) /\ buf \in Seq(Nat)
  BY DEF Values
<1> DEFINE k == Smaller(Len(rx_fifo), RxLength)
<1>2. k \in 0 .. Len(rx_fifo) /\ k <= RxLength
  BY <1>1 DEF Smaller
<1>3. /\ RxLength' = RxLength - k
      /\ rx_fifo' = SubSeq(rx_fifo, k + 1, Len(rx_fifo))
      /\ buf' = IF RxOwn THEN buf \o SubSeq(rx_fifo, 1, k) ELSE buf
  BY DEF IsrReceive
<1> HIDE DEF k
<1>4. /\ SubSeq(rx_fifo, k + 1, Len(rx_fifo)) \in Seq(Nat)
      /\ Len(SubSeq(rx_fifo, k + 1, Len(rx_fifo))) = Len(rx_fifo) - k
      /\ \A i \in 1 .. Len(rx_fifo) - k :
           SubSeq(rx_fifo, k + 1, Len(rx_fifo))[i] = rx_fifo[k + i]
  BY <1>1, <1>2, MoveFirst
<1>5. /\ buf \o SubSeq(rx_fifo, 1, k) \in Seq(Nat)
      /\ Len(buf \o SubSeq(rx_fifo, 1, k)) = Len(buf) + k
      /\ \A i \in 1 .. Len(buf) : (buf \o SubSeq(rx_fifo, 1, k))[i] = buf[i]
      /\ \A i \in 1 .. k : (buf \o SubSeq(rx_fifo, 1, k))[Len(buf) + i] = rx_fifo[i]
  BY <1>1, <1>2, MoveFirst, Zenon
<1>6. CASE RxOwn
  BY <1>2, <1>3, <1>4, <1>5, <1>6
<1>7. CASE ~RxOwn
  <2>1. buf' = buf
    BY <1>3, <1>7
  <2> QED
    BY <1>1, <1>2, <1>3, <1>4, <1>7, <2>1
<1> QED
  BY <1>6, <1>7

(* The handler pushes bytes as far as there is room.                       *)
LEMMA PushesSome ==
  ASSUME Values, IsrSend
  PROVE  \E k \in 0 .. TxLength :
           /\ k <= FifoLen - Len(tx_fifo) /\ (k = TxLength \/ k = FifoLen - Len(tx_fifo))
           /\ gave' = IF TxOwn /\ pc = "writing" THEN gave + k ELSE gave
           /\ TxNext' = TxNext + k /\ TxLength' = TxLength - k
           /\ tx_fifo' \in Seq(Nat) /\ Len(tx_fifo') = Len(tx_fifo) + k
           /\ \A i \in 1 .. Len(tx_fifo) : tx_fifo'[i] = tx_fifo[i]
           /\ pc = "reading" =>
                \A i \in 1 .. k : tx_fifo'[Len(tx_fifo) + i] = TxNext + i - 1
<1>1. /\ Len(tx_fifo) \in Nat /\ TxLength \in Nat /\ Len(tx_fifo) <= FifoLen
      /\ tx_fifo \in Seq(Nat)
  BY DEF Values
<1> DEFINE k == Smaller(TxLength, FifoLen - Len(tx_fifo))
<1>2. /\ k \in 0 .. TxLength /\ k <= FifoLen - Len(tx_fifo)
      /\ k = TxLength \/ k = FifoLen - Len(tx_fifo)
  BY <1>1, SpiAssumption DEF Smaller
<1>3. /\ tx_fifo' = tx_fifo \o Pushed(k)
      /\ gave' = IF TxOwn /\ pc = "writing" THEN gave + k ELSE gave
      /\ TxNext' = TxNext + k /\ TxLength' = TxLength - k
  BY DEF IsrSend
<1> HIDE DEF k
<1>4. /\ Pushed(k) \in Seq(Nat) /\ Len(Pushed(k)) = k
      /\ pc = "reading" => \A i \in 1 .. k : Pushed(k)[i] = TxNext + i - 1
  BY <1>1, <1>2, PushedBytes
<1>5. /\ tx_fifo \o Pushed(k) \in Seq(Nat)
      /\ Len(tx_fifo \o Pushed(k)) = Len(tx_fifo) + Len(Pushed(k))
      /\ \A i \in 1 .. Len(tx_fifo) : (tx_fifo \o Pushed(k))[i] = tx_fifo[i]
      /\ \A i \in 1 .. Len(Pushed(k)) :
           (tx_fifo \o Pushed(k))[Len(tx_fifo) + i] = Pushed(k)[i]
  BY <1>1, <1>4, Behind, Zenon
<1> QED
  BY <1>2, <1>3, <1>4, <1>5

(* A byte leaves the TX FIFO: it is the next one on its way out.           *)
LEMMA LoadShiftInv ==
  ASSUME Inv, LoadShift PROVE Inv'
<1> USE SpiAssumption
    DEF Inv, LoadShift, call, flags, txSide, rxSide, bus
<1>1. Values'
  BY DEF Values
<1>2. Bounds'
  BY DEF Values, Bounds, WithinTransfer, WithinRead
<1>3. Interrupts'
  BY DEF Values, Interrupts, Writing, RxPending, TxPending, SSI_Busy
<1>4. Writing'
  BY DEF Values, Interrupts, Writing, RxPending, TxPending, SSI_Busy
<1>5. Starting'
  BY DEF Values, Interrupts, Writing, Starting, RxPending, TxPending, SSI_Busy
<1>6. Reading'
  <2>1. /\ shift' = tx_fifo[1] /\ shift' \in Nat
        /\ Len(tx_fifo') = Len(tx_fifo) - 1 /\ Len(tx_fifo) \in Nat /\ Len(tx_fifo) > 0
        /\ \A i \in 1 .. Len(tx_fifo) - 1 : tx_fifo'[i] = tx_fifo[i + 1]
    BY TakeFirst DEF Values
  <2>2. CameIn' = CameIn
    BY <2>1 DEF CameIn, Values, Nothing
  <2>3. Outgoing => Outgoing'
    BY <2>1 DEF Outgoing, Values
  <2>4. Counted => Counted'
    BY DEF Counted
  <2>5. Incoming => Incoming'
    BY <2>2 DEF Incoming
  <2> QED
    BY <2>3, <2>4, <2>5 DEF Reading
<1> QED
  BY <1>1, <1>2, <1>3, <1>4, <1>5, <1>6

(* A byte comes in behind the others, or is lost and leaves fewer for good. *)
LEMMA ShiftDoneInv ==
  ASSUME Inv, ShiftDone PROVE Inv'
<1> USE SpiAssumption
    DEF Inv, ShiftDone, call, flags, txSide, rxSide, bus
<1>1. Values'
  BY DEF Values
<1>2. Bounds'
  BY DEF Values, Bounds, WithinTransfer, WithinRead
<1>3. Interrupts'
  BY DEF Values, Interrupts, Writing, RxPending, TxPending, SSI_Busy
<1>4. Writing'
  BY DEF Values, Interrupts, Writing, RxPending, TxPending, SSI_Busy
<1>5. Starting'
  BY DEF Values, Interrupts, Writing, Starting, RxPending, TxPending, SSI_Busy
<1>6. Reading'
  <2>1. CameIn' = CameIn + 1 /\ CameIn \in Int
    BY DEF CameIn, Values, Nothing
  <2>2. Outgoing => Outgoing'
    BY DEF Outgoing
  <2>3. Counted => Counted'
    BY DEF Counted
  <2>4. ASSUME Incoming, Outgoing PROVE Incoming'
    <3>1. Len(buf) \in Nat /\ Len(rx_fifo) \in Nat
      BY DEF Values
    <3>2. CASE Len(rx_fifo) < FifoLen
      <4>1. shift = CameIn + 1
        BY <2>4 DEF Outgoing, CameIn, Values
      <4>2. /\ Len(rx_fifo') = Len(rx_fifo) + 1
            /\ \A i \in 1 .. Len(rx_fifo) : rx_fifo'[i] = rx_fifo[i]
            /\ rx_fifo'[Len(rx_fifo) + 1] = shift
        BY <3>2, PutLast DEF Values
      <4>3. ASSUME Len(buf) + Len(rx_fifo) = CameIn, NEW i \in 1 .. Len(rx_fifo) + 1
            PROVE  rx_fifo'[i] = Len(buf) + i
        <5>1. CASE i \in 1 .. Len(rx_fifo)
          BY <2>4, <4>2, <4>3, <5>1 DEF Incoming
        <5>2. CASE i = Len(rx_fifo) + 1
          BY <3>1, <4>1, <4>2, <4>3, <5>2
        <5> QED
          BY <3>1, <5>1, <5>2
      <4>4. buf' = buf /\ CameIn' = CameIn + 1 /\ CameIn \in Int
        BY <2>1
      <4> QED
        BY <2>4, <3>1, <4>2, <4>3, <4>4 DEF Incoming
    <3>3. CASE ~(Len(rx_fifo) < FifoLen)
      BY <2>1, <2>4, <3>1, <3>3 DEF Incoming
    <3> QED
      BY <3>2, <3>3
  <2> QED
    BY <2>2, <2>3, <2>4 DEF Reading
<1> QED
  BY <1>1, <1>2, <1>3, <1>4, <1>5, <1>6

(* What is stored was there, and in order.                                 *)
LEMMA IsrReceiveInv ==
  ASSUME Inv, IsrReceive PROVE Inv'
<1> USE SpiAssumption
    DEF Inv, call, flags, txSide, rxSide, bus
<1>1. Values'
  <2>1. CASE RxPending
    <3>1. PICK k \in 0 .. Len(rx_fifo) :
            /\ k <= RxLength /\ RxLength' = RxLength - k
            /\ buf' \in Seq(Nat)
            /\ rx_fifo' \in Seq(Nat) /\ Len(rx_fifo') = Len(rx_fifo) - k
      BY <2>1, StoresFirst
    <3>2. masterRxDone' \in {0, 1}
      BY <2>1 DEF Values, IsrReceive
    <3>3. RxLength' \in Nat /\ Len(rx_fifo') <= FifoLen
      BY <3>1 DEF Values
    <3>4. rx_imr' \in BOOLEAN /\ rx_busy' = rx_imr'
      BY <2>1 DEF IsrReceive
    <3>5. isr' \in BOOLEAN
      BY DEF TxPending, IsrReceive
    <3>6. astray' \in BOOLEAN
      BY <2>1 DEF IsrReceive
    <3>7. /\ pc' = pc /\ len' = len /\ wrote' = wrote /\ TrDone' = TrDone /\ tx_busy' = tx_busy
          /\ TxLength' = TxLength /\ TxOwn' = TxOwn /\ TxNext' = TxNext /\ tx_imr' = tx_imr
          /\ gave' = gave /\ RxOwn' = RxOwn /\ tx_fifo' = tx_fifo /\ shift' = shift
      BY DEF IsrReceive
    <3> QED
      BY <3>1, <3>2, <3>3, <3>4, <3>5, <3>6, <3>7 DEF Values
  <2>2. CASE ~RxPending
    <3>1. isr' \in BOOLEAN
      BY DEF TxPending, IsrReceive
    <3>2. /\ pc' = pc /\ len' = len /\ wrote' = wrote /\ TrDone' = TrDone /\ tx_busy' = tx_busy
          /\ TxLength' = TxLength /\ TxOwn' = TxOwn /\ TxNext' = TxNext /\ tx_imr' = tx_imr
          /\ gave' = gave /\ RxOwn' = RxOwn /\ tx_fifo' = tx_fifo /\ shift' = shift
          /\ buf' = buf /\ astray' = astray /\ rx_fifo' = rx_fifo /\ RxLength' = RxLength
          /\ rx_imr' = rx_imr /\ rx_busy' = rx_busy /\ masterRxDone' = masterRxDone
      BY <2>2 DEF IsrReceive
    <3> QED
      BY <3>1, <3>2 DEF Values
  <2> QED
    BY <2>1, <2>2
<1>2. Bounds'
  <2>1. CASE RxPending
    <3>1. PICK k \in 0 .. Len(rx_fifo) :
            /\ k <= RxLength /\ RxLength' = RxLength - k
            /\ buf' \in Seq(Nat) /\ Len(buf') = Len(buf) + (IF RxOwn THEN k ELSE 0)
      BY <2>1, StoresFirst
    <3>2. WithinRead(RxLength')
      BY <3>1, Within DEF Values, Bounds
    <3>3. WithinRead(Len(buf'))
      <4>1. CASE RxOwn
        <5>1. Len(buf') = Len(buf) + k
          BY <3>1, <4>1
        <5>2. CASE pc = "reading"
          <6>1. Len(buf') <= len /\ len \in ReadLens /\ len \in Nat /\ Len(buf') \in Nat
            BY <3>1, <4>1, <5>1, <5>2 DEF Values, Reading, Counted
          <6> QED
            BY <6>1, Within
        <5>3. CASE pc # "reading"
          BY <2>1, <4>1, <5>3 DEF Values, Interrupts, Writing
        <5> QED
          BY <5>2, <5>3
      <4>2. CASE ~RxOwn
        <5>1. Len(buf') = Len(buf) /\ Len(buf) \in Nat
          BY <3>1, <4>2 DEF Values
        <5> QED
          BY <5>1, Zenon DEF Bounds
      <4> QED
        BY <4>1, <4>2
    <3> QED
      BY <3>2, <3>3 DEF Bounds, WithinRead, WithinTransfer, IsrReceive
  <2>2. CASE ~RxPending
    BY <2>2 DEF Bounds, WithinRead, WithinTransfer, IsrReceive
  <2> QED
    BY <2>1, <2>2
<1>3. Interrupts'
  BY DEF Values, Interrupts, Writing, RxPending, TxPending, SSI_Busy, IsrReceive
<1>4. Writing'
  BY DEF Values, Interrupts, Writing, RxPending, TxPending, SSI_Busy, IsrReceive
<1>5. Starting'
  BY DEF Values, Interrupts, Writing, Starting, RxPending, TxPending, SSI_Busy, IsrReceive
<1>6. Reading'
  <2>1. CASE RxPending /\ RxOwn /\ pc = "reading"
    <3>1. PICK k \in 0 .. Len(rx_fifo) :
            /\ k <= RxLength /\ RxLength' = RxLength - k
            /\ Len(rx_fifo') = Len(rx_fifo) - k
            /\ \A i \in 1 .. Len(rx_fifo) - k : rx_fifo'[i] = rx_fifo[k + i]
            /\ Len(buf') = Len(buf) + (IF RxOwn THEN k ELSE 0)
            /\ \A i \in 1 .. Len(buf) : buf'[i] = buf[i]
            /\ RxOwn => \A i \in 1 .. k : buf'[Len(buf) + i] = rx_fifo[i]
      BY <2>1, StoresFirst
    <3>2. /\ Len(buf') = Len(buf) + k /\ Len(rx_fifo') = Len(rx_fifo) - k
          /\ \A i \in 1 .. Len(buf) : buf'[i] = buf[i]
          /\ \A i \in 1 .. k : buf'[Len(buf) + i] = rx_fifo[i]
          /\ \A i \in 1 .. Len(rx_fifo) - k : rx_fifo'[i] = rx_fifo[k + i]
      BY <2>1, <3>1
    <3>3. Len(buf) \in Nat /\ Len(rx_fifo) \in Nat /\ RxLength \in Nat
      BY DEF Values
    <3>4. Counted /\ Outgoing /\ Incoming
      BY <2>1 DEF Reading
    <3>5. Counted'
      <4>1. RxLength > 0
        BY <2>1, Zenon DEF Interrupts, RxPending
      <4>2. masterRxDone' = 1 <=> RxLength' = 0
        BY <2>1, <3>1, <3>3, <3>4, <4>1 DEF Counted, IsrReceive, Values
      <4> QED
        BY <3>1, <3>2, <3>3, <3>4, <4>2 DEF Counted, IsrReceive
    <3>6. Outgoing'
      BY <3>4 DEF Outgoing, IsrReceive
    <3>7. CameIn' = CameIn
      BY DEF CameIn, IsrReceive
    <3>8. ASSUME Len(buf) + Len(rx_fifo) = CameIn, NEW i \in 1 .. Len(buf) + k
          PROVE  buf'[i] = i
      <4>1. CASE i <= Len(buf)
        BY <3>2, <3>3, <3>4, <3>8, <4>1 DEF Incoming
      <4>2. CASE i > Len(buf)
        <5>1. i - Len(buf) \in 1 .. k /\ i = Len(buf) + (i - Len(buf))
          BY <3>3, <4>2
        <5>2. buf'[i] = rx_fifo[i - Len(buf)] /\ i - Len(buf) \in 1 .. Len(rx_fifo)
          BY <3>1, <3>2, <3>3, <5>1
        <5>3. rx_fifo[i - Len(buf)] = Len(buf) + (i - Len(buf))
          BY <3>4, <3>8, <5>2 DEF Incoming
        <5> QED
          BY <5>1, <5>2, <5>3
      <4> QED
        BY <3>3, <4>1, <4>2
    <3>9. ASSUME Len(buf) + Len(rx_fifo) = CameIn, NEW i \in 1 .. Len(rx_fifo) - k
          PROVE  rx_fifo'[i] = Len(buf) + k + i
      BY <3>1, <3>2, <3>3, <3>4, <3>9 DEF Incoming
    <3>10. Incoming'
      <4>1. Len(buf') + Len(rx_fifo') = Len(buf) + Len(rx_fifo)
        BY <2>1, <3>1, <3>2, <3>3
      <4> QED
        BY <3>2, <3>4, <3>7, <3>8, <3>9, <4>1 DEF Incoming
    <3> QED
      BY <3>5, <3>6, <3>10 DEF Reading
  <2>2. CASE ~RxPending
    BY <2>2 DEF Reading, Counted, Outgoing, Incoming, CameIn, IsrReceive
  <2>3. CASE ~(pc = "reading" /\ RxOwn)
    BY <2>3 DEF Reading, IsrReceive
  <2> QED
    BY <2>1, <2>2, <2>3
<1> QED
  BY <1>1, <1>2, <1>3, <1>4, <1>5, <1>6

(* A command is pushed whole; dummy bytes are pushed in order.             *)
LEMMA IsrSendInv ==
  ASSUME Inv, IsrSend PROVE Inv'
<1> USE SpiAssumption
    DEF Inv, call, flags, txSide, rxSide, bus
<1>1. Values'
  <2>1. PICK k \in 0 .. TxLength :
          /\ k <= FifoLen - Len(tx_fifo) /\ (k = TxLength \/ k = FifoLen - Len(tx_fifo))
          /\ gave' = IF TxOwn /\ pc = "writing" THEN gave + k ELSE gave
          /\ TxNext' = TxNext + k /\ TxLength' = TxLength - k
          /\ tx_fifo' \in Seq(Nat) /\ Len(tx_fifo') = Len(tx_fifo) + k
    BY PushesSome
  <2>3. Len(tx_fifo) \in Nat /\ Len(tx_fifo') = Len(tx_fifo) + k /\ tx_fifo' \in Seq(Nat)
    BY <2>1 DEF Values
  <2>4. /\ TxLength' \in Nat /\ gave' \in Nat /\ TxNext' \in Nat \ {0}
        /\ Len(tx_fifo') <= FifoLen
    BY <2>1, <2>3 DEF Values
  <2>7. TrDone' \in {0, 1}
    BY DEF Values, IsrSend
  <2>5. tx_busy' \in BOOLEAN /\ isr' \in BOOLEAN
    BY DEF IsrSend, Values
  <2>6. /\ pc' = pc /\ len' = len /\ wrote' = wrote /\ masterRxDone' = masterRxDone
        /\ rx_busy' = rx_busy /\ TxOwn' = TxOwn /\ tx_imr' = tx_imr /\ RxLength' = RxLength
        /\ RxOwn' = RxOwn /\ rx_imr' = rx_imr /\ buf' = buf /\ astray' = astray
        /\ rx_fifo' = rx_fifo /\ shift' = shift
    BY DEF IsrSend
  <2> QED
    BY <2>3, <2>4, <2>5, <2>6, <2>7 DEF Values
<1>2. Bounds'
  <2>1. PICK k \in 0 .. TxLength :
          /\ k <= FifoLen - Len(tx_fifo) /\ (k = TxLength \/ k = FifoLen - Len(tx_fifo))
          /\ gave' = IF TxOwn /\ pc = "writing" THEN gave + k ELSE gave
          /\ TxNext' = TxNext + k /\ TxLength' = TxLength - k
          /\ tx_fifo' \in Seq(Nat) /\ Len(tx_fifo') = Len(tx_fifo) + k
    BY PushesSome
  <2>2. WithinTransfer(TxLength')
    BY <2>1, Within DEF Values, Bounds
  <2>3. WithinTransfer(gave')
    <3>1. CASE TxOwn /\ pc = "writing"
      <4>1. tx_busy
        BY <3>1 DEF Writing, Values, IsrSend
      <4>2. gave' <= len /\ len \in WriteLens /\ gave' \in Nat /\ len \in Nat
        BY <2>1, <3>1, <4>1 DEF Writing, Values
      <4> QED
        BY <4>2, Within
    <3>2. CASE ~(TxOwn /\ pc = "writing")
      BY <2>1, <3>2 DEF Bounds, WithinTransfer
    <3> QED
      BY <3>1, <3>2
  <2> QED
    BY <2>2, <2>3 DEF Bounds, WithinTransfer, WithinRead, IsrSend
<1>3. Interrupts'
  BY DEF Values, Interrupts, Writing, RxPending, TxPending, SSI_Busy, IsrSend
<1>4. Writing'
  <2>1. PICK k \in 0 .. TxLength :
          /\ k <= FifoLen - Len(tx_fifo) /\ (k = TxLength \/ k = FifoLen - Len(tx_fifo))
          /\ gave' = IF TxOwn /\ pc = "writing" THEN gave + k ELSE gave
          /\ TxNext' = TxNext + k /\ TxLength' = TxLength - k
          /\ tx_fifo' \in Seq(Nat) /\ Len(tx_fifo') = Len(tx_fifo) + k
    BY PushesSome
  <2>3. Len(tx_fifo) \in Nat /\ Len(tx_fifo') = Len(tx_fifo) + k /\ tx_fifo' \in Seq(Nat)
    BY <2>1 DEF Values
  <2>4. CASE pc = "writing"
    <3>1. tx_busy /\ len \in WriteLens
      BY <2>4 DEF Writing, Values, IsrSend
    <3>2. /\ gave + TxLength = len /\ TxOwn /\ ~RxOwn /\ tx_imr /\ TrDone = 0
          /\ Len(tx_fifo) <= gave
      BY <2>4, <3>1 DEF Writing
    <3>3. /\ gave' + TxLength' = len /\ Len(tx_fifo') <= gave'
          /\ TxLength' \in Nat /\ gave' \in Nat
      BY <2>1, <2>3, <2>4, <3>2 DEF Values
    <3>4. /\ tx_busy' = (tx_busy /\ TxLength' > 0)
          /\ TrDone' = IF tx_busy /\ TxLength' = 0 THEN 1 ELSE TrDone
          /\ pc' = pc /\ len' = len /\ TxOwn' = TxOwn /\ RxOwn' = RxOwn /\ tx_imr' = tx_imr
      BY DEF IsrSend
    <3>5. CASE TxLength' > 0
      <4>1. tx_busy' /\ TxLength' # 0
        <5>1. TxLength' # 0
          BY <3>5
        <5>2. tx_busy'
          BY <3>1, <3>4, <3>5, Zenon
        <5> QED
          BY <5>1, <5>2
      <4>2. TrDone' = 0
        BY <3>2, <3>4, <4>1
      <4>3. pc' = "writing" /\ tx_busy' /\ gave' + TxLength' = len' /\ Len(tx_fifo') <= gave'
        BY <2>4, <3>3, <3>4, <4>1
      <4> QED
        BY <3>2, <3>4, <3>5, <4>2, <4>3 DEF Writing
    <3>6. CASE ~(TxLength' > 0)
      <4>1. ~tx_busy'
        BY <3>4, <3>6, Zenon
      <4>2. TxLength' = 0 /\ gave' = len /\ Len(tx_fifo') <= len
        <5>1. TxLength' = 0
          BY <3>3, <3>6
        <5> QED
          BY <3>3, <5>1
      <4>3. pc' = "writing" /\ gave' = len' /\ Len(tx_fifo') <= len' /\ ~RxOwn'
        BY <2>4, <3>2, <3>4, <4>2
      <4> QED
        BY <4>1, <4>2, <4>3, Zenon DEF Writing
    <3> QED
      BY <3>5, <3>6
  <2>5. CASE pc # "writing"
    <3>1. pc = "reading"
      BY <2>5 DEF Values, Interrupts, IsrSend
    <3> QED
      BY <2>5, <3>1, Zenon DEF Writing, IsrSend
  <2> QED
    BY <2>4, <2>5
<1>5. Starting'
  BY DEF Values, Interrupts, Writing, Starting, RxPending, TxPending, SSI_Busy, IsrSend
<1>6. Reading'
  <2>1. PICK k \in 0 .. TxLength :
          /\ k <= FifoLen - Len(tx_fifo) /\ (k = TxLength \/ k = FifoLen - Len(tx_fifo))
          /\ gave' = IF TxOwn /\ pc = "writing" THEN gave + k ELSE gave
          /\ TxNext' = TxNext + k /\ TxLength' = TxLength - k
          /\ tx_fifo' \in Seq(Nat) /\ Len(tx_fifo') = Len(tx_fifo) + k
          /\ \A i \in 1 .. Len(tx_fifo) : tx_fifo'[i] = tx_fifo[i]
          /\ pc = "reading" => \A i \in 1 .. k : tx_fifo'[Len(tx_fifo) + i] = TxNext + i - 1
    BY PushesSome
  <2>3. Len(tx_fifo) \in Nat /\ Len(tx_fifo') = Len(tx_fifo) + k /\ tx_fifo' \in Seq(Nat)
    BY <2>1 DEF Values
  <2>4. CASE pc = "reading" /\ RxOwn
    <3>1. Counted /\ Outgoing /\ Incoming
      BY <2>4 DEF Reading
    <3>2. Counted'
      <4>1. buf' = buf /\ RxLength' = RxLength /\ len' = len /\ masterRxDone' = masterRxDone
        BY DEF IsrSend
      <4>2. TxNext' - 1 + TxLength' = TxNext - 1 + TxLength
        BY <2>1 DEF Values
      <4> QED
        BY <3>1, <4>1, <4>2 DEF Counted
    <3>3. /\ \A i \in 1 .. Len(tx_fifo) : tx_fifo'[i] = tx_fifo[i]
          /\ \A i \in 1 .. k : tx_fifo'[Len(tx_fifo) + i] = TxNext + i - 1
      BY <2>1, <2>4
    <3>4. ASSUME NEW i \in 1 .. Len(tx_fifo) + k
          PROVE  tx_fifo'[i] = TxNext - 1 - Len(tx_fifo) + i
      <4>1. CASE i <= Len(tx_fifo)
        BY <2>3, <3>1, <3>3, <4>1 DEF Outgoing
      <4>2. CASE i > Len(tx_fifo)
        <5>1. i - Len(tx_fifo) \in 1 .. k /\ i = Len(tx_fifo) + (i - Len(tx_fifo))
          BY <2>3, <4>2
        <5>2. tx_fifo'[i] = TxNext + (i - Len(tx_fifo)) - 1
          BY <3>3, <5>1
        <5> QED
          BY <2>3, <5>2 DEF Values
      <4> QED
        BY <2>3, <4>1, <4>2
    <3>5. TxNext' - 1 - Len(tx_fifo') = TxNext - 1 - Len(tx_fifo)
      BY <2>1, <2>3 DEF Values
    <3>6. Outgoing'
      BY <2>3, <3>1, <3>4, <3>5 DEF Outgoing, IsrSend
    <3>7. CameIn' = CameIn
      BY <3>5 DEF CameIn, IsrSend
    <3>8. Incoming'
      BY <3>1, <3>7 DEF Incoming, IsrSend
    <3> QED
      BY <3>2, <3>6, <3>8 DEF Reading
  <2>5. CASE ~(pc = "reading" /\ RxOwn)
    BY <2>5 DEF Reading, IsrSend
  <2> QED
    BY <2>4, <2>5
<1> QED
  BY <1>1, <1>2, <1>3, <1>4, <1>5, <1>6

(* The TX interrupt goes off when nothing is left to shift.                *)
LEMMA IsrIdleInv ==
  ASSUME Inv, IsrIdle PROVE Inv'
<1> USE SpiAssumption
    DEF Inv, call, flags, txSide, rxSide, bus
<1>1. Values'
  <2>1. /\ pc' = pc /\ len' = len /\ wrote' = wrote /\ TrDone' = TrDone /\ masterRxDone' = masterRxDone
        /\ tx_busy' = tx_busy /\ rx_busy' = rx_busy /\ TxLength' = TxLength /\ TxOwn' = TxOwn
        /\ TxNext' = TxNext /\ gave' = gave /\ RxLength' = RxLength /\ RxOwn' = RxOwn
        /\ rx_imr' = rx_imr /\ buf' = buf /\ astray' = astray /\ tx_fifo' = tx_fifo
        /\ rx_fifo' = rx_fifo /\ shift' = shift
    BY DEF IsrIdle
  <2>2. tx_imr' \in BOOLEAN /\ isr' \in BOOLEAN
    BY DEF IsrIdle
  <2> QED
    BY <2>1, <2>2 DEF Values
<1>2. Bounds'
  BY DEF Values, Bounds, WithinTransfer, WithinRead, IsrIdle
<1>3. Interrupts'
  BY DEF Values, Interrupts, Writing, RxPending, TxPending, SSI_Busy, IsrIdle
<1>4. Writing'
  BY DEF Values, Interrupts, Writing, RxPending, TxPending, SSI_Busy, IsrIdle
<1>5. Starting'
  BY DEF Values, Interrupts, Writing, Starting, RxPending, TxPending, SSI_Busy, IsrIdle
<1>6. Reading'
  BY DEF Values, Interrupts, Writing, Starting, Reading, Counted, Outgoing,
         Incoming, CameIn, RxPending, TxPending, SSI_Busy, IsrIdle
<1> QED
  BY <1>1, <1>2, <1>3, <1>4, <1>5, <1>6

(* A write starts with the bus idle and nothing left to push.              *)
LEMMA CallWriteInv ==
  ASSUME Inv, CallWrite, PieceLeft PROVE Inv'
<1> USE SpiAssumption
    DEF Inv, CallWrite, Leftover, TaskRuns, call, flags, txSide, rxSide, bus
<1>0. ~tx_imr /\ ~RxPending
  BY DEF Values, Interrupts, PieceLeft
<1>1. Values'
  <2>1. rx_fifo' \in Seq(Nat) /\ Len(rx_fifo') = Len(rx_fifo)
    BY AllJunk DEF Values
  <2>2. buf' \in Seq(Nat) /\ len' \in Nat
    OBVIOUS
  <2>3. CASE tx_busy
    BY <2>1, <2>2, <2>3, Zenon DEF Values
  <2>4. CASE ~tx_busy
    <3>1. TxLength' \in Nat /\ tx_busy' \in BOOLEAN /\ pc' = "set_data"
      BY <2>2, <2>4
    <3> QED
      BY <2>1, <2>2, <3>1 DEF Values
  <2> QED
    BY <2>3, <2>4
<1>2. Bounds'
  <2>1. WithinRead(0) /\ Len(buf') = 0 /\ WithinTransfer(len') /\ WithinTransfer(0)
    BY Within DEF WithinTransfer
  <2> QED
    BY <2>1 DEF Bounds, WithinRead, WithinTransfer
<1>3. Interrupts'
  BY <1>0 DEF Values, Interrupts, Writing, RxPending, TxPending, SSI_Busy
<1>4. Writing'
  BY <1>0 DEF Values, Interrupts, Writing, RxPending, TxPending, SSI_Busy
<1>5. Starting'
  BY <1>0 DEF Values, Interrupts, Writing, Starting, RxPending, TxPending, SSI_Busy
<1>6. Reading'
  BY DEF Values, Interrupts, Writing, Starting, Reading, Counted, Outgoing,
         Incoming, CameIn, RxPending, TxPending, SSI_Busy
<1> QED
  BY <1>1, <1>2, <1>3, <1>4, <1>5, <1>6

(* Only now the interrupt is enabled that pushes the command.              *)
LEMMA SetCommandInv ==
  ASSUME Inv, SetTxData("set_data", "writing") PROVE Inv'
<1> USE SpiAssumption
    DEF Inv, SetTxData, TaskRuns, call, flags, txSide, rxSide, bus
<1>1. Values'
  BY DEF Values
<1>2. Bounds'
  BY DEF Values, Bounds, WithinTransfer, WithinRead
<1>3. Interrupts'
  BY DEF Values, Interrupts, Writing, RxPending, TxPending, SSI_Busy
<1>4. Writing'
  BY DEF Values, Interrupts, Writing, RxPending, TxPending, SSI_Busy
<1>5. Starting'
  BY DEF Values, Interrupts, Writing, Starting, RxPending, TxPending, SSI_Busy
<1>6. Reading'
  BY DEF Values, Interrupts, Writing, Starting, Reading, Counted, Outgoing,
         Incoming, CameIn, RxPending, TxPending, SSI_Busy
<1> QED
  BY <1>1, <1>2, <1>3, <1>4, <1>5, <1>6

(* A write returns with its bytes given and the bus idle.                  *)
LEMMA WriteReturnsInv ==
  ASSUME Inv, WriteReturns PROVE Inv'
<1> USE SpiAssumption
    DEF Inv, WriteReturns, TaskRuns, call, flags, txSide, rxSide, bus
<1>1. Values'
  BY DEF Values
<1>2. Bounds'
  BY DEF Values, Bounds, WithinTransfer, WithinRead
<1>3. Interrupts'
  <2>1. Len(tx_fifo) <= len /\ len \in WriteLens /\ Len(tx_fifo) \in Nat
    BY DEF Values, Writing
  <2>2. tx_imr => len > TxThreshold
    BY <2>1 DEF TxPending
  <2>3. TxLength = 0 /\ ~RxOwn /\ wrote
    BY DEF Values, Writing
  <2> QED
    BY <2>2, <2>3 DEF Interrupts, RxPending
<1>4. Writing'
  BY DEF Values, Interrupts, Writing, RxPending, TxPending, SSI_Busy
<1>5. Starting'
  BY DEF Values, Interrupts, Writing, Starting, RxPending, TxPending, SSI_Busy
<1>6. Reading'
  BY DEF Values, Interrupts, Writing, Starting, Reading, Counted, Outgoing,
         Incoming, CameIn, RxPending, TxPending, SSI_Busy
<1> QED
  BY <1>1, <1>2, <1>3, <1>4, <1>5, <1>6

(* A read begins with nothing stored for it and not reported.              *)
LEMMA CallReadInv ==
  ASSUME Inv, CallRead, PieceLeft PROVE Inv'
<1> USE SpiAssumption
    DEF Inv, CallRead, Leftover, TaskRuns, call, flags, txSide, rxSide, bus
<1>0. ~tx_imr /\ ~RxPending
  BY DEF Values, Interrupts, PieceLeft
<1>1. Values'
  <2>1. rx_fifo' \in Seq(Nat) /\ Len(rx_fifo') = Len(rx_fifo)
    BY AllJunk DEF Values
  <2>2. buf' \in Seq(Nat)
    OBVIOUS
  <2> QED
    BY <2>1, <2>2 DEF Values
<1>2. Bounds'
  <2>1. WithinRead(0) /\ Len(buf') = 0
    BY Within
  <2> QED
    BY <2>1 DEF Bounds, WithinRead, WithinTransfer
<1>3. Interrupts'
  BY <1>0 DEF Values, Interrupts, Writing, RxPending, TxPending, SSI_Busy
<1>4. Writing'
  BY <1>0 DEF Values, Interrupts, Writing, RxPending, TxPending, SSI_Busy
<1>5. Starting'
  BY <1>0 DEF Values, Interrupts, Writing, Starting, RxPending, TxPending, SSI_Busy
<1>6. Reading'
  BY DEF Values, Interrupts, Writing, Starting, Reading, Counted, Outgoing,
         Incoming, CameIn, RxPending, TxPending, SSI_Busy
<1> QED
  BY <1>1, <1>2, <1>3, <1>4, <1>5, <1>6

(* What came in for the command is thrown away.                            *)
LEMMA FlushInv ==
  ASSUME Inv, Flush PROVE Inv'
<1> USE SpiAssumption
    DEF Inv, Flush, TaskRuns, call, flags, txSide, rxSide, bus
<1>1. Values'
  BY DEF Values
<1>2. Bounds'
  BY DEF Values, Bounds, WithinTransfer, WithinRead
<1>3. Interrupts'
  BY DEF Values, Interrupts, Writing, RxPending, TxPending, SSI_Busy
<1>4. Writing'
  BY DEF Values, Interrupts, Writing, RxPending, TxPending, SSI_Busy
<1>5. Starting'
  BY DEF Values, Interrupts, Writing, Starting, RxPending, TxPending, SSI_Busy
<1>6. Reading'
  BY DEF Values, Interrupts, Writing, Starting, Reading, Counted, Outgoing,
         Incoming, CameIn, RxPending, TxPending, SSI_Busy
<1> QED
  BY <1>1, <1>2, <1>3, <1>4, <1>5, <1>6

(* A refused read pushes nothing, so nothing comes in for it.              *)
LEMMA ReadRefusedInv ==
  ASSUME Inv, ReadRefused PROVE Inv'
<1> USE SpiAssumption
    DEF Inv, ReadRefused, TaskRuns, call, flags, txSide, rxSide, bus
<1>1. Values'
  BY DEF Values
<1>2. Bounds'
  BY DEF Values, Bounds, WithinTransfer, WithinRead
<1>3. Interrupts'
  BY DEF Values, Interrupts, Writing, RxPending, TxPending, SSI_Busy
<1>4. Writing'
  BY DEF Values, Interrupts, Writing, RxPending, TxPending, SSI_Busy
<1>5. Starting'
  BY DEF Values, Interrupts, Writing, Starting, RxPending, TxPending, SSI_Busy
<1>6. Reading'
  BY DEF Values, Interrupts, Writing, Starting, Reading, Counted, Outgoing,
         Incoming, CameIn, RxPending, TxPending, SSI_Busy
<1> QED
  BY <1>1, <1>2, <1>3, <1>4, <1>5, <1>6

(* A read starts with both FIFOs empty.                                    *)
LEMMA ReadStartsInv ==
  ASSUME Inv, ReadStarts PROVE Inv'
<1> USE SpiAssumption
    DEF Inv, ReadStarts, TaskRuns, call, flags, txSide, rxSide, bus
<1>1. Values'
  BY DEF Values
<1>2. Bounds'
  <2>1. WithinRead(len) /\ WithinTransfer(len)
    BY Within DEF Values
  <2> QED
    BY <2>1 DEF Bounds, WithinRead, WithinTransfer
<1>3. Interrupts'
  <2>1. len > 0 /\ len \in Nat
    BY DEF Values
  <2>2. ~tx_imr /\ rx_fifo' = <<>> /\ RxLength' > 0
    BY <2>1 DEF Interrupts, Starting
  <2> QED
    BY <2>2, Zenon DEF Interrupts, RxPending
<1>4. Writing'
  BY DEF Values, Interrupts, Writing, RxPending, TxPending, SSI_Busy
<1>5. Starting'
  BY DEF Values, Interrupts, Writing, Starting, RxPending, TxPending, SSI_Busy
<1>6. Reading'
  BY DEF Values, Interrupts, Writing, Starting, Reading, Counted, Outgoing,
         Incoming, CameIn, RxPending, TxPending, SSI_Busy
<1> QED
  BY <1>1, <1>2, <1>3, <1>4, <1>5, <1>6

(* None of the dummy bytes is pushed yet.                                  *)
LEMMA SetDummyInv ==
  ASSUME Inv, SetTxData("set_dummy", "reading") PROVE Inv'
<1> USE SpiAssumption
    DEF Inv, SetTxData, TaskRuns, call, flags, txSide, rxSide, bus
<1>1. Values'
  BY DEF Values
<1>2. Bounds'
  BY DEF Values, Bounds, WithinTransfer, WithinRead
<1>3. Interrupts'
  BY DEF Values, Interrupts, Writing, RxPending, TxPending, SSI_Busy
<1>4. Writing'
  BY DEF Values, Interrupts, Writing, RxPending, TxPending, SSI_Busy
<1>5. Starting'
  BY DEF Values, Interrupts, Writing, Starting, RxPending, TxPending, SSI_Busy
<1>6. Reading'
  BY DEF Values, Interrupts, Writing, Starting, Reading, Counted, Outgoing,
         Incoming, CameIn, RxPending, TxPending, SSI_Busy
<1> QED
  BY <1>1, <1>2, <1>3, <1>4, <1>5, <1>6

(* A read that is reported has all its bytes, and the bus is idle.         *)
LEMMA ReadReturnsInv ==
  ASSUME Inv, ReadReturns PROVE Inv'
<1> USE SpiAssumption
    DEF Inv, ReadReturns, TaskRuns, call, flags, txSide, rxSide, bus
<1>1. Values'
  BY DEF Values
<1>2. Bounds'
  BY DEF Values, Bounds, WithinTransfer, WithinRead
<1>3. Interrupts'
  <2>1. RxLength = 0 /\ Counted /\ Incoming
    BY DEF Values, Starting, Reading, Counted
  <2>2. Len(tx_fifo) = 0 /\ TxLength = 0
    BY <2>1 DEF Counted, Incoming, CameIn, Values
  <2>3. ~tx_imr /\ ~(RxLength > 0)
    BY <2>1, <2>2 DEF TxPending, Values
  <2> QED
    BY <2>1, <2>3 DEF Interrupts, RxPending
<1>4. Writing'
  BY DEF Values, Interrupts, Writing, RxPending, TxPending, SSI_Busy
<1>5. Starting'
  BY DEF Values, Interrupts, Writing, Starting, RxPending, TxPending, SSI_Busy
<1>6. Reading'
  BY DEF Values, Interrupts, Writing, Starting, Reading, Counted, Outgoing,
         Incoming, CameIn, RxPending, TxPending, SSI_Busy
<1> QED
  BY <1>1, <1>2, <1>3, <1>4, <1>5, <1>6

(* Time runs out with nothing left to shift.                               *)
LEMMA ReadTimesOutInv ==
  ASSUME Inv, ReadTimesOut PROVE Inv'
<1> USE SpiAssumption
    DEF Inv, ReadTimesOut, TaskRuns, call, flags, txSide, rxSide, bus
<1>1. Values'
  BY DEF Values
<1>2. Bounds'
  BY DEF Values, Bounds, WithinTransfer, WithinRead
<1>3. Interrupts'
  BY DEF Values, Interrupts, Writing, RxPending, TxPending, SSI_Busy
<1>4. Writing'
  BY DEF Values, Interrupts, Writing, RxPending, TxPending, SSI_Busy
<1>5. Starting'
  BY DEF Values, Interrupts, Writing, Starting, RxPending, TxPending, SSI_Busy
<1>6. Reading'
  BY DEF Values, Interrupts, Writing, Starting, Reading, Counted, Outgoing,
         Incoming, CameIn, RxPending, TxPending, SSI_Busy
<1> QED
  BY <1>1, <1>2, <1>3, <1>4, <1>5, <1>6

(* Every step, and every stutter, preserves the invariant.                 *)
LEMMA NextInv == Inv /\ [Next /\ PieceLeft]_vars => Inv'
<1> SUFFICES ASSUME Inv, [Next /\ PieceLeft]_vars PROVE Inv'
  OBVIOUS
<1>1. CASE Next /\ PieceLeft
  BY <1>1, LoadShiftInv, ShiftDoneInv, IsrReceiveInv, IsrSendInv, IsrIdleInv, CallWriteInv,
     SetCommandInv, WriteReturnsInv, CallReadInv, FlushInv, ReadRefusedInv, ReadStartsInv,
     SetDummyInv, ReadReturnsInv, ReadTimesOutInv
     DEF Next, Bus, Isr, Poll
<1>2. CASE UNCHANGED vars
  <2> USE <1>2 DEF vars, call, flags, txSide, rxSide, bus, Inv
  <2>1. Values'
    BY DEF Values
  <2>2. Bounds'
    BY DEF Bounds, WithinTransfer, WithinRead
  <2>3. Interrupts' /\ Writing' /\ Starting'
    BY DEF Interrupts, RxPending, Writing, Starting
  <2>4. Reading'
    BY DEF Reading, Counted, Outgoing, Incoming, CameIn
  <2> QED
    BY <2>1, <2>2, <2>3, <2>4
<1> QED
  BY <1>1, <1>2

(* The invariant holds throughout.                                         *)
LEMMA InvAlways == PacedSpec => []Inv
<1> QED
  BY InitInv, NextInv, PTL DEF PacedSpec

(* The four results are about PacedSpec: the call after a write longer     *)
(* than the TX threshold comes when that has left the bus, which time      *)
(* provides and nothing in the code waits for.  CommandsArePaced frees     *)
(* programs of commands only from it.                                      *)

(* The types hold for FIFOs and transfers of any size: every count is      *)
(* within some transfer, and the RX interrupt is on exactly while the      *)
(* driver calls itself busy, across timeouts.                              *)
THEOREM TypeCorrect == PacedSpec => []TypeOK
<1>1. ASSUME Inv PROVE TypeOK
  <2>1. Values /\ Bounds /\ rx_busy = rx_imr
    BY <1>1 DEF Inv, Interrupts
  <2>2. \E m \in {0} \union WriteLens \union ReadLens : TxLength <= m /\ gave <= m
    <3>1. PICK m \in {0} \union WriteLens \union ReadLens : TxLength <= m
      BY <2>1 DEF Bounds, WithinTransfer
    <3>2. PICK n \in {0} \union WriteLens \union ReadLens : gave <= n
      BY <2>1 DEF Bounds, WithinTransfer
    <3>3. m \in Nat /\ n \in Nat /\ TxLength \in Nat /\ gave \in Nat
      BY <2>1, SpiAssumption DEF Values
    <3>4. CASE m <= n
      BY <3>1, <3>2, <3>3, <3>4
    <3>5. CASE n <= m
      BY <3>1, <3>2, <3>3, <3>5
    <3> QED
      BY <3>3, <3>4, <3>5
  <2>3. \E m \in {0} \union ReadLens : RxLength <= m /\ Len(buf) <= m
    <3>1. PICK m \in {0} \union ReadLens : RxLength <= m
      BY <2>1 DEF Bounds, WithinRead
    <3>2. PICK n \in {0} \union ReadLens : Len(buf) <= n
      BY <2>1 DEF Bounds, WithinRead
    <3>3. m \in Nat /\ n \in Nat /\ RxLength \in Nat /\ Len(buf) \in Nat
      BY <2>1, SpiAssumption DEF Values
    <3>4. CASE m <= n
      BY <3>1, <3>2, <3>3, <3>4
    <3>5. CASE n <= m
      BY <3>1, <3>2, <3>3, <3>5
    <3> QED
      BY <3>3, <3>4, <3>5
  <2>4. {wrote, tx_busy, rx_busy, TxOwn, RxOwn, tx_imr, rx_imr, isr, astray} \subseteq BOOLEAN
    BY <2>1, Zenon DEF Values
  <2> QED
    BY <2>1, <2>2, <2>3, <2>4 DEF Values, TypeOK
<1> QED
  BY <1>1, InvAlways, PTL

(* A read that is reported done has stored its reply: as many bytes came   *)
(* in as were pushed, so none of this read's is missing.                   *)
LEMMA DoneIsReply == Inv => SuccessIsReply
<1> SUFFICES ASSUME Inv, pc = "reading", masterRxDone = 1 PROVE buf = Reply(len)
  BY DEF SuccessIsReply
<1>1. Counted /\ Incoming
  BY DEF Inv, Starting, Reading
<1>2. /\ Len(buf) = len /\ TxNext - 1 <= len /\ buf \in Seq(Nat) /\ Len(buf) \in Nat
      /\ Len(rx_fifo) \in Nat /\ Len(tx_fifo) \in Nat /\ TxNext \in Nat
  BY <1>1 DEF Counted, Inv, Values
<1>3. CameIn <= len /\ CameIn \in Int
  BY <1>2 DEF CameIn
<1>4. Len(buf) + Len(rx_fifo) = CameIn
  BY <1>1, <1>2, <1>3 DEF Incoming
<1>5. \A i \in 1 .. len : buf[i] = i
  BY <1>1, <1>2, <1>4 DEF Incoming
<1> QED
  BY <1>2, <1>5 DEF Reply

(* What device_read_spi takes for done is the reply, whole and from the    *)
(* start, whatever was lost and whatever an earlier read left, if the call *)
(* after a firmware piece does not overtake the piece.                     *)
THEOREM SuccessAlwaysReply == PacedSpec => []SuccessIsReply
<1> QED
  BY DoneIsReply, InvAlways, PTL

(* What device_write_spi takes for done was given to the chip, all of it   *)
(* and from its own buffer, if the call after a firmware piece does not    *)
(* overtake the piece.                                                     *)
THEOREM SentAlwaysGiven == PacedSpec => []SentIsGiven
<1>1. Inv => SentIsGiven
  BY DEF Inv, Values, Writing, SentIsGiven
<1> QED
  BY <1>1, InvAlways, PTL

-----------------------------------------------------------------------------
(* A read that fits in the FIFO.                                           *)

(* The FIFO was empty when the read began and has room for all its bytes,  *)
(* so none is lost; a read that was refused stores nothing.                *)
NoneMissing ==
  /\ pc = "reading" /\ ~RxOwn => buf = <<>>
  /\ pc = "reading" /\ RxOwn /\ len <= FifoLen => Len(buf) + Len(rx_fifo) = CameIn

(* The types that counting bytes needs.                                    *)
LEMMA Counts ==
  ASSUME Values
  PROVE  /\ Len(buf) \in Nat /\ Len(rx_fifo) \in Nat /\ Len(tx_fifo) \in Nat
         /\ TxNext \in Nat \ {0} /\ CameIn \in Int /\ len \in Nat /\ Nothing \notin Nat
  BY SpiAssumption DEF Values, CameIn, Nothing

(* While a read is going on, each step moves bytes without losing any.     *)
LEMMA NoneMissingReading ==
  ASSUME Inv, NoneMissing, pc = "reading", pc' = "reading", [Next /\ PieceLeft]_vars
  PROVE  NoneMissing'
<1>1. Values /\ Values'
  BY NextInv DEF Inv
<1>2. CASE LoadShift
  <2>1. UNCHANGED <<pc, len, buf, RxOwn, rx_fifo, TxNext>>
    BY <1>2 DEF LoadShift, call, txSide, rxSide
  <2>2. Len(tx_fifo') = Len(tx_fifo) - 1 /\ shift = Nothing /\ shift' # Nothing
    BY <1>1, <1>2, TakeFirst, Counts DEF LoadShift, Values
  <2>3. CameIn' = CameIn
    BY <1>1, <2>1, <2>2, Counts DEF CameIn
  <2> QED
    BY <2>1, <2>3 DEF NoneMissing
<1>3. CASE ShiftDone
  <2>1. UNCHANGED <<pc, len, buf, RxOwn, tx_fifo, TxNext>>
    BY <1>3 DEF ShiftDone, call, txSide, rxSide
  <2>2. CameIn' = CameIn + 1 /\ CameIn \in Int
    BY <1>1, <1>3, <2>1, Counts DEF ShiftDone, CameIn
  <2>3. ASSUME RxOwn, len <= FifoLen, Len(buf) + Len(rx_fifo) = CameIn
        PROVE  Len(buf') + Len(rx_fifo') = CameIn'
    <3>1. TxNext - 1 + TxLength = len /\ TxLength \in Nat
      BY <2>3 DEF Inv, Reading, Counted, Values
    <3>2. CameIn < len
      BY <1>1, <1>3, <3>1, Counts DEF ShiftDone, CameIn
    <3>3. Len(rx_fifo) < FifoLen
      BY <1>1, <2>3, <3>2, Counts, SpiAssumption
    <3>4. Len(rx_fifo') = Len(rx_fifo) + 1
      BY <1>1, <1>3, <3>3, PutLast DEF ShiftDone, Values
    <3> QED
      BY <1>1, <2>1, <2>2, <2>3, <3>4, Counts
  <2> QED
    BY <2>1, <2>3 DEF NoneMissing
<1>4. CASE IsrReceive
  <2>1. UNCHANGED <<pc, len, RxOwn, tx_fifo, TxNext, shift>>
    BY <1>4 DEF IsrReceive, call, txSide
  <2>2. CameIn' = CameIn
    BY <2>1 DEF CameIn
  <2>3. CASE RxPending
    <3>1. PICK k \in 0 .. Len(rx_fifo) :
            /\ Len(rx_fifo') = Len(rx_fifo) - k
            /\ Len(buf') = Len(buf) + (IF RxOwn THEN k ELSE 0)
      BY <1>1, <1>4, <2>3, StoresFirst
    <3>2. RxOwn
      BY <2>3 DEF Inv, Starting, RxPending
    <3>3. Len(buf') + Len(rx_fifo') = Len(buf) + Len(rx_fifo)
      BY <1>1, <3>1, <3>2, Counts
    <3> QED
      BY <2>1, <2>2, <3>2, <3>3 DEF NoneMissing
  <2>4. CASE ~RxPending
    BY <1>4, <2>1, <2>2, <2>4 DEF IsrReceive, NoneMissing
  <2> QED
    BY <2>3, <2>4
<1>5. CASE IsrSend
  <2>1. UNCHANGED <<pc, len, buf, RxOwn, rx_fifo, shift>>
    BY <1>5 DEF IsrSend, call, rxSide
  <2>2. PICK k \in 0 .. TxLength :
          TxNext' = TxNext + k /\ Len(tx_fifo') = Len(tx_fifo) + k
    BY <1>1, <1>5, PushesSome
  <2>3. k \in Int
    BY <1>1 DEF Values
  <2>4. CameIn' = CameIn
    BY <1>1, <2>1, <2>2, <2>3, Counts DEF CameIn
  <2> QED
    BY <2>1, <2>4 DEF NoneMissing
<1>6. CASE IsrIdle
  BY <1>6 DEF IsrIdle, call, rxSide, bus, NoneMissing, CameIn
<1>7. CASE CallWrite \/ CallRead \/ Poll
  BY <1>7 DEF CallWrite, CallRead, Poll, SetTxData, WriteReturns, Flush, ReadRefused, ReadStarts,
     ReadReturns, ReadTimesOut
<1>8. CASE UNCHANGED vars
  BY <1>8 DEF vars, call, txSide, rxSide, bus, NoneMissing, CameIn
<1> QED
  BY <1>2, <1>3, <1>4, <1>5, <1>6, <1>7, <1>8 DEF Next, Bus, Isr

(* A read begins with nothing stored and nothing waiting, or is refused.   *)
LEMMA NoneMissingStep ==
  ASSUME Inv, NoneMissing, [Next /\ PieceLeft]_vars
  PROVE  NoneMissing'
<1>1. Values /\ Values' /\ Starting /\ Interrupts
  BY NextInv DEF Inv
<1>2. CASE pc' # "reading"
  BY <1>2 DEF NoneMissing
<1>3. CASE pc = "reading" /\ pc' = "reading"
  BY <1>3, NoneMissingReading
<1>4. CASE pc # "reading" /\ pc' = "reading"
  <2>1. ReadRefused \/ SetTxData("set_dummy", "reading")
    BY <1>4 DEF Next, Bus, LoadShift, ShiftDone, Isr, IsrReceive, IsrSend, IsrIdle, CallWrite,
       CallRead, Poll, SetTxData, WriteReturns, Flush, ReadRefused, ReadStarts, ReadReturns,
       ReadTimesOut, vars, call
  <2>2. CASE ReadRefused
    BY <1>1, <2>2 DEF ReadRefused, rxSide, Starting, NoneMissing
  <2>3. CASE SetTxData("set_dummy", "reading")
    <3>1. /\ pc = "set_dummy" /\ TxNext' = 1
          /\ UNCHANGED <<buf, RxOwn, rx_fifo, tx_fifo, shift>>
      BY <2>3 DEF SetTxData, rxSide, bus
    <3>2. RxOwn /\ buf = <<>> /\ rx_fifo = <<>> /\ tx_fifo = <<>> /\ shift = Nothing
      BY <1>1, <3>1 DEF Starting, Interrupts
    <3>3. buf' = <<>> /\ rx_fifo' = <<>> /\ tx_fifo' = <<>> /\ shift' = Nothing /\ TxNext' = 1
      BY <3>1, <3>2
    <3>4. Len(buf') = 0 /\ Len(rx_fifo') = 0 /\ Len(tx_fifo') = 0
      BY <3>3
    <3>5. CameIn' = 0 /\ Len(buf') + Len(rx_fifo') = 0
      <4>1. CameIn' = TxNext' - 1 - Len(tx_fifo') - 0
        BY <3>3 DEF CameIn
      <4> QED
        BY <3>3, <3>4, <4>1
    <3> QED
      BY <3>1, <3>2, <3>5 DEF NoneMissing
  <2> QED
    BY <2>1, <2>2, <2>3
<1> QED
  BY <1>2, <1>3, <1>4

(* A read that fits in the FIFO, as those of the registers do, ends with   *)
(* the whole reply or with nothing stored at all: a register is never read *)
(* as some of its digits.  Here, too, no call overtakes a firmware piece.  *)
THEOREM ShortReadsAlwaysWhole == PacedSpec => ShortReadsWhole
<1>1. Init => NoneMissing
  BY DEF Init, NoneMissing
<1>2. ASSUME Inv, NoneMissing, [Next /\ PieceLeft]_vars,
             pc = "reading", pc' = "idle", len <= FifoLen
      PROVE  buf \in {<<>>, Reply(len)}
  <2>1. ReadReturns \/ ReadTimesOut
    BY <1>2 DEF Next, Bus, LoadShift, ShiftDone, Isr, IsrReceive, IsrSend, IsrIdle, CallWrite,
       CallRead, Poll, SetTxData, WriteReturns, Flush, ReadRefused, ReadStarts, ReadReturns,
       ReadTimesOut, vars, call
  <2>2. CASE ReadReturns
    BY <1>2, <2>2, DoneIsReply DEF ReadReturns, SuccessIsReply
  <2>3. CASE ReadTimesOut
    <3>1. masterRxDone = 0 /\ tx_fifo = <<>> /\ shift = Nothing /\ ~RxPending /\ ~TxPending
      BY <2>3 DEF ReadTimesOut, TaskRuns, SSI_Busy
    <3>2. CASE ~RxOwn
      BY <1>2, <3>2 DEF NoneMissing
    <3>3. CASE RxOwn
      <4>1. Counted /\ Values /\ Interrupts
        BY <1>2, <3>3 DEF Inv, Reading
      <4>2. rx_fifo = <<>> /\ RxLength > 0
        BY <3>1, <4>1 DEF Counted, Interrupts, RxPending, Values
      <4>3. TxLength = 0
        <5>1. Len(tx_fifo) <= TxThreshold
          BY <3>1, SpiAssumption
        <5>2. ~tx_imr
          BY <3>1, <5>1 DEF TxPending
        <5> QED
          BY <1>2, <4>1, <5>2 DEF Interrupts
      <4>4. CameIn = len
        BY <3>1, <4>1, <4>3, Counts DEF CameIn, Counted
      <4>5. Len(buf) = len
        BY <1>2, <3>3, <4>1, <4>2, <4>4, Counts DEF NoneMissing
      <4> QED
        BY <4>1, <4>2, <4>5, Counts DEF Counted, Values
    <3> QED
      BY <3>2, <3>3
  <2> QED
    BY <2>1, <2>2, <2>3
<1>3. Inv /\ NoneMissing /\ [Next /\ PieceLeft]_vars => NoneMissing'
  BY NoneMissingStep
<1>4. Inv /\ NoneMissing /\ [Next /\ PieceLeft]_vars =>
        [pc = "reading" /\ pc' = "idle" /\ len <= FifoLen => buf \in {<<>>, Reply(len)}]_vars
  BY <1>2
<1> QED
  BY <1>1, <1>3, <1>4, InvAlways, PTL DEF PacedSpec, ShortReadsWhole

-----------------------------------------------------------------------------
(* A program that only writes commands.                                    *)

CommandsFit == \A n \in WriteLens : n <= TxThreshold

(* Commands that are not above the TX threshold have left the bus when     *)
(* device_write_spi returns, however fast the next call comes: the four    *)
(* results need no timing then, and the registers of the chip are written  *)
(* and read so.                                                            *)
THEOREM CommandsArePaced == ASSUME CommandsFit PROVE Spec => PacedSpec
<1>1. ASSUME Inv, Next PROVE PieceLeft
  BY <1>1, SpiAssumption DEF Inv, Values, CommandsFit, PieceLeft
<1>2. Inv /\ [Next]_vars => [Next /\ PieceLeft]_vars
  BY <1>1
<1> QED
  BY <1>2, InitInv, NextInv, PTL DEF Spec, PacedSpec

=============================================================================
