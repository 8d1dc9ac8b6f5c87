--------------------------- MODULE Mp3Ring_proofs ---------------------------
(***************************************************************************)
(* Proofs about the ring cache, for every ring, header, piece and frame    *)
(* size.  The type invariant needs the constants' assumption only; that no *)
(* unread byte is overwritten and that the ring implements FrameStream     *)
(* hold under FramesFit and HeadsArriveWhole, which are hypotheses of the  *)
(* theorems because the code does not establish them.  For the board's     *)
(* ring and streams of speech FramesFit is derived at the end.             *)
(***************************************************************************)
EXTENDS Mp3Ring, Mp3Header_proofs, TLAPS

USE RingAssumption

(* Sending a frame no longer than what is waiting leaves start_len inside  *)
(* the ring, and every byte its descriptor names is inside the ring.       *)
LEMMA DescriptorInRing ==
  ASSUME TypeOK, NEW size \in Nat, Reserve >= size
  PROVE  /\ StartAfter(size) \in 0 .. RingLen
         /\ \E m \in 0 .. RingLen : BytesOf(Descriptor(size)) \in [0 .. m - 1 -> Nat]
<1> DEFINE d == Descriptor(size)
           direct == d.recv_len - d.from_start_len
<1>1. start_len \in 0 .. RingLen /\ end_len \in 0 .. RingLen /\ ring \in [0 .. RingLen - 1 -> Nat]
  BY DEF TypeOK
<1>2. size <= RingLen /\ StartAfter(size) \in 0 .. RingLen
  BY <1>1 DEF StartAfter, Reserve
<1> DEFINE m == IF size > HeadLen THEN size - HeadLen ELSE 0
<1>3. m \in 0 .. RingLen /\ 0 .. d.recv_len - 1 = 0 .. m - 1
  BY <1>2 DEF Descriptor
<1>4. ASSUME NEW j \in 0 .. d.recv_len - 1
      PROVE  IF j < direct THEN d.recv_addr + j \in 0 .. RingLen - 1
                           ELSE j - direct \in 0 .. RingLen - 1
  BY <1>1, <1>4 DEF Descriptor, Reserve
<1>5. BytesOf(d) \in [0 .. d.recv_len - 1 -> Nat]
  BY <1>1, <1>4 DEF BytesOf
<1> QED BY <1>2, <1>3, <1>5

-----------------------------------------------------------------------------
(* Type correctness, for all constants.                                    *)

(* The ring starts empty with its types.                                   *)
LEMMA TypeInit == Init => TypeOK
<1> SUFFICES ASSUME Init PROVE TypeOK
  OBVIOUS
<1>1. ASSUME NEW n \in 0 .. RingLen PROVE Consecutive(1, n) \in [0 .. n - 1 -> Nat]
  BY DEF Consecutive
<1>2. \A n \in 0 .. RingLen :
         frame = Consecutive(1, n) => \E m \in 0 .. RingLen : frame \in [0 .. m - 1 -> Nat]
  BY <1>1
<1>3. 0 \in 0 .. RingLen /\ frame = Consecutive(1, 0)
  BY DEF Init
<1>4. \E m \in 0 .. RingLen : frame \in [0 .. m - 1 -> Nat]
  BY <1>2, <1>3
<1> QED BY <1>4 DEF Init, TypeOK

(* Putting a piece in keeps the types, wherever it wraps.                  *)
LEMMA TypePut ==
  ASSUME TypeOK, NEW n \in 1 .. MaxChunk, PutChunk(n)
  PROVE  TypeOK'
<1>1. n \in 1 .. RingLen
  OBVIOUS
<1>2. ring' \in [0 .. RingLen - 1 -> Nat]
  <2>1. \A i \in 0 .. RingLen - 1 : Appended(n)[i] \in Nat
    BY <1>1 DEF Appended, TypeOK
  <2> QED BY <2>1 DEF PutChunk, Appended
<1>3. end_len' \in 0 .. RingLen
  <2>1. end_len \in 0 .. RingLen
    BY DEF TypeOK
  <2>2. end_len' = EndAfter(n)
    BY DEF PutChunk
  <2> QED BY <1>1, <2>1, <2>2 DEF EndAfter
<1>4. written' = written + n /\ written \in Nat
  BY DEF PutChunk, TypeOK
<1>5. heads' \subseteq 1 .. written'
  <2> DEFINE new == {m \in 1 .. n : (stream.len + m - 1) % stream.size = 0}
  <2>1. heads' = heads \union {written + k : k \in new} /\ heads \subseteq 1 .. written
    BY DEF PutChunk, TypeOK
  <2>2. new \subseteq 1 .. n
    OBVIOUS
  <2> HIDE DEF new
  <2>3. {written + k : k \in new} \subseteq 1 .. written + n
    BY <1>1, <1>4, <2>2
  <2>4. 1 .. written \subseteq 1 .. written + n
    BY <1>1, <1>4
  <2> QED BY <1>4, <2>1, <2>3, <2>4
<1>6. stream' \in [size : FrameSizes, len : Nat]
  <2>1. stream' = [stream EXCEPT !.len = @ + n]
    BY DEF PutChunk
  <2>2. stream \in [size : FrameSizes, len : Nat]
    BY DEF TypeOK
  <2>3. stream' = [size |-> stream.size, len |-> stream.len + n]
    BY <2>1, <2>2
  <2> QED BY <1>1, <2>2, <2>3
<1>7. start_len' = start_len /\ parse_flag' = parse_flag /\ FrameSize' = FrameSize
      /\ frame' = frame /\ taken' = taken /\ steady' = steady /\ pc' = "head"
  BY DEF PutChunk
<1>8. written' \in Nat
  BY <1>1, <1>4
<1> QED BY <1>2, <1>3, <1>5, <1>6, <1>7, <1>8 DEF TypeOK

(* Every step of parse_mp3_frame keeps the types.                          *)
LEMMA TypeStep == TypeOK /\ [Next]_vars => TypeOK'
<1> SUFFICES ASSUME TypeOK, [Next]_vars PROVE TypeOK'
  OBVIOUS
<1>1. CASE NextStream
  <2>1. stream' \in [size : FrameSizes, len : Nat]
    BY <1>1 DEF NextStream
  <2>2. steady' \in BOOLEAN
    BY <1>1 DEF NextStream, TypeOK
  <2> QED BY <1>1, <2>1, <2>2 DEF NextStream, TypeOK, code
<1>2. ASSUME NEW n \in 1 .. MaxChunk, PutChunk(n) PROVE TypeOK'
  BY <1>2, TypePut
<1>3. CASE ReadHeader
  <2>1. FrameSize' \in Nat
    BY <1>3 DEF ReadHeader, HeaderSizes, TypeOK
  <2> QED BY <1>3, <2>1 DEF ReadHeader, TypeOK, ghosts
<1>4. CASE SendFrame
  <2>1. FrameSize \in Nat /\ taken \in Nat /\ Reserve >= FrameSize
    BY <1>4 DEF SendFrame, TypeOK
  <2>2. start_len' \in 0 .. RingLen /\ \E m \in 0 .. RingLen : frame' \in [0 .. m - 1 -> Nat]
    BY <1>4, <2>1, DescriptorInRing DEF SendFrame
  <2>3. taken' \in Nat
    BY <1>4, <2>1 DEF SendFrame
  <2>4. heads' \subseteq 1 .. written
    BY <1>4 DEF SendFrame, TypeOK
  <2>5. UNCHANGED <<ring, end_len, parse_flag, FrameSize, written, stream, steady>> /\ pc' = "head"
    BY <1>4 DEF SendFrame
  <2> QED BY <2>2, <2>3, <2>4, <2>5 DEF TypeOK
<1>5. CASE Return
  BY <1>5 DEF Return, TypeOK, ghosts
<1>6. CASE UNCHANGED vars
  BY <1>6 DEF vars, code, ghosts, TypeOK
<1> QED BY <1>1, <1>2, <1>3, <1>4, <1>5, <1>6 DEF Next

(* Every variable keeps its type: the cursors stay in the ring, and no     *)
(* descriptor sends a reader outside of it.                                *)
THEOREM TypeCorrect == Spec => []TypeOK
  BY TypeInit, TypeStep, PTL DEF Spec

-----------------------------------------------------------------------------
(* No byte is lost, when frames and pieces fit and headers arrive whole.   *)

(* The inductive invariant.  Its first part is what is wanted; the rest    *)
(* says why there is room for a piece: a call begins with less than a      *)
(* frame in the ring, and the first one with nothing.                      *)
RoomInv ==
  /\ TypeOK
  /\ taken <= written
  /\ written - taken < RingLen
  /\ ReserveIsUnread
  /\ NoUnreadOverwritten

LoopInv ==
  /\ parse_flag = 1 => FrameSize \in FrameSizes
  /\ parse_flag = 0 => FrameSize = 0 /\ taken = 0
  /\ pc = "frame" => parse_flag = 1
  /\ pc = "head" /\ parse_flag = 0 => written - taken >= HeadLen
  /\ pc = "idle" /\ parse_flag = 0 => written = 0
  /\ NoFrameLeftBehind
  /\ written = 0 => stream.len = 0

Inv == RoomInv /\ LoopInv

(* An empty ring satisfies the invariant.                                  *)
LEMMA InvInit == Init => Inv
<1> SUFFICES ASSUME Init PROVE Inv
  OBVIOUS
<1>1. TypeOK
  BY TypeInit
<1>2. written = 0 /\ taken = 0 /\ Reserve = 0
  BY DEF Init, Reserve
<1>3. RoomInv
  BY <1>1, <1>2 DEF RoomInv, ReserveIsUnread, NoUnreadOverwritten
<1>4. LoopInv
  BY DEF Init, LoopInv, NoFrameLeftBehind
<1> QED BY <1>3, <1>4 DEF Inv

(* When a call begins, a piece fits behind what is waiting.                *)
LEMMA RoomForPiece ==
  ASSUME FramesFit, Inv, pc = "idle", NEW n \in 1 .. MaxChunk
  PROVE  written - taken + n < RingLen
<1>1. PICK f \in FrameSizes : f = (IF parse_flag = 1 THEN FrameSize ELSE stream.size)
  BY DEF Inv, RoomInv, TypeOK, LoopInv
<1>2. f \in Nat /\ f > HeadLen /\ f + MaxChunk <= RingLen
  BY <1>1 DEF FramesFit
<1>3. written \in Nat /\ taken \in Nat
  BY DEF Inv, RoomInv, TypeOK
<1>4. written = taken \/ written - taken < f
  BY <1>1, <1>2, <1>3 DEF Inv, RoomInv, TypeOK, LoopInv, NoFrameLeftBehind
<1> QED BY <1>2, <1>3, <1>4

(* Such a piece is stored after what is waiting and over none of it.       *)
LEMMA PieceStored ==
  ASSUME RoomInv, NEW n \in 1 .. MaxChunk, written - taken + n < RingLen,
         NEW k \in 0 .. written - taken + n - 1
  PROVE  Appended(n)[Slot(k)] = taken + k + 1
<1> DEFINE w == written - taken
<1>1. /\ start_len \in 0 .. RingLen /\ end_len \in 0 .. RingLen
      /\ written \in Nat /\ taken \in Nat /\ n \in Nat /\ w \in Nat /\ k \in Nat
      /\ w + n < RingLen /\ k < w + n
  BY DEF RoomInv, TypeOK
<1>2. end_len = start_len + w \/ end_len = start_len + w - RingLen
  BY <1>1 DEF RoomInv, ReserveIsUnread, Reserve
<1>3. Slot(k) \in 0 .. RingLen - 1
  BY <1>1 DEF Slot
<1>4. CASE k < w
  <2>1. ring[Slot(k)] = taken + k + 1
    BY <1>1, <1>4 DEF RoomInv, NoUnreadOverwritten
  <2>2. ~(end_len <= Slot(k) /\ Slot(k) < end_len + n)
    BY <1>1, <1>2, <1>4 DEF Slot
  <2>3. ~(Slot(k) < end_len + n - RingLen)
    BY <1>1, <1>2, <1>4 DEF Slot
  <2> QED BY <1>3, <2>1, <2>2, <2>3 DEF Appended
<1>5. CASE k >= w
  <2>1. \/ end_len <= Slot(k) /\ Slot(k) < end_len + n /\ Slot(k) = end_len + (k - w)
        \/ /\ ~(end_len <= Slot(k) /\ Slot(k) < end_len + n)
           /\ Slot(k) < end_len + n - RingLen /\ Slot(k) = end_len + (k - w) - RingLen
    BY <1>1, <1>2, <1>5 DEF Slot
  <2>2. \/ Appended(n)[Slot(k)] = written + 1 + (k - w)
        \/ Appended(n)[Slot(k)] = written + 1 + (end_len + (k - w) - RingLen + RingLen - end_len)
    BY <1>1, <1>3, <2>1 DEF Appended
  <2> QED BY <1>1, <2>2
<1> QED BY <1>1, <1>4, <1>5

(* The types of the parts that arithmetic needs.                           *)
LEMMA Numbers ==
  ASSUME RoomInv
  PROVE  /\ start_len \in 0 .. RingLen /\ end_len \in 0 .. RingLen
         /\ written \in Nat /\ taken \in Nat /\ written - taken \in 0 .. RingLen - 1
         /\ Reserve = written - taken
  BY DEF RoomInv, TypeOK, ReserveIsUnread

(* A frame is longer than its header.                                      *)
LEMMA FrameSizesPositive == \A f \in FrameSizes : f \in Nat /\ f > HeadLen /\ f > 0
  OBVIOUS

(* A piece fits next to what waits, which is less than a frame.            *)
LEMMA PutKeepsInv ==
  ASSUME FramesFit, HeadsArriveWhole, Inv, NEW n \in 1 .. MaxChunk, PutChunk(n)
  PROVE  Inv'
<1> USE DEF Inv
<1>1. pc = "idle" /\ written' = written + n /\ taken' = taken /\ start_len' = start_len
      /\ end_len' = EndAfter(n) /\ ring' = Appended(n) /\ pc' = "head"
      /\ parse_flag' = parse_flag /\ FrameSize' = FrameSize
  BY DEF PutChunk
<1>2. written - taken + n < RingLen
  BY <1>1, RoomForPiece
<1>3. n \in 1 .. RingLen
  OBVIOUS
<1>4. TypeOK'
  BY TypePut DEF RoomInv
<1>5. (taken <= written /\ written - taken < RingLen)'
  BY <1>1, <1>2, <1>3, Numbers
<1>6. ReserveIsUnread'
  BY <1>1, <1>2, <1>3, Numbers DEF ReserveIsUnread, Reserve, EndAfter
<1>7. NoUnreadOverwritten'
  <2> SUFFICES ASSUME NEW k \in 0 .. written' - taken' - 1
               PROVE  ring'[Slot(k)'] = taken' + k + 1
    BY DEF NoUnreadOverwritten
  <2>1. k \in 0 .. written - taken + n - 1
    BY <1>1, <1>3, Numbers
  <2>2. Slot(k)' = Slot(k)
    BY <1>1 DEF Slot
  <2>3. Appended(n)[Slot(k)] = taken + k + 1
    BY <1>2, <2>1, PieceStored
  <2> QED BY <1>1, <2>2, <2>3
<1>8. LoopInv'
  <2>1. parse_flag = 0 => n >= HeadLen /\ taken = 0 /\ written = 0
    BY <1>1, <1>3 DEF LoopInv, PutChunk, HeadsArriveWhole
  <2>2. written' # 0
    BY <1>1, <1>3, Numbers
  <2> QED BY <1>1, <1>3, <2>1, <2>2 DEF LoopInv, NoFrameLeftBehind
<1> QED BY <1>4, <1>5, <1>6, <1>7, <1>8 DEF RoomInv

(* Learning the frame size changes nothing in the ring.                    *)
LEMMA HeaderKeepsInv ==
  ASSUME Inv, ReadHeader
  PROVE  Inv'
<1> USE DEF Inv
<1>1. TypeOK'
  BY TypeStep DEF RoomInv, Next
<1>2. UNCHANGED <<ring, start_len, end_len, frame, written, taken, stream>>
      /\ pc = "head" /\ pc' = "frame"
  BY DEF ReadHeader, ghosts
<1>3. RoomInv'
  BY <1>1, <1>2 DEF RoomInv, ReserveIsUnread, Reserve, NoUnreadOverwritten, Slot
<1>4. FrameSize' \in FrameSizes /\ FrameSize' > 0 /\ parse_flag' = 1
  <2>1. parse_flag \in {0, 1} /\ stream.size \in FrameSizes
    BY DEF RoomInv, TypeOK
  <2>2. FrameSize' \in FrameSizes
    <3>1. CASE parse_flag = 0
      BY <1>2, <2>1, <3>1 DEF ReadHeader, HeaderSizes, LoopInv
    <3>2. CASE parse_flag = 1
      BY <3>2 DEF ReadHeader, LoopInv
    <3> QED BY <2>1, <3>1, <3>2
  <2>3. FrameSize' > 0
    BY <2>2, FrameSizesPositive
  <2> QED BY <2>2, <2>3 DEF ReadHeader
<1>5. LoopInv'
  BY <1>2, <1>4 DEF LoopInv, NoFrameLeftBehind
<1> QED BY <1>3, <1>5

(* Giving up a frame moves start_len as far as what waits shrinks.         *)
LEMMA SendKeepsInv ==
  ASSUME Inv, SendFrame
  PROVE  Inv'
<1> USE DEF Inv
<1>1. TypeOK'
  BY TypeStep DEF RoomInv, Next
<1>2. /\ parse_flag = 1 /\ FrameSize \in FrameSizes /\ FrameSize \in Nat /\ FrameSize > 0
      /\ Reserve >= FrameSize
  <2>1. parse_flag = 1 /\ FrameSize \in FrameSizes /\ Reserve >= FrameSize
    BY DEF SendFrame, LoopInv
  <2> QED BY <2>1, FrameSizesPositive
<1>3. /\ UNCHANGED <<ring, end_len, parse_flag, FrameSize, written, stream>>
      /\ start_len' = StartAfter(FrameSize) /\ taken' = taken + FrameSize
      /\ pc' = "head"
  BY DEF SendFrame
<1>4. FrameSize <= written - taken
  BY <1>2, Numbers
<1>5. (taken <= written /\ written - taken < RingLen)'
  BY <1>2, <1>3, <1>4, Numbers
<1>6. ReserveIsUnread'
  BY <1>2, <1>3, <1>4, Numbers DEF ReserveIsUnread, Reserve, StartAfter
<1>7. NoUnreadOverwritten'
  <2> SUFFICES ASSUME NEW k \in 0 .. written' - taken' - 1
               PROVE  ring'[Slot(k)'] = taken' + k + 1
    BY DEF NoUnreadOverwritten
  <2>1. k + FrameSize \in 0 .. written - taken - 1
    BY <1>2, <1>3, <1>4, Numbers
  <2>2. Slot(k)' = Slot(k + FrameSize)
    BY <1>2, <1>3, <1>4, <2>1, Numbers DEF Slot, StartAfter
  <2>3. ring[Slot(k + FrameSize)] = taken + (k + FrameSize) + 1
    BY <2>1 DEF RoomInv, NoUnreadOverwritten
  <2> QED BY <1>2, <1>3, <2>2, <2>3, Numbers
<1>8. LoopInv'
  BY <1>2, <1>3 DEF LoopInv, NoFrameLeftBehind
<1> QED BY <1>1, <1>5, <1>6, <1>7, <1>8 DEF RoomInv

(* Every step of parse_mp3_frame keeps the invariant.                      *)
LEMMA InvStep ==
  ASSUME FramesFit, HeadsArriveWhole
  PROVE  Inv /\ [Next]_vars => Inv'
<1> SUFFICES ASSUME Inv, [Next]_vars PROVE Inv'
  OBVIOUS
<1>1. TypeOK'
  BY TypeStep DEF Inv, RoomInv
<1>2. CASE NextStream
  <2>1. UNCHANGED code /\ UNCHANGED <<written, taken>> /\ stream.len > 0
    BY <1>2 DEF NextStream
  <2>2. RoomInv'
    BY <1>1, <2>1 DEF Inv, RoomInv, code, ReserveIsUnread, Reserve, NoUnreadOverwritten, Slot
  <2>3. written # 0
    BY <2>1 DEF Inv, LoopInv
  <2>4. LoopInv'
    BY <2>1, <2>3 DEF Inv, LoopInv, code, NoFrameLeftBehind
  <2> QED BY <2>2, <2>4 DEF Inv
<1>3. ASSUME NEW n \in 1 .. MaxChunk, PutChunk(n) PROVE Inv'
  BY <1>3, PutKeepsInv
<1>4. CASE ReadHeader
  BY <1>4, HeaderKeepsInv
<1>5. CASE SendFrame
  BY <1>5, SendKeepsInv
<1>6. CASE Return
  <2>1. UNCHANGED <<ring, start_len, end_len, parse_flag, FrameSize, written, taken, stream>>
        /\ pc' = "idle" /\ pc = "frame" /\ Reserve < FrameSize
    BY <1>6 DEF Return, ghosts
  <2>2. RoomInv'
    BY <1>1, <2>1 DEF Inv, RoomInv, ReserveIsUnread, Reserve, NoUnreadOverwritten, Slot
  <2>3. LoopInv'
    BY <2>1, Numbers DEF Inv, LoopInv, NoFrameLeftBehind
  <2> QED BY <2>2, <2>3 DEF Inv
<1>7. CASE UNCHANGED vars
  <2>1. UNCHANGED code /\ UNCHANGED <<written, taken, stream>>
    BY <1>7 DEF vars, ghosts
  <2>2. RoomInv'
    BY <1>1, <2>1 DEF Inv, RoomInv, code, ReserveIsUnread, Reserve, NoUnreadOverwritten, Slot
  <2>3. LoopInv'
    BY <2>1 DEF Inv, LoopInv, code, NoFrameLeftBehind
  <2> QED BY <2>2, <2>3 DEF Inv
<1> QED BY <1>2, <1>3, <1>4, <1>5, <1>6, <1>7 DEF Next

(* As long as a frame and a piece fit in the ring together and a response  *)
(* starts with a whole header, no byte is overwritten before its frame is  *)
(* sent, although the code never compares a piece with the room left.      *)
THEOREM NoUnreadOverwrittenAlways ==
  ASSUME FramesFit, HeadsArriveWhole
  PROVE  Spec => []NoUnreadOverwritten
<1>1. Inv => NoUnreadOverwritten
  BY DEF Inv, RoomInv
<1> QED BY <1>1, InvInit, InvStep, PTL DEF Spec

(* Under the same conditions the cursors never confuse full and empty.     *)
THEOREM ReserveIsUnreadAlways ==
  ASSUME FramesFit, HeadsArriveWhole
  PROVE  Spec => []ReserveIsUnread
<1>1. Inv => ReserveIsUnread
  BY DEF Inv, RoomInv
<1> QED BY <1>1, InvInit, InvStep, PTL DEF Spec

(* And a call leaves less than a frame behind.                             *)
THEOREM NoFrameLeftBehindAlways ==
  ASSUME FramesFit, HeadsArriveWhole
  PROVE  Spec => []NoFrameLeftBehind
<1>1. Inv => NoFrameLeftBehind
  BY DEF Inv, LoopInv
<1> QED BY <1>1, InvInit, InvStep, PTL DEF Spec

-----------------------------------------------------------------------------
(* Frames start where the server's frames start.                           *)

(* A multiple leaves no remainder.                                         *)
LEMMA MultipleMod ==
  ASSUME NEW s \in Nat, s > 0, NEW j \in Nat
  PROVE  (s * j) % s = 0
  OBVIOUS

(* What leaves no remainder is a multiple.                                 *)
LEMMA ModMultiple ==
  ASSUME NEW s \in Nat, s > 0, NEW a \in Nat, a % s = 0
  PROVE  \E d \in Nat : a = s * d
<1>1. a = s * (a \div s)
  OBVIOUS
<1>2. a \div s \in Nat
  OBVIOUS
<1> QED BY <1>1, <1>2

(* As long as every response was complete and of the same size, start_len  *)
(* and the beginning of this response are whole frames from the first      *)
(* byte, and every frame of the server that starts among the bytes waiting *)
(* is known.                                                               *)
Aligned ==
  steady =>
    /\ parse_flag = 1 => FrameSize = stream.size
    /\ \E q \in Nat : taken = stream.size * q
    /\ \E c \in Nat : written = stream.size * c + stream.len
    /\ \A k \in Nat :
         taken <= stream.size * k /\ stream.size * k < written => stream.size * k + 1 \in heads

(* The types and what the size is for.                                     *)
LEMMA StreamSize ==
  ASSUME Inv
  PROVE  /\ stream.size \in Nat /\ stream.size > 0 /\ stream.size > HeadLen
         /\ stream.len \in Nat /\ written \in Nat /\ taken \in Nat /\ taken <= written
  BY FrameSizesPositive DEF Inv, RoomInv, TypeOK

(* Multiples of a size, added up.                                          *)
LEMMA Products ==
  ASSUME NEW s \in Nat
  PROVE  /\ \A q \in Nat : s * q \in Nat
         /\ \A q \in Nat : s * (q + 1) = s * q + s
         /\ \A q, d \in Nat : s * (q + d) = s * q + s * d
  OBVIOUS

(* And the distance of two multiples is a multiple.                        *)
LEMMA Differences ==
  ASSUME NEW s \in Nat, NEW q \in Nat, NEW d \in Nat, s * d <= s * q, s > 0
  PROVE  q - d \in Nat /\ s * (q - d) = s * q - s * d
  OBVIOUS

(* No frame is known or taken before the first byte.                       *)
LEMMA AlignedInit == Init => Aligned
<1> SUFFICES ASSUME Init PROVE Aligned
  OBVIOUS
<1>1. /\ parse_flag = 0 /\ written = 0 /\ taken = 0 /\ stream.len = 0
      /\ stream.size \in Nat /\ stream.size > 0
  BY FrameSizesPositive DEF Init
<1>2. taken = stream.size * 0 /\ written = stream.size * 0 + stream.len
  BY <1>1
<1>3. \A k \in Nat : ~(stream.size * k < written)
  BY <1>1, Products
<1> QED BY <1>1, <1>2, <1>3 DEF Aligned

(* A complete response ends where a frame ends.                            *)
LEMMA NextStreamAligned ==
  ASSUME Inv, Aligned, NextStream
  PROVE  Aligned'
<1> SUFFICES ASSUME steady' PROVE Aligned'
  BY DEF Aligned
<1>1. /\ steady /\ stream.len % stream.size = 0 /\ stream'.size = stream.size /\ stream'.len = 0
      /\ UNCHANGED <<parse_flag, FrameSize, written, taken, heads>>
  BY DEF NextStream, code
<1> DEFINE s == stream.size
<1>2. s \in Nat /\ s > 0 /\ stream.len \in Nat
  BY StreamSize
<1>3. PICK c \in Nat : written = s * c + stream.len
  BY <1>1 DEF Aligned
<1>4. PICK d \in Nat : stream.len = s * d
  BY <1>1, <1>2, ModMultiple
<1>5. written = s * (c + d) + 0 /\ c + d \in Nat
  BY <1>2, <1>3, <1>4, Products
<1> QED BY <1>1, <1>5 DEF Aligned

(* The frames that start in a piece are the server's, and no others.       *)
LEMMA PutAligned ==
  ASSUME Inv, Aligned, NEW n \in 1 .. MaxChunk, PutChunk(n)
  PROVE  Aligned'
<1> SUFFICES ASSUME steady PROVE Aligned'
  BY DEF Aligned, PutChunk
<1> DEFINE s == stream.size
<1>1. /\ s \in Nat /\ s > 0 /\ stream.len \in Nat /\ written \in Nat /\ taken \in Nat
      /\ n \in Nat /\ n > 0
  BY StreamSize
<1>2. /\ UNCHANGED <<parse_flag, FrameSize, taken, steady>> /\ written' = written + n
      /\ stream'.size = s /\ stream'.len = stream.len + n
      /\ heads' = heads \union
           {written + m : m \in {i \in 1 .. n : (stream.len + i - 1) % s = 0}}
  BY DEF PutChunk, Inv, RoomInv, TypeOK
<1>3. PICK c \in Nat : written = s * c + stream.len
  BY DEF Aligned
<1>4. written' = s * c + stream'.len
  BY <1>1, <1>2, <1>3, Products
<1>5. ASSUME NEW k \in Nat, taken <= s * k, s * k < written + n PROVE s * k + 1 \in heads'
  <2>1. s * k \in Nat /\ s * c \in Nat
    BY <1>1, Products
  <2>2. CASE s * k < written
    BY <1>2, <1>5, <2>2 DEF Aligned
  <2>3. CASE s * k >= written
    <3> DEFINE m == s * k - written + 1
    <3>1. m \in 1 .. n /\ written + m = s * k + 1 /\ stream.len + m - 1 = s * k - s * c
      BY <1>1, <1>3, <1>5, <2>1, <2>3
    <3>2. s * k - s * c = s * (k - c) /\ k - c \in Nat
      BY <1>1, <1>3, <2>1, <2>3, Differences
    <3>3. (stream.len + m - 1) % s = 0
      BY <1>1, <3>1, <3>2, MultipleMod
    <3> QED BY <1>2, <3>1, <3>3
  <2> QED BY <1>1, <2>1, <2>2, <2>3
<1>6. taken' = taken /\ stream'.size = s /\ written' = written + n
  BY <1>2
<1> QED BY <1>2, <1>3, <1>4, <1>5 DEF Aligned

(* The next frame starts where this one ends.                              *)
LEMMA SendAligned ==
  ASSUME Inv, Aligned, SendFrame
  PROVE  /\ Aligned'
         /\ steady => taken + 1 \in heads
<1> SUFFICES ASSUME steady PROVE Aligned' /\ taken + 1 \in heads
  BY DEF Aligned, SendFrame
<1> DEFINE s == stream.size
<1>1. s \in Nat /\ s > 0 /\ written \in Nat /\ taken \in Nat
  BY StreamSize
<1>2. /\ UNCHANGED <<parse_flag, FrameSize, written, stream, steady>>
      /\ Reserve >= FrameSize /\ taken' = taken + FrameSize
      /\ heads' = {h \in heads : h > taken'}
  BY DEF SendFrame
<1>3. FrameSize = s /\ s <= written - taken
  BY <1>1, <1>2, Numbers DEF Aligned, SendFrame, Inv, LoopInv
<1>4. PICK q \in Nat : taken = s * q
  BY DEF Aligned
<1>5. taken + 1 \in heads
  BY <1>1, <1>3, <1>4 DEF Aligned
<1>6. taken' = s * (q + 1) /\ q + 1 \in Nat
  BY <1>1, <1>2, <1>3, <1>4, Products
<1>7. ASSUME NEW k \in Nat, taken' <= s * k, s * k < written PROVE s * k + 1 \in heads'
  <2>1. s * k \in Nat
    BY <1>1, Products
  <2>2. s * k + 1 \in heads
    BY <1>1, <1>2, <1>3, <1>7, <2>1 DEF Aligned
  <2> QED BY <1>1, <1>2, <1>3, <1>7, <2>1, <2>2
<1> QED BY <1>2, <1>5, <1>6, <1>7 DEF Aligned

(* Every step keeps frames aligned; those not above do not move them.      *)
LEMMA AlignedStep ==
  ASSUME Inv, Inv', Aligned, [Next]_vars
  PROVE  Aligned'
<1>1. CASE NextStream
  BY <1>1, NextStreamAligned
<1>2. ASSUME NEW n \in 1 .. MaxChunk, PutChunk(n) PROVE Aligned'
  BY <1>2, PutAligned
<1>3. CASE ReadHeader
  <2>1. UNCHANGED <<written, taken, stream, heads, steady>> /\ pc = "head"
    BY <1>3 DEF ReadHeader, ghosts
  <2>2. FrameSize' \in (IF parse_flag = 0 THEN HeaderSizes ELSE {FrameSize})
    BY <1>3 DEF ReadHeader
  <2>3. parse_flag = 0 => FrameSize' = stream.size
    BY <2>1, <2>2 DEF HeaderSizes, Inv, LoopInv
  <2>4. parse_flag \in {0, 1}
    BY DEF Inv, RoomInv, TypeOK
  <2> QED BY <2>1, <2>2, <2>3, <2>4 DEF Aligned
<1>4. CASE SendFrame
  BY <1>4, SendAligned
<1>5. CASE Return
  BY <1>5 DEF Return, ghosts, Aligned
<1>6. CASE UNCHANGED vars
  BY <1>6 DEF vars, code, ghosts, Aligned
<1> QED BY <1>1, <1>2, <1>3, <1>4, <1>5, <1>6 DEF Next

(* As long as every response is complete and of one frame size, and the    *)
(* sizes fit, every frame handed on starts where a frame of the server     *)
(* starts, although only the first header of all is ever looked at.        *)
THEOREM FramesAlwaysAligned ==
  ASSUME FramesFit, HeadsArriveWhole
  PROVE  Spec => FramesAligned
<1>1. ASSUME Inv, Aligned, [Next]_vars
      PROVE  [steady /\ taken' # taken => taken + 1 \in heads]_vars
  <2>1. CASE SendFrame
    BY <1>1, <2>1, SendAligned
  <2>2. CASE UNCHANGED vars
    BY <2>2
  <2>3. CASE ~SendFrame /\ ~UNCHANGED vars
    BY <1>1, <2>3 DEF Next, NextStream, PutChunk, ReadHeader, Return, ghosts
  <2> QED BY <2>1, <2>2, <2>3
<1>2. Inv /\ Inv' /\ Aligned /\ [Next]_vars => Aligned'
  BY AlignedStep
<1>3. Inv /\ Aligned /\ [Next]_vars => [steady /\ taken' # taken => taken + 1 \in heads]_vars
  BY <1>1
<1> QED BY <1>2, <1>3, AlignedInit, InvInit, InvStep, PTL DEF Spec, FramesAligned

-----------------------------------------------------------------------------
(* The ring implements FrameStream.                                        *)

(* What the descriptor of a complete frame points at is the bytes that     *)
(* follow its header, whether or not the frame wraps round.                *)
LEMMA DescriptorBytes ==
  ASSUME RoomInv, FrameSize \in Nat, FrameSize > HeadLen, Reserve >= FrameSize
  PROVE  BytesOf(Descriptor(FrameSize)) = Consecutive(taken + HeadLen + 1, FrameSize - HeadLen)
<1> DEFINE d == Descriptor(FrameSize)
           direct == d.recv_len - d.from_start_len
<1>1. d.recv_len = FrameSize - HeadLen /\ d.recv_addr \in Int /\ d.from_start_len \in Int
  BY Numbers DEF Descriptor
<1>2. ASSUME NEW j \in 0 .. FrameSize - HeadLen - 1
      PROVE  (IF j < direct THEN ring[d.recv_addr + j] ELSE ring[j - direct]) = taken + HeadLen + 1 + j
  <2>1. HeadLen + j \in 0 .. written - taken - 1
    BY Numbers
  <2>2. ring[Slot(HeadLen + j)] = taken + (HeadLen + j) + 1
    BY <2>1 DEF RoomInv, NoUnreadOverwritten
  <2>3. Slot(HeadLen + j) = (IF j < direct THEN d.recv_addr + j ELSE j - direct)
    BY Numbers DEF Slot, Descriptor
  <2> QED BY <2>2, <2>3, Numbers
<1>3. BytesOf(d) = [j \in 0 .. d.recv_len - 1 |->
                      IF j < direct THEN ring[d.recv_addr + j] ELSE ring[j - direct]]
  BY DEF BytesOf
<1> HIDE DEF d, direct
<1>4. BytesOf(d) = [j \in 0 .. FrameSize - HeadLen - 1 |->
                      IF j < direct THEN ring[d.recv_addr + j] ELSE ring[j - direct]]
  BY <1>1, <1>3
<1>5. BytesOf(d) = [j \in 0 .. FrameSize - HeadLen - 1 |-> taken + HeadLen + 1 + j]
  BY <1>2, <1>4
<1>6. BytesOf(d) = Consecutive(taken + HeadLen + 1, FrameSize - HeadLen)
  BY <1>5 DEF Consecutive
<1> QED BY <1>6 DEF d

(* An empty ring is FrameStream before any byte.                           *)
LEMMA AbsInit == Init => Abs!Init
<1>1. \A a, n : Consecutive(a, n) = Abs!Consecutive(a, n)
  BY DEF Consecutive, Abs!Consecutive
<1> QED BY <1>1 DEF Init, Abs!Init

(* Every step of the ring is a step of FrameStream or none.                *)
LEMMA AbsStep ==
  ASSUME FramesFit, HeadsArriveWhole, Inv, Inv', [Next]_vars
  PROVE  [Abs!Next]_Abs!vars
<1> DEFINE AbsStutter == UNCHANGED <<written, taken, parse_flag, FrameSize, frame>>
<1>1. AbsStutter => [Abs!Next]_Abs!vars
  BY DEF Abs!vars
<1>2. CASE NextStream
  BY <1>1, <1>2 DEF NextStream, code
<1>3. ASSUME NEW n \in 1 .. MaxChunk, PutChunk(n) PROVE [Abs!Next]_Abs!vars
  BY <1>3 DEF PutChunk, Abs!Next, Abs!Receive
<1>4. CASE ReadHeader
  <2>1. UNCHANGED <<frame, written, taken>> /\ pc = "head" /\ pc' = "frame"
    BY <1>4 DEF ReadHeader, ghosts
  <2>2. parse_flag \in {0, 1} /\ parse_flag' = 1 /\ FrameSize' \in FrameSizes
    BY <2>1 DEF Inv, RoomInv, TypeOK, LoopInv
  <2>3. CASE parse_flag = 0
    <3>1. written - taken >= HeadLen
      BY <2>1, <2>3 DEF Inv, LoopInv
    <3> QED BY <2>1, <2>2, <2>3, <3>1 DEF Abs!Next, Abs!LearnSize
  <2>4. CASE parse_flag = 1
    BY <1>1, <1>4, <2>1, <2>2, <2>4 DEF ReadHeader
  <2> QED BY <2>2, <2>3, <2>4
<1>5. CASE SendFrame
  <2>1. /\ UNCHANGED <<parse_flag, FrameSize, written>>
        /\ parse_flag = 1 /\ FrameSize \in FrameSizes /\ Reserve >= FrameSize
        /\ frame' = BytesOf(Descriptor(FrameSize)) /\ taken' = taken + FrameSize
    BY <1>5 DEF SendFrame, Inv, LoopInv
  <2>2. FrameSize \in Nat /\ FrameSize > HeadLen /\ FrameSize > 0
    BY <2>1, FrameSizesPositive
  <2>3. frame' = Consecutive(taken + HeadLen + 1, FrameSize - HeadLen)
    BY <2>1, <2>2, DescriptorBytes DEF Inv
  <2>4. written - taken >= FrameSize
    BY <2>1, Numbers DEF Inv
  <2>5. Abs!Deliver
    BY <2>1, <2>2, <2>3, <2>4 DEF Abs!Deliver, Abs!NextPayload, Consecutive, Abs!Consecutive
  <2> QED BY <2>5 DEF Abs!Next
<1>6. CASE Return
  BY <1>1, <1>6 DEF Return, ghosts
<1>7. CASE UNCHANGED vars
  BY <1>1, <1>7 DEF vars, code, ghosts
<1> QED BY <1>2, <1>3, <1>4, <1>5, <1>6, <1>7 DEF Next

(* The detailed ring implements the abstract stream of frames: what        *)
(* mp3_parse_recv is sent is each frame's payload, once and in order.      *)
THEOREM RingImplementsFrameStream ==
  ASSUME FramesFit, HeadsArriveWhole
  PROVE  Spec => ImplementsFrameStream
<1>1. Inv /\ Inv' /\ [Next]_vars => [Abs!Next]_Abs!vars
  BY AbsStep
<1> QED BY <1>1, AbsInit, InvInit, InvStep, PTL DEF Spec, ImplementsFrameStream, Abs!Spec

-----------------------------------------------------------------------------
(* The first header.                                                       *)

(* Until a header was accepted the ring is untouched, or one call is about *)
(* to look at the first bytes of the first response.                       *)
FirstHeadInv ==
  /\ stream.size \in FrameSizes /\ written \in Nat /\ stream.len \in Nat
  /\ parse_flag \in {0, 1}
  /\ parse_flag = 0 => /\ taken = 0
                       /\ \/ pc = "idle" /\ stream.len = 0
                          \/ pc = "head" /\ written >= HeadLen

(* A frame size is more than 0.                                            *)
LEMMA SizesPositive == \A f \in FrameSizes : f \in Nat /\ f > 0
<1> TAKE f \in FrameSizes
<1>1. f \in Nat /\ f > HeadLen /\ HeadLen \in Nat
  BY RingAssumption
<1> QED
  BY <1>1

LEMMA FirstHeadStep ==
  ASSUME HeadsArriveWhole, FirstHeadInv, [Next]_vars
  PROVE  FirstHeadInv'
<1> USE DEF FirstHeadInv, code, ghosts
<1>1. CASE NextStream
  BY <1>1 DEF NextStream
<1>2. ASSUME NEW n \in 1 .. MaxChunk, PutChunk(n) PROVE FirstHeadInv'
  <2>1. /\ written' = written + n /\ pc = "idle" /\ pc' = "head"
        /\ stream.len = 0 => n >= HeadLen
        /\ UNCHANGED <<parse_flag, taken>>
    BY <1>2 DEF PutChunk, HeadsArriveWhole
  <2>2. stream' = [stream EXCEPT !.len = @ + n]
    BY <1>2 DEF PutChunk
  <2>3. stream'.size \in FrameSizes /\ stream'.len \in Nat
    BY <2>2
  <2> QED
    BY <2>1, <2>3
<1>3. CASE ReadHeader
  <2>1. CASE parse_flag = 0
    <3>1. written - taken >= HeadLen
      BY <1>3, <2>1 DEF ReadHeader
    <3>2. FrameSize' = stream.size
      BY <1>3, <2>1, <3>1 DEF ReadHeader, HeaderSizes
    <3>3. stream.size > 0
      BY SizesPositive
    <3>4. parse_flag' = 1
      BY <1>3, <3>2, <3>3 DEF ReadHeader
    <3> QED
      BY <1>3, <3>4 DEF ReadHeader
  <2>2. CASE parse_flag # 0
    BY <1>3, <2>2 DEF ReadHeader
  <2> QED
    BY <2>1, <2>2
<1>4. CASE SendFrame
  BY <1>4 DEF SendFrame
<1>5. CASE Return
  BY <1>5 DEF Return
<1>6. CASE UNCHANGED vars
  BY <1>6 DEF vars
<1> QED
  BY <1>1, <1>2, <1>3, <1>4, <1>5, <1>6 DEF Next

(* The one condition that HeaderComplete needs, and the code does not      *)
(* check: no response starts with a piece shorter than a header.  How long *)
(* frames are does not matter.                                             *)
THEOREM HeaderThenComplete ==
  ASSUME HeadsArriveWhole
  PROVE  Spec => HeaderComplete
<1>1. Init => FirstHeadInv
  BY DEF Init, FirstHeadInv
<1>2. ASSUME FirstHeadInv, [Next]_vars
      PROVE  [parse_flag' # parse_flag => written - taken >= HeadLen]_vars
  <2>1. CASE ReadHeader
    BY <1>2, <2>1 DEF FirstHeadInv, ReadHeader
  <2>2. CASE ~ReadHeader
    BY <1>2, <2>2 DEF Next, NextStream, PutChunk, SendFrame, Return, vars, code, ghosts
  <2> QED
    BY <2>1, <2>2
<1> QED
  BY <1>1, <1>2, FirstHeadStep, PTL DEF Spec, HeaderComplete

-----------------------------------------------------------------------------
(* The ring of the board, with streams of speech.                          *)

BoardRing ==
  /\ RingLen = 2048 /\ HeadLen = 4 /\ MaxChunk = 1024
  /\ FrameSizes \subseteq {GetRateBit(h) : h \in Speech}

LEMMA BoardFits == BoardRing => FramesFit
<1>1. ASSUME NEW f \in FrameSizes, BoardRing PROVE f + MaxChunk <= RingLen
  <2>1. f \in {GetRateBit(h) : h \in Speech}
    BY <1>1 DEF BoardRing
  <2>2. PICK h \in Speech : f = GetRateBit(h)
    BY <2>1
  <2>3. GetRateBit(h) + 1024 <= 2048
    BY SpeechAlwaysFits DEF SpeechFits, FitsWithPiece
  <2> QED
    BY <1>1, <2>2, <2>3 DEF BoardRing
<1> QED
  BY <1>1 DEF FramesFit

(* The sizes in mp3parse.c are enough for every stream that is speech: at  *)
(* each of its bit rates and sampling rates no byte is overwritten before  *)
(* it was taken, and the ring does what FrameStream promises.              *)
THEOREM BoardRingWorks ==
  ASSUME BoardRing, HeadsArriveWhole
  PROVE  Spec => []NoUnreadOverwritten /\ ImplementsFrameStream
BY BoardFits, NoUnreadOverwrittenAlways, RingImplementsFrameStream
=============================================================================
