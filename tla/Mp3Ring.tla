------------------------------ MODULE Mp3Ring ------------------------------
(***************************************************************************)
(* The ring cache of the MP3 stage: parse_mp3_frame and its globals        *)
(* (parse_buf, start_len, end_len, parse_flag, FrameSize) in mp3parse.c.   *)
(*                                                                         *)
(* tts_recv_task is the only caller, so the globals have one writer; the   *)
(* reader of a frame, mp3_parse_recv, has a higher priority than its       *)
(* sender and looks at the ring before the sender goes on (TtsPipeline     *)
(* checks that), so reading a frame is part of sending it.                 *)
(*                                                                         *)
(* A byte is its number in the order of arrival, so that a ring slot tells *)
(* which byte it holds: 0 is the zero the C start-up code stores there.    *)
(***************************************************************************)
EXTENDS Integers

CONSTANTS
  RingLen,      (* cycle_buf_len (2048)                                    *)
  HeadLen,      (* MP3_FRAME_HEAD_LEN (4)                                  *)
  MaxChunk,     (* the most bytes one call is given (1024, a body read)    *)
  MinFirst,     (* the fewest bytes the first call of a response is given  *)
  FrameSizes,   (* the frame sizes the server's streams have               *)
  Garbage,      (* what GetRateBit may return for bytes that are no header *)
  MaxWritten    (* bound: bytes received in a behaviour                    *)

ASSUME RingAssumption ==
  /\ RingLen \in Nat \ {0}
  /\ HeadLen \in Nat \ {0}
  /\ MaxChunk \in 1 .. RingLen
  /\ MinFirst \in 1 .. MaxChunk
  /\ FrameSizes \subseteq Nat
  /\ \A f \in FrameSizes : f > HeadLen
  /\ Garbage \subseteq Nat
  /\ MaxWritten \in Nat

(* The two conditions under which the ring does its work: a frame and a    *)
(* piece fit together, and a response does not start with less than a      *)
(* frame header.  The code checks neither.                                 *)
FramesFit == \A f \in FrameSizes : f + MaxChunk <= RingLen
HeadsArriveWhole == MinFirst >= HeadLen

VARIABLES
  ring,         (* parse_buf, by offset                                    *)
  start_len,    (* first byte not yet taken                                *)
  end_len,      (* where the next byte goes                                *)
  parse_flag,   (* a first header was parsed                               *)
  FrameSize,    (* what it said; kept for all later frames                 *)
  pc,           (* where parse_mp3_frame is, "idle" outside of it        *)
  frame,        (* the bytes read through the descriptor sent last         *)
  written,      (* bytes given to parse_mp3_frame so far                   *)
  taken,        (* bytes start_len has moved over                          *)
  stream,       (* the response being received: frame size, bytes so far   *)
  heads,        (* the bytes not yet taken that start a frame at the server *)
  steady        (* so far all responses were complete, of one frame size   *)

code == <<ring, start_len, end_len, parse_flag, FrameSize, pc, frame>>
ghosts == <<written, taken, stream, heads, steady>>
vars == <<code, ghosts>>

(* The n bytes from the one numbered first on, by offset.                  *)
Consecutive(first, n) == [j \in 0 .. n - 1 |-> first + j]

Init ==
  /\ ring = [i \in 0 .. RingLen - 1 |-> 0]
  /\ start_len = 0
  /\ end_len = 0
  /\ parse_flag = 0
  /\ FrameSize = 0
  /\ pc = "idle"
  /\ frame = Consecutive(1, 0)
  /\ written = 0
  /\ taken = 0
  /\ stream \in [size : FrameSizes, len : {0}]
  /\ heads = {}
  /\ steady = TRUE

-----------------------------------------------------------------------------
(* The server starts another response: the next answer.  Nothing on the    *)
(* device is reset.  The one before may have ended inside a frame (the     *)
(* read loop of run_tts stops at the first read of 0 or less).             *)
NextStream ==
  /\ pc = "idle"
  /\ stream.len > 0
  /\ stream' \in [size : FrameSizes, len : {0}]
  /\ steady' = (steady /\ stream.len % stream.size = 0 /\ stream'.size = stream.size)
  /\ UNCHANGED <<code, written, taken, heads>>

(* Mutant: the split of the disabled code at lines 411-416, which copies   *)
(* the overhang to the end and the rest to the beginning.                  *)
AppendedOverhangFirst(n) ==
  LET over == end_len + n - RingLen
  IN [i \in 0 .. RingLen - 1 |->
        IF over <= 0 /\ end_len <= i /\ i < end_len + n THEN written + 1 + (i - end_len)
        ELSE IF over > 0 /\ end_len <= i /\ i < end_len + over
          THEN written + 1 + (i - end_len)
        ELSE IF over > 0 /\ i < n - over THEN written + 1 + over + i
        ELSE ring[i]]

(* The new contents of the ring when n bytes are copied to its end, round  *)
(* to its beginning when they do not fit.                                  *)
Appended(n) ==
  [i \in 0 .. RingLen - 1 |->
     IF end_len <= i /\ i < end_len + n THEN written + 1 + (i - end_len)
     ELSE IF i < end_len + n - RingLen THEN written + 1 + (i + RingLen - end_len)
     ELSE ring[i]]

EndAfter(n) == IF end_len + n <= RingLen THEN end_len + n ELSE end_len + n - RingLen

(* A call with aux_len = n bytes, up to its loop.                          *)
PutChunk(n) ==
  /\ pc = "idle"
  /\ written + n <= MaxWritten
  /\ stream.len = 0 => n >= MinFirst
  /\ ring' = Appended(n)
  /\ end_len' = EndAfter(n)
  /\ pc' = "head"
  /\ written' = written + n
  /\ stream' = [stream EXCEPT !.len = @ + n]
  /\ heads' = heads \union
       {written + k : k \in {m \in 1 .. n : (stream.len + m - 1) % stream.size = 0}}
  /\ UNCHANGED <<start_len, parse_flag, FrameSize, frame, taken, steady>>

(* Mutants: a padding slot counted into the size; a size of 0 accepted.    *)
PaddedSizes == {stream.size + 1}
NoSizes == {0}

(* What GetRateBit makes of the HeadLen bytes at start_pos: the stream's   *)
(* frame size if they have all arrived, anything if they have not.         *)
HeaderSizes == IF written - taken >= HeadLen THEN {stream.size} ELSE Garbage

(* Mutant: equal cursors taken for a full ring.                            *)
ReserveOfFull ==
  IF start_len >= end_len THEN RingLen - start_len + end_len ELSE end_len - start_len

(* tmp_reserve_len                                                         *)
Reserve ==
  IF start_len > end_len THEN RingLen - start_len + end_len ELSE end_len - start_len

(* Mutant: the part before the wrap counted from behind the header, as in  *)
(* line 520, but taken from the size with the header, as in line 521.      *)
DescriptorMixed(size) ==
  LET wraps   == start_len + size > RingLen
      inTail  == start_len + HeadLen < RingLen
  IN [recv_addr      |-> IF wraps /\ ~inTail THEN start_len + HeadLen - RingLen
                                             ELSE start_len + HeadLen,
      recv_len       |-> size - HeadLen,
      from_start_len |-> IF wraps /\ inTail THEN size - (RingLen - (start_len + HeadLen))
                                            ELSE 0]

(* The descriptor of the frame at start_len, for size bytes.  start_addr   *)
(* is parse_buf, that is offset 0; it is used only if from_start_len > 0.  *)
Descriptor(size) ==
  LET wraps   == start_len + size > RingLen
      inTail  == start_len + HeadLen < RingLen
  IN [recv_addr      |-> IF wraps /\ ~inTail THEN start_len + HeadLen - RingLen
                                             ELSE start_len + HeadLen,
      recv_len       |-> size - HeadLen,
      from_start_len |-> IF wraps /\ inTail THEN size - (RingLen - start_len) ELSE 0]

(* The bytes a reader finds behind a descriptor: recv_len bytes, the last  *)
(* from_start_len of them at the start of the ring.                        *)
BytesOf(d) ==
  LET direct == d.recv_len - d.from_start_len
  IN [j \in 0 .. d.recv_len - 1 |->
        IF j < direct THEN ring[d.recv_addr + j] ELSE ring[j - direct]]

(* Mutant: the cursor is not taken back round the ring.                    *)
StartAfterNoWrap(size) == start_len + size

StartAfter(size) ==
  IF start_len + size > RingLen THEN start_len + size - RingLen ELSE start_len + size

(* The loop up to the header: it is looked at only until one was accepted. *)
ReadHeader ==
  /\ pc = "head"
  /\ FrameSize' \in (IF parse_flag = 0 THEN HeaderSizes ELSE {FrameSize})
  /\ parse_flag' = IF FrameSize' > 0 THEN 1 ELSE parse_flag
  /\ pc' = "frame"
  /\ UNCHANGED <<ring, start_len, end_len, frame, ghosts>>

(* A complete frame is sent and its bytes are given up.                    *)
SendFrame ==
  /\ pc = "frame"
  /\ Reserve >= FrameSize
  /\ frame' = BytesOf(Descriptor(FrameSize))
  /\ start_len' = StartAfter(FrameSize)
  /\ pc' = "head"
  /\ taken' = taken + FrameSize
  /\ heads' = {h \in heads : h > taken'}
  /\ UNCHANGED <<ring, end_len, parse_flag, FrameSize, written, stream, steady>>

(* Mutant: a frame that has arrived to the byte is left for the next call. *)
ReturnEarly ==
  /\ pc = "frame"
  /\ Reserve <= FrameSize
  /\ pc' = "idle"
  /\ UNCHANGED <<ring, start_len, end_len, parse_flag, FrameSize, frame, ghosts>>

Return ==
  /\ pc = "frame"
  /\ Reserve < FrameSize
  /\ pc' = "idle"
  /\ UNCHANGED <<ring, start_len, end_len, parse_flag, FrameSize, frame, ghosts>>

Next ==
  \/ NextStream
  \/ \E n \in 1 .. MaxChunk : PutChunk(n)
  \/ ReadHeader
  \/ SendFrame
  \/ Return

(* tts_recv_task runs until it blocks or returns to its queue.             *)
Spec == Init /\ [][Next]_vars /\ WF_vars(ReadHeader \/ SendFrame \/ Return)

-----------------------------------------------------------------------------
(* Properties.                                                             *)

(* The types: the cursors stay within the ring or one past its end, and a  *)
(* frame that is described has a place in it.                              *)
TypeOK ==
  /\ ring \in [0 .. RingLen - 1 -> Nat]
  /\ start_len \in 0 .. RingLen
  /\ end_len \in 0 .. RingLen
  /\ parse_flag \in {0, 1}
  /\ FrameSize \in Nat
  /\ pc \in {"idle", "head", "frame"}
  /\ \E m \in 0 .. RingLen : frame \in [0 .. m - 1 -> Nat]
  /\ written \in Nat
  /\ taken \in Nat
  /\ stream \in [size : FrameSizes, len : Nat]
  /\ heads \subseteq 1 .. written
  /\ steady \in BOOLEAN

(* The slot of the byte k places after start_len.                          *)
Slot(k) == IF start_len + k < RingLen THEN start_len + k ELSE start_len + k - RingLen

(* No byte is overwritten before it is taken: the bytes from start_len on  *)
(* are the ones that arrived next, in order.  Nothing in parse_mp3_frame   *)
(* compares a new piece with the room left, so this rests on the sizes.    *)
NoUnreadOverwritten ==
  \A k \in 0 .. written - taken - 1 : ring[Slot(k)] = taken + k + 1

(* The distance of the two cursors is the number of bytes waiting: a full  *)
(* ring is never taken for an empty one.                                   *)
ReserveIsUnread == Reserve = written - taken

(* When a call returns, what stays in the ring is less than a frame.       *)
NoFrameLeftBehind == pc = "idle" => (written = taken \/ written - taken < FrameSize)

(* A frame that is sent starts where a frame of the server starts, as long *)
(* as every response was complete and of the same frame size.              *)
FramesAligned ==
  [][steady /\ taken' # taken => taken + 1 \in heads]_vars

(* The first header is looked at only when all its bytes have arrived.     *)
HeaderComplete == [][parse_flag' # parse_flag => written - taken >= HeadLen]_vars

(* A call of parse_mp3_frame returns: its task goes back to its queue.     *)
CallReturns == pc # "idle" ~> pc = "idle"

(* The ring delivers what FrameStream promises: consecutive frames, each   *)
(* with exactly the bytes that followed its header.                        *)
Abs == INSTANCE FrameStream WITH size <- IF parse_flag = 1 THEN FrameSize ELSE 0
ImplementsFrameStream == Abs!Spec
=============================================================================
