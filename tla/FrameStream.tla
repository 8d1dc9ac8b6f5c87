---------------------------- MODULE FrameStream ----------------------------
(***************************************************************************)
(* What the MP3 stage of the assistant promises: the bytes of the          *)
(* synthesised speech go in piece by piece, and come out as the payloads   *)
(* of consecutive frames, each made of exactly the bytes that followed its *)
(* header in the stream.  No ring, no cursors, no wrap-around: bytes are   *)
(* numbered 1, 2, ... in the order they arrive.                            *)
(***************************************************************************)
EXTENDS Integers

CONSTANTS
  HeadLen,      (* bytes of a frame header                                *)
  MaxChunk,     (* the most bytes one piece has                           *)
  FrameSizes    (* the sizes (header included) a frame may have           *)

VARIABLES
  written,      (* bytes put in so far                                    *)
  taken,        (* bytes that belong to frames already delivered          *)
  size,         (* the frame size, once the first header told it, else 0  *)
  frame         (* the payload delivered last: the numbers of its bytes   *)

vars == <<written, taken, size, frame>>

(* The n bytes from the one numbered first on, by offset.                  *)
Consecutive(first, n) == [j \in 0 .. n - 1 |-> first + j]

Init ==
  /\ written = 0
  /\ taken = 0
  /\ size = 0
  /\ frame = Consecutive(1, 0)

Receive ==
  /\ \E n \in 1 .. MaxChunk : written' = written + n
  /\ UNCHANGED <<taken, size, frame>>

LearnSize ==
  /\ size = 0
  /\ written - taken >= HeadLen
  /\ size' \in FrameSizes
  /\ UNCHANGED <<written, taken, frame>>

(* The payload of the frame that starts right after the bytes taken. *)
NextPayload == Consecutive(taken + HeadLen + 1, size - HeadLen)

Deliver ==
  /\ size > 0
  /\ written - taken >= size
  /\ frame' = NextPayload
  /\ taken' = taken + size
  /\ UNCHANGED <<written, size>>

Next == Receive \/ LearnSize \/ Deliver

Spec == Init /\ [][Next]_vars
=============================================================================
