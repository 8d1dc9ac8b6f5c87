------------------------------ MODULE HandOver ------------------------------
(***************************************************************************)
(* What the tasks of the speech pipeline amount to: one loop that reads a  *)
(* piece, hears it, and describes and shows its frames one after the       *)
(* other, each call returning before the next thing happens.  No tasks, no *)
(* queues, no pointers.  Pieces and frames are numbered 1, 2, ...          *)
(***************************************************************************)
EXTENDS Integers

VARIABLES
  chunks,       (* pieces read                                             *)
  heard,        (* the last piece heard                                    *)
  frames,       (* frames described                                        *)
  shown         (* the last frame shown                                    *)

vars == <<chunks, heard, frames, shown>>

(* Nothing is handed over: everything read was heard, everything described *)
(* was shown.                                                              *)
Settled == heard = chunks /\ shown = frames

Init == chunks = 0 /\ heard = 0 /\ frames = 0 /\ shown = 0

ReadNext ==
  /\ Settled
  /\ chunks' = chunks + 1
  /\ UNCHANGED <<heard, frames, shown>>

Hear ==
  /\ chunks = heard + 1 /\ shown = frames
  /\ heard' = chunks
  /\ UNCHANGED <<chunks, frames, shown>>

Describe ==
  /\ Settled
  /\ chunks > 0
  /\ frames' = frames + 1
  /\ UNCHANGED <<chunks, heard, shown>>

Show ==
  /\ heard = chunks /\ frames = shown + 1
  /\ shown' = frames
  /\ UNCHANGED <<chunks, heard, frames>>

Next == ReadNext \/ Hear \/ Describe \/ Show

Spec == Init /\ [][Next]_vars
=============================================================================
