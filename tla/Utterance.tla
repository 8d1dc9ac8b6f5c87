----------------------------- MODULE Utterance -----------------------------
(***************************************************************************)
(* What the board promises the recogniser about one utterance: a request   *)
(* of an announced length, whose body is audio without gap from some byte  *)
(* of the recording on, and after it only filler; the connection carries a *)
(* prefix of it; and the answer is asked for when less than one piece is   *)
(* missing.  No chip registers, no buffer, no retries, no two loops.       *)
(***************************************************************************)
EXTENDS Integers

CONSTANTS
  Announced,    (* Content-Length                                         *)
  Piece         (* the most bytes passed on at once                       *)

VARIABLES
  open,         (* a request is in progress                               *)
  intact,       (* its connection carries data                            *)
  heard,        (* the last byte of the recording passed on               *)
  hand,         (* the piece that was fetched: by offset, which byte      *)
  filling,      (* the audio is over                                      *)
  given,        (* bytes of the body passed on                            *)
  body          (* bytes of it that went out                              *)

vars == <<open, intact, heard, hand, filling, given, body>>

Offsets(k) == 0 .. k - 1
Empty == [j \in Offsets(0) |-> 0]

(* k bytes of the recording, from the one after the last on.               *)
Following(k) == [j \in Offsets(k) |-> heard + 1 + j]

Init ==
  /\ open = FALSE /\ intact = FALSE /\ filling = FALSE
  /\ heard = 0 /\ given = 0 /\ body = 0
  /\ hand = Empty

Open ==
  /\ ~open
  /\ open' = TRUE
  /\ intact' \in BOOLEAN
  /\ heard' \in Nat
  /\ UNCHANGED <<hand, filling, given, body>>

Breaks ==
  /\ intact
  /\ intact' = FALSE
  /\ UNCHANGED <<open, heard, hand, filling, given, body>>

Take ==
  /\ open /\ ~filling /\ hand = Empty
  /\ \E k \in 1 .. Piece : given + k <= Announced /\ hand' = Following(k)
  /\ UNCHANGED <<open, intact, heard, filling, given, body>>

(* k bytes of the body are passed on.                                      *)
PassOn(k) ==
  /\ given' = given + k
  /\ body' = IF intact THEN body + k ELSE body
  /\ UNCHANGED <<open, intact, filling>>

PassAudio ==
  /\ open /\ hand # Empty
  /\ \E k \in 1 .. Piece :
       DOMAIN hand = Offsets(k) /\ PassOn(k) /\ heard' = heard + k
  /\ hand' = Empty

AudioEnds ==
  /\ open /\ ~filling /\ hand = Empty
  /\ filling' = TRUE
  /\ UNCHANGED <<open, intact, heard, hand, given, body>>

Fill ==
  /\ open /\ filling
  /\ \E k \in 1 .. Piece : given + k <= Announced /\ PassOn(k)
  /\ UNCHANGED <<heard, hand>>

Close ==
  /\ open /\ filling
  /\ Announced - given < Piece
  /\ open' = FALSE /\ intact' = FALSE /\ filling' = FALSE
  /\ heard' = 0 /\ given' = 0 /\ body' = 0
  /\ UNCHANGED hand

Goes == Take \/ PassAudio \/ AudioEnds \/ Fill \/ Close

Next == Open \/ Breaks \/ Goes

(* The promise; and that a request that is open is brought to its end.     *)
Promise == Init /\ [][Next]_vars
Spec == Promise /\ WF_vars(Goes)
=============================================================================
