----------------------------- MODULE Mp3Header -----------------------------
(***************************************************************************)
(* How long a frame is by its header: GetRateBit and its tables            *)
(* (mp3parse.c), for every value of the header's fields.  Mp3Ring takes    *)
(* the result as a constant set; which streams that set stands for is      *)
(* said at the end of this module, evaluated with the runs of Mp3Ring and  *)
(* proved in Mp3Header_proofs.                                             *)
(***************************************************************************)
EXTENDS Integers, Sequences

MPEG_TYPE == [MPEG1 |-> 3, MPEG2 |-> 2, MPEG2P5 |-> 0]
LAYOR_TYPE == [LayerI |-> 3, LayerII |-> 2, LayerIII |-> 1]

(* The fields as they come out of the bytes; what is not listed (sync,     *)
(* crc_flag, the mode) is not looked at, and padding has no effect.        *)
Headers == [ver : 0 .. 3, layer : 0 .. 3, bitrate : 0 .. 15, sample_fre : 0 .. 3]

(* kbit/s, by bit rate index from 1 on and by column_index.                *)
rate_bit_val ==
  << <<32, 32, 32, 32, 8>>, <<64, 48, 40, 48, 16>>, <<96, 56, 48, 56, 24>>,
     <<128, 64, 56, 64, 32>>, <<160, 80, 64, 80, 40>>, <<192, 96, 80, 96, 48>>,
     <<224, 112, 96, 112, 56>>, <<256, 128, 112, 128, 64>>, <<288, 160, 128, 144, 80>>,
     <<320, 192, 160, 160, 96>>, <<352, 224, 192, 176, 112>>, <<384, 256, 224, 192, 128>>,
     <<416, 320, 256, 224, 144>>, <<448, 384, 320, 256, 160>> >>

(* Hz and samples in a frame, by MPEG 1, 2, 2.5.                           *)
sample_frequence == << <<44100, 22050, 11025>>, <<48000, 24000, 12000>>, <<32000, 16000, 8000>> >>
every_frame_date_len == << <<384, 384, 384>>, <<1152, 1152, 1152>>, <<1152, 576, 576>> >>

(* column_index; it is 0 where no branch sets it.                          *)
column_index(h) ==
  CASE h.ver = MPEG_TYPE.MPEG1 /\ h.layer # 0 -> LAYOR_TYPE.LayerI - h.layer
    [] h.ver \in {MPEG_TYPE.MPEG2, MPEG_TYPE.MPEG2P5} /\ h.layer = LAYOR_TYPE.LayerI -> 3
    [] h.ver \in {MPEG_TYPE.MPEG2, MPEG_TYPE.MPEG2P5}
         /\ h.layer \in {LAYOR_TYPE.LayerII, LAYOR_TYPE.LayerIII} -> 4
    [] OTHER -> 0

fre_index(ver) ==
  CASE ver = MPEG_TYPE.MPEG1 -> 0 [] ver = MPEG_TYPE.MPEG2 -> 1 [] ver = MPEG_TYPE.MPEG2P5 -> 2

BitRateVal(h) == rate_bit_val[h.bitrate][column_index(h) + 1]
Frequency(h) == sample_frequence[h.sample_fre + 1][fre_index(h.ver) + 1]
Samples(h) == every_frame_date_len[LAYOR_TYPE.LayerI - h.layer + 1][fre_index(h.ver) + 1]

(* frame_size_get is assigned, and by indices that are.                    *)
Assigned(h) == h.ver # 1 /\ h.layer # 0 /\ h.bitrate \in 1 .. 14 /\ h.sample_fre < 3

Unset == -1

(* Unset is whatever was in the place of the local variables.              *)
GetRateBit(h) ==
  IF Assigned(h) THEN ((Samples(h) \div 8) * BitRateVal(h) * 1000) \div Frequency(h) ELSE Unset

-----------------------------------------------------------------------------
(* What Mp3Ring rests on.                                                  *)

Complete == {h \in Headers : Assigned(h)}

(* Half the sampling rates of music, layer III: what speech is usually     *)
(* sent in.  Nothing in the repository asks the service for it.            *)
Speech == {h \in Complete : h.ver = MPEG_TYPE.MPEG2 /\ h.layer = LAYOR_TYPE.LayerIII}

(* A frame of h and a piece of 1024 bytes fit in the ring of 2048.         *)
FitsWithPiece(h) == GetRateBit(h) + 1024 <= 2048

(* A frame of h takes a whole number of bytes, so that a stream needs no   *)
(* padding and all its frames have the size of the first.                  *)
NeverPadded(h) == ((Samples(h) \div 8) * BitRateVal(h) * 1000) % Frequency(h) = 0

(* No header that is complete gives a size of 0, which would keep          *)
(* parse_mp3_frame in its loop, or a frame shorter than its header.        *)
SizesAreFrames == \A h \in Complete : GetRateBit(h) > 4

(* The frames of speech fit, whatever the bit rate; at 16 and 24 kHz they  *)
(* are all of one size.                                                    *)
SpeechFits ==
  \A h \in Speech : FitsWithPiece(h) /\ (Frequency(h) \in {16000, 24000} => NeverPadded(h))

(* Neither holds of all that the tables know: some frames do not fit with  *)
(* a piece, one of MPEG 2.5 is longer than the ring, and at 22050 Hz a     *)
(* stream has frames one byte longer than the first.                       *)
SpeechOnly ==
  /\ \E h \in Complete : h.ver = MPEG_TYPE.MPEG1 /\ h.layer = LAYOR_TYPE.LayerIII
                         /\ ~FitsWithPiece(h)
  /\ \E h \in Complete : GetRateBit(h) > 2048
  /\ \E h \in Speech : ~NeverPadded(h)

(* The product is computed in 32 bits; it never reaches 2^31.              *)
NoOverflow ==
  \A h \in Complete : (Samples(h) \div 8) * BitRateVal(h) <= (2147483647 \div 1000)
=============================================================================
