--------------------------- MODULE Mp3Header_proofs ---------------------------
(***************************************************************************)
(* What the tables of GetRateBit give, for every header that is complete.  *)
(* The bounds of the tables are enough for three of the four facts: every  *)
(* row is looked at once, and no header is ever evaluated.                 *)
(***************************************************************************)
EXTENDS Mp3Header, TLAPS

Rates == 8 .. 448

(* What holds of the five entries of a row holds of the one selected.      *)
LEMMA RowBounds ==
  ASSUME NEW R, NEW r1 \in R, NEW r2 \in R, NEW r3 \in R, NEW r4 \in R, NEW r5 \in R,
         NEW c \in 1 .. 5
  PROVE  <<r1, r2, r3, r4, r5>>[c] \in R
<1>1. c = 1 \/ c = 2 \/ c = 3 \/ c = 4 \/ c = 5
  OBVIOUS
<1> QED
  BY <1>1

(* Every bit rate is between 8 and 448; the ones of the last column are    *)
(* multiples of 8 up to 160.                                               *)
IsRow(row) ==
  \E r1, r2, r3, r4 \in Rates : \E k \in 1 .. 20 : row = <<r1, r2, r3, r4, 8 * k>>

LEMMA RateRows == \A b \in 1 .. 14 : IsRow(rate_bit_val[b])
<1> SUFFICES ASSUME NEW b \in 1 .. 14 PROVE IsRow(rate_bit_val[b])
  OBVIOUS
<1>1. /\ rate_bit_val[1] = <<32, 32, 32, 32, 8>>
      /\ rate_bit_val[2] = <<64, 48, 40, 48, 16>>
      /\ rate_bit_val[3] = <<96, 56, 48, 56, 24>>
      /\ rate_bit_val[4] = <<128, 64, 56, 64, 32>>
      /\ rate_bit_val[5] = <<160, 80, 64, 80, 40>>
      /\ rate_bit_val[6] = <<192, 96, 80, 96, 48>>
      /\ rate_bit_val[7] = <<224, 112, 96, 112, 56>>
      /\ rate_bit_val[8] = <<256, 128, 112, 128, 64>>
      /\ rate_bit_val[9] = <<288, 160, 128, 144, 80>>
      /\ rate_bit_val[10] = <<320, 192, 160, 160, 96>>
      /\ rate_bit_val[11] = <<352, 224, 192, 176, 112>>
      /\ rate_bit_val[12] = <<384, 256, 224, 192, 128>>
      /\ rate_bit_val[13] = <<416, 320, 256, 224, 144>>
      /\ rate_bit_val[14] = <<448, 384, 320, 256, 160>>
  BY DEF rate_bit_val
<1>2. b \in {1, 2, 3, 4, 5, 6, 7, 8, 9, 10, 11, 12, 13, 14}
  OBVIOUS
<1>3. CASE b = 1
  <2>1. rate_bit_val[b] = <<32, 32, 32, 32, 8 * 1>>
    BY <1>1, <1>3
  <2> QED
    BY <2>1 DEF IsRow, Rates
<1>4. CASE b = 2
  <2>1. rate_bit_val[b] = <<64, 48, 40, 48, 8 * 2>>
    BY <1>1, <1>4
  <2> QED
    BY <2>1 DEF IsRow, Rates
<1>5. CASE b = 3
  <2>1. rate_bit_val[b] = <<96, 56, 48, 56, 8 * 3>>
    BY <1>1, <1>5
  <2> QED
    BY <2>1 DEF IsRow, Rates
<1>6. CASE b = 4
  <2>1. rate_bit_val[b] = <<128, 64, 56, 64, 8 * 4>>
    BY <1>1, <1>6
  <2> QED
    BY <2>1 DEF IsRow, Rates
<1>7. CASE b = 5
  <2>1. rate_bit_val[b] = <<160, 80, 64, 80, 8 * 5>>
    BY <1>1, <1>7
  <2> QED
    BY <2>1 DEF IsRow, Rates
<1>8. CASE b = 6
  <2>1. rate_bit_val[b] = <<192, 96, 80, 96, 8 * 6>>
    BY <1>1, <1>8
  <2> QED
    BY <2>1 DEF IsRow, Rates
<1>9. CASE b = 7
  <2>1. rate_bit_val[b] = <<224, 112, 96, 112, 8 * 7>>
    BY <1>1, <1>9
  <2> QED
    BY <2>1 DEF IsRow, Rates
<1>10. CASE b = 8
  <2>1. rate_bit_val[b] = <<256, 128, 112, 128, 8 * 8>>
    BY <1>1, <1>10
  <2> QED
    BY <2>1 DEF IsRow, Rates
<1>11. CASE b = 9
  <2>1. rate_bit_val[b] = <<288, 160, 128, 144, 8 * 10>>
    BY <1>1, <1>11
  <2> QED
    BY <2>1 DEF IsRow, Rates
<1>12. CASE b = 10
  <2>1. rate_bit_val[b] = <<320, 192, 160, 160, 8 * 12>>
    BY <1>1, <1>12
  <2> QED
    BY <2>1 DEF IsRow, Rates
<1>13. CASE b = 11
  <2>1. rate_bit_val[b] = <<352, 224, 192, 176, 8 * 14>>
    BY <1>1, <1>13
  <2> QED
    BY <2>1 DEF IsRow, Rates
<1>14. CASE b = 12
  <2>1. rate_bit_val[b] = <<384, 256, 224, 192, 8 * 16>>
    BY <1>1, <1>14
  <2> QED
    BY <2>1 DEF IsRow, Rates
<1>15. CASE b = 13
  <2>1. rate_bit_val[b] = <<416, 320, 256, 224, 8 * 18>>
    BY <1>1, <1>15
  <2> QED
    BY <2>1 DEF IsRow, Rates
<1>16. CASE b = 14
  <2>1. rate_bit_val[b] = <<448, 384, 320, 256, 8 * 20>>
    BY <1>1, <1>16
  <2> QED
    BY <2>1 DEF IsRow, Rates
<1> QED
  BY <1>2, <1>3, <1>4, <1>5, <1>6, <1>7, <1>8, <1>9, <1>10, <1>11, <1>12, <1>13, <1>14, <1>15, <1>16

LEMMA RateBounds ==
  ASSUME NEW b \in 1 .. 14
  PROVE  /\ \A c \in 1 .. 5 : rate_bit_val[b][c] \in Rates
         /\ \E k \in 1 .. 20 : rate_bit_val[b][5] = 8 * k
<1>1. PICK r1 \in Rates, r2 \in Rates, r3 \in Rates, r4 \in Rates, k \in 1 .. 20 :
        rate_bit_val[b] = <<r1, r2, r3, r4, 8 * k>>
  BY RateRows DEF IsRow
<1> DEFINE r5 == 8 * k
<1>2. r5 \in Rates
  BY DEF Rates
<1> HIDE DEF r5
<1>3. \A c \in 1 .. 5 : <<r1, r2, r3, r4, r5>>[c] \in Rates
  BY <1>2, RowBounds
<1>4. rate_bit_val[b] = <<r1, r2, r3, r4, r5>>
  BY <1>1 DEF r5
<1>5. rate_bit_val[b][5] = r5
  BY <1>4
<1>6. \A c \in 1 .. 5 : rate_bit_val[b][c] \in Rates
  BY <1>3, <1>4
<1> QED
  BY <1>5, <1>6 DEF r5

(* The sampling rates and the samples in a frame.                          *)
Frequencies == {44100, 22050, 11025, 48000, 24000, 12000, 32000, 16000, 8000}
SampleCounts == {384, 1152, 576}

LEMMA TableValues ==
  \A i, j \in 1 .. 3 :
    sample_frequence[i][j] \in Frequencies /\ every_frame_date_len[i][j] \in SampleCounts
<1>1. \A i, j \in 1 .. 3 : sample_frequence[i][j] \in Frequencies
  BY DEF sample_frequence, Frequencies
<1>2. \A i, j \in 1 .. 3 : every_frame_date_len[i][j] \in SampleCounts
  BY DEF every_frame_date_len, SampleCounts
<1> QED
  BY <1>1, <1>2

(* The values a complete header selects.                                   *)
LEMMA HeaderBounds ==
  ASSUME NEW h \in Complete
  PROVE  BitRateVal(h) \in Rates /\ Frequency(h) \in Frequencies /\ Samples(h) \in SampleCounts
<1>1. /\ h.ver \in {0, 2, 3} /\ h.layer \in {1, 2, 3}
      /\ h.bitrate \in 1 .. 14 /\ h.sample_fre + 1 \in 1 .. 3
  BY DEF Complete, Headers, Assigned
<1>2. column_index(h) + 1 \in 1 .. 5
  BY <1>1 DEF column_index, MPEG_TYPE, LAYOR_TYPE
<1>3. fre_index(h.ver) + 1 \in 1 .. 3
  BY <1>1 DEF fre_index, MPEG_TYPE
<1>4. LAYOR_TYPE.LayerI - h.layer + 1 \in 1 .. 3
  BY <1>1 DEF LAYOR_TYPE
<1>5. BitRateVal(h) \in Rates
  BY <1>1, <1>2, RateBounds DEF BitRateVal
<1>6. Frequency(h) \in Frequencies
  BY <1>1, <1>3, TableValues DEF Frequency
<1>7. Samples(h) \in SampleCounts
  BY <1>3, <1>4, TableValues DEF Samples
<1> QED
  BY <1>5, <1>6, <1>7

(* The product that GetRateBit divides by the sampling rate.               *)
Product(h) == (Samples(h) \div 8) * BitRateVal(h) * 1000

LEMMA EighthOfSamples == \A n \in SampleCounts : n \div 8 \in {48, 72, 144}
BY DEF SampleCounts

LEMMA TableProduct ==
  ASSUME NEW e \in Int, 48 <= e, e <= 144, NEW r \in Int, 8 <= r, r <= 448
  PROVE  e * r \in Int /\ e * r <= 64512 /\ e * r * 1000 \in Nat /\ e * r * 1000 >= 384000
<1> DEFINE p == e * r
<1>1. p \in Int /\ 384 <= p /\ p <= 64512
  OBVIOUS
<1> HIDE DEF p
<1>2. p * 1000 \in Nat /\ p * 1000 >= 384000
  BY <1>1
<1> QED
  BY <1>1, <1>2 DEF p

LEMMA ProductBounds ==
  ASSUME NEW h \in Complete
  PROVE  /\ (Samples(h) \div 8) * BitRateVal(h) \in Int
         /\ (Samples(h) \div 8) * BitRateVal(h) <= 64512
         /\ Product(h) \in Nat /\ Product(h) >= 384000
<1> DEFINE e == Samples(h) \div 8
           r == BitRateVal(h)
<1>1. e \in {48, 72, 144}
  BY HeaderBounds, EighthOfSamples
<1>2. r \in 8 .. 448
  BY HeaderBounds DEF Rates
<1> HIDE DEF e, r
<1>3. e \in Int /\ 48 <= e /\ e <= 144
  BY <1>1
<1>4. r \in Int /\ 8 <= r /\ r <= 448
  BY <1>2
<1>5. e * r \in Int /\ e * r <= 64512 /\ e * r * 1000 \in Nat /\ e * r * 1000 >= 384000
  BY <1>3, <1>4, TableProduct
<1> QED
  BY <1>5 DEF Product, e, r

(* A quotient is bounded by the products around the dividend.              *)
LEMMA QuotientAtLeast ==
  ASSUME NEW a \in Nat, NEW d \in Nat \ {0}, NEW q \in Nat, d * q <= a
  PROVE  a \div d >= q
OBVIOUS

LEMMA QuotientAtMost ==
  ASSUME NEW a \in Nat, NEW d \in Nat \ {0}, NEW q \in Nat, a <= d * q
  PROVE  a \div d <= q
OBVIOUS

(* A complete header is answered with the quotient.                        *)
LEMMA SizeIsQuotient ==
  ASSUME NEW h \in Complete
  PROVE  /\ GetRateBit(h) = Product(h) \div Frequency(h)
         /\ Frequency(h) \in Nat \ {0} /\ 8000 <= Frequency(h) /\ Frequency(h) <= 48000
<1>1. GetRateBit(h) = Product(h) \div Frequency(h)
  BY DEF Complete, GetRateBit, Product
<1>2. \A f \in Frequencies : f \in Nat \ {0} /\ 8000 <= f /\ f <= 48000
  BY DEF Frequencies
<1> QED
  BY <1>1, <1>2, HeaderBounds

(* parse_mp3_frame accepts no header that would keep it in its loop, or    *)
(* whose frame would end inside it: for every value of every field.        *)
THEOREM SizesAlwaysFrames == SizesAreFrames
<1> SUFFICES ASSUME NEW h \in Complete PROVE GetRateBit(h) > 4
  BY DEF SizesAreFrames
<1> DEFINE a == Product(h)
           f == Frequency(h)
<1>1. f \in Nat \ {0} /\ f <= 48000 /\ a \in Nat /\ a >= 384000
  BY SizeIsQuotient, ProductBounds
<1> HIDE DEF a, f
<1>2. f * 8 <= a
  BY <1>1
<1>3. a \div f >= 8
  BY <1>1, <1>2, QuotientAtLeast
<1>4. a \div f \in Int
  BY <1>1
<1>5. a \div f > 4
  BY <1>3, <1>4
<1> QED
  BY <1>5, SizeIsQuotient DEF a, f

(* The 32-bit product of GetRateBit never overflows.                       *)
THEOREM NeverOverflows == NoOverflow
<1> DEFINE most == 2147483647 \div 1000
<1>1. most \in Int /\ 64512 <= most
  OBVIOUS
<1>2. ASSUME NEW h \in Complete PROVE (Samples(h) \div 8) * BitRateVal(h) <= most
  <2> DEFINE p == (Samples(h) \div 8) * BitRateVal(h)
  <2>1. p \in Int /\ p <= 64512
    BY ProductBounds
  <2> HIDE DEF p, most
  <2>2. p <= most
    BY <1>1, <2>1
  <2> QED
    BY <2>2 DEF p
<1> HIDE DEF most
<1>3. \A h \in Complete : (Samples(h) \div 8) * BitRateVal(h) <= most
  BY <1>2
<1> QED
  BY <1>3 DEF NoOverflow, most

(* The product of a header of speech: 72 bytes for every bit of a rate     *)
(* that is a multiple of 8.                                                *)
LEMMA SpeechProduct ==
  ASSUME NEW h \in Speech
  PROVE  /\ h \in Complete
         /\ Frequency(h) \in {22050, 24000, 16000}
         /\ \E k \in 1 .. 20 : Product(h) = 576000 * k
<1>1. /\ h \in Complete /\ h.ver = 2 /\ h.layer = 1
      /\ h.bitrate \in 1 .. 14 /\ h.sample_fre \in {0, 1, 2}
  BY DEF Speech, Complete, Headers, Assigned, MPEG_TYPE, LAYOR_TYPE
<1>2. column_index(h) = 4 /\ fre_index(h.ver) = 1
  BY <1>1 DEF column_index, fre_index, MPEG_TYPE, LAYOR_TYPE
<1>3. Frequency(h) \in {22050, 24000, 16000}
  BY <1>1, <1>2 DEF Frequency, sample_frequence
<1>4. Samples(h) = 576
  BY <1>1, <1>2 DEF Samples, every_frame_date_len, LAYOR_TYPE
<1>5. PICK k \in 1 .. 20 : rate_bit_val[h.bitrate][5] = 8 * k
  <2>1. 5 \in 1 .. 5
    OBVIOUS
  <2> QED
    BY <1>1, <2>1, RateBounds
<1>6. BitRateVal(h) = 8 * k
  BY <1>2, <1>5 DEF BitRateVal
<1>7. Samples(h) \div 8 = 72
  BY <1>4
<1>8. Product(h) = 72 * (8 * k) * 1000
  BY <1>6, <1>7 DEF Product
<1>9. Product(h) = 576000 * k
  BY <1>8
<1> QED
  BY <1>1, <1>3, <1>9

(* Speech fits the ring that the board has, at every bit rate, and at 16   *)
(* and 24 kHz has frames of one size.                                      *)
THEOREM SpeechAlwaysFits == SpeechFits
<1> SUFFICES ASSUME NEW h \in Speech
             PROVE  FitsWithPiece(h) /\ (Frequency(h) \in {16000, 24000} => NeverPadded(h))
  BY DEF SpeechFits
<1> DEFINE a == Product(h)
           f == Frequency(h)
<1>1. PICK k \in 1 .. 20 : a = 576000 * k
  BY SpeechProduct
<1>2. f \in {22050, 24000, 16000}
  BY SpeechProduct
<1>3. GetRateBit(h) = a \div f
  BY SpeechProduct, SizeIsQuotient
<1> HIDE DEF a, f
<1>4. a \in Nat /\ f \in Nat \ {0}
  BY <1>1, <1>2
<1>5. a <= 11520000 /\ 11520000 <= f * 720
  BY <1>1, <1>2
<1>6. a <= f * 720 /\ a \div f \in Int
  BY <1>4, <1>5
<1>7. a \div f <= 720
  BY <1>4, <1>6, QuotientAtMost
<1>8. FitsWithPiece(h)
  BY <1>3, <1>6, <1>7 DEF FitsWithPiece
<1>9. CASE f = 16000
  <2>1. a = 16000 * (36 * k)
    BY <1>1
  <2>2. a % 16000 = 0
    BY <2>1
  <2> QED
    BY <1>8, <1>9, <2>2 DEF NeverPadded, Product, a, f
<1>10. CASE f = 24000
  <2>1. a = 24000 * (24 * k)
    BY <1>1
  <2>2. a % 24000 = 0
    BY <2>1
  <2> QED
    BY <1>8, <1>10, <2>2 DEF NeverPadded, Product, a, f
<1> QED
  BY <1>8, <1>9, <1>10 DEF f

(* The service has to be asked for speech: the tables know headers whose   *)
(* frames do not fit with a piece, or do not fit at all, and at 22050 Hz   *)
(* frames of two sizes.                                                    *)
THEOREM OnlySpeechFits == SpeechOnly
<1> USE DEF Complete, Headers, Assigned, MPEG_TYPE, LAYOR_TYPE
<1>1. \E h \in Complete : h.ver = MPEG_TYPE.MPEG1 /\ h.layer = LAYOR_TYPE.LayerIII
                          /\ ~FitsWithPiece(h)
  <2> DEFINE h == [ver |-> 3, layer |-> 1, bitrate |-> 14, sample_fre |-> 2]
  <2>1. h \in Complete
    OBVIOUS
  <2>2. column_index(h) = 2 /\ fre_index(h.ver) = 0
    BY DEF column_index, fre_index
  <2>3. BitRateVal(h) = 320
    BY <2>2 DEF BitRateVal, rate_bit_val
  <2>4. Frequency(h) = 32000
    BY <2>2 DEF Frequency, sample_frequence
  <2>5. Samples(h) = 1152
    BY <2>2 DEF Samples, every_frame_date_len
  <2>6. Product(h) \div Frequency(h) = 1440
    BY <2>3, <2>4, <2>5 DEF Product
  <2>7. GetRateBit(h) = 1440
    BY <2>1, <2>6, SizeIsQuotient
  <2> WITNESS h \in Complete
  <2> QED
    BY <2>7 DEF FitsWithPiece
<1>2. \E h \in Complete : GetRateBit(h) > 2048
  <2> DEFINE h == [ver |-> 0, layer |-> 2, bitrate |-> 14, sample_fre |-> 2]
  <2>1. h \in Complete
    OBVIOUS
  <2>2. column_index(h) = 4 /\ fre_index(h.ver) = 2
    BY DEF column_index, fre_index
  <2>3. BitRateVal(h) = 160
    BY <2>2 DEF BitRateVal, rate_bit_val
  <2>4. Frequency(h) = 8000
    BY <2>2 DEF Frequency, sample_frequence
  <2>5. Samples(h) = 1152
    BY <2>2 DEF Samples, every_frame_date_len
  <2>6. Product(h) \div Frequency(h) = 2880
    BY <2>3, <2>4, <2>5 DEF Product
  <2>7. GetRateBit(h) = 2880
    BY <2>1, <2>6, SizeIsQuotient
  <2> WITNESS h \in Complete
  <2> QED
    BY <2>7
<1>3. \E h \in Speech : ~NeverPadded(h)
  <2> DEFINE h == [ver |-> 2, layer |-> 1, bitrate |-> 1, sample_fre |-> 0]
  <2>1. h \in Speech
    BY DEF Speech
  <2>2. column_index(h) = 4 /\ fre_index(h.ver) = 1
    BY DEF column_index, fre_index
  <2>3. BitRateVal(h) = 8
    BY <2>2 DEF BitRateVal, rate_bit_val
  <2>4. Frequency(h) = 22050
    BY <2>2 DEF Frequency, sample_frequence
  <2>5. Samples(h) = 576
    BY <2>2 DEF Samples, every_frame_date_len
  <2>6. ((Samples(h) \div 8) * BitRateVal(h) * 1000) % Frequency(h) = 2700
    BY <2>3, <2>4, <2>5
  <2> WITNESS h \in Speech
  <2> QED
    BY <2>6 DEF NeverPadded
<1> QED
  BY <1>1, <1>2, <1>3 DEF SpeechOnly
=============================================================================
