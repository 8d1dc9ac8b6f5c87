-------------------------- MODULE PullBuffer_proofs --------------------------
(***************************************************************************)
(* Proofs about PullBuffer, for every size of body, piece and sample.      *)
(***************************************************************************)
EXTENDS PullBuffer, TLAPS

(* The inductive invariant.  BodyBounded and AudioAligned tie the counters *)
(* of the code to what was written and fetched; TriesLeft bounds retries.  *)
TriesLeft == pc \in {"mode", "samples"} => retries < Tries

BodyBounded == Requesting => body + InHand + total_bytes <= Fifo

AudioAligned ==
  /\ pc \in {"loop", "samples", "fetch"} => audio = fetched
  /\ pc = "send" => audio + n = fetched

Inv ==
  /\ TypeOK
  /\ TriesLeft
  /\ BodyBounded
  /\ BodyAccounted
  /\ ReadsOnlyRecorded
  /\ pc = "samples" => total_bytes > 0
  /\ AudioAligned
  /\ AudioGapless

(* As many whole samples as there are make no more bytes than there are.   *)
LEMMA WholeSamplesFit ==
  ASSUME NEW a \in Nat, NEW s \in Nat \ {0}
  PROVE  a \div s \in Nat /\ (a \div s) * s <= a
  OBVIOUS

(* Both loops ask for a piece that fits in buf and is still missing.       *)
LEMMA MaxSizeFits ==
  ASSUME TypeOK
  PROVE  MaxSize \in 0 .. Chunk /\ MaxSize <= total_bytes
         /\ (total_bytes > 0 => MaxSize > 0)
  BY PullAssumption DEF TypeOK, MaxSize

(* What is asked of the chip is recorded, missing and fits.                *)
LEMMA BytesToReadFit ==
  ASSUME TypeOK, Remained > 0, total_bytes > 0
  PROVE  /\ BytesToRead \in 1 .. Chunk
         /\ BytesToRead <= recorded - fetched
         /\ BytesToRead <= total_bytes
<1> DEFINE a == recorded - fetched
<1>1. a \in Nat BY DEF TypeOK
<1>2. SampleBytes \in Nat \ {0} BY PullAssumption
<1>3. Remained \in Nat /\ Remained * SampleBytes <= recorded - fetched
  BY <1>1, <1>2, WholeSamplesFit DEF Remained
<1>4. Remained * SampleBytes \in Nat \ {0} BY <1>2, <1>3
<1>5. MaxSize \in 1 .. Chunk /\ MaxSize <= total_bytes
  BY MaxSizeFits DEF TypeOK
<1>6. QED BY <1>3, <1>4, <1>5, PullAssumption DEF BytesToRead, TypeOK

(* buf keeps its type when it is cleared and when it is filled.            *)
LEMMA BufferTypes ==
  ASSUME TypeOK, NEW k \in Nat
  PROVE  /\ Filled(k) \in [0 .. Chunk - 1 -> Nat]
         /\ \A c \in [0 .. Chunk - 1 -> Nat] : Cleared(c) \in [0 .. Chunk - 1 -> Nat]
  BY PullAssumption DEF TypeOK, Filled, Cleared

(* The two ways on when the audio ends, seen from the invariant.           *)
LEMMA AudioEndsKeeps ==
  ASSUME Inv, pc \in {"samples", "fetch"},
         NEW c \in [0 .. Chunk - 1 -> Nat], AudioEnds(c),
         UNCHANGED <<total_bytes, n, streaming, recorded, http>>,
         retries' \in 0 .. Tries, fetched' \in 0 .. recorded
  PROVE  Inv'
<1>1. buf' \in [0 .. Chunk - 1 -> Nat] /\ pc' \in {"pad", "out"}
  BY BufferTypes DEF Inv, AudioEnds
<1>2. TypeOK' BY <1>1 DEF Inv, TypeOK, http
<1>3. pc' = "out" => total_bytes' < Chunk
  BY PullAssumption DEF Inv, TypeOK, AudioEnds
<1>4. BodyBounded' /\ BodyAccounted'
  BY <1>1, <1>3 DEF Inv, TypeOK, BodyBounded, BodyAccounted, Requesting, InHand, http
<1>5. QED
  BY <1>1, <1>2, <1>4 DEF Inv, TriesLeft, ReadsOnlyRecorded, AudioAligned, AudioGapless

-----------------------------------------------------------------------------

(* Before a request nothing is fetched or written.                         *)
LEMMA InvInit == Init => Inv
<1> SUFFICES ASSUME Init PROVE Inv
  OBVIOUS
<1>1. TypeOK
  <2>1. buf \in [0 .. Chunk - 1 -> Nat] BY DEF Init
  <2>2. 0 \in 0 .. Fifo /\ 0 \in 0 .. Chunk /\ 0 \in 0 .. Tries BY PullAssumption
  <2>3. fetched \in 0 .. recorded BY DEF Init
  <2>4. QED BY <2>1, <2>2, <2>3 DEF Init, TypeOK
<1>2. pc = "idle" BY DEF Init
<1>3. QED
  BY <1>1, <1>2 DEF Inv, TriesLeft, BodyBounded, BodyAccounted, ReadsOnlyRecorded,
     AudioAligned, AudioGapless, Requesting

(* The chip and the network.                                               *)
LEMMA EnvironmentKeepsInv ==
  Inv /\ (Detect \/ Record \/ StopStreaming \/ LinkDrops) => Inv'
<1> SUFFICES ASSUME Inv, Detect \/ Record \/ StopStreaming \/ LinkDrops PROVE Inv'
  OBVIOUS
<1> USE PullAssumption DEF Inv, TypeOK, TriesLeft, BodyBounded, BodyAccounted,
        ReadsOnlyRecorded, AudioAligned, AudioGapless, Requesting, InHand, chip, http
<1>1. CASE Detect BY <1>1 DEF Detect
<1>2. CASE Record BY <1>2 DEF Record
<1>3. CASE StopStreaming BY <1>3 DEF StopStreaming
<1>4. CASE LinkDrops BY <1>4 DEF LinkDrops
<1>5. QED BY <1>1, <1>2, <1>3, <1>4

(* The steps before the first and after the last byte of the body.         *)
LEMMA FrameworkKeepsInv ==
  Inv /\ (Enter \/ ReadMode \/ SendHead \/ GetResult \/ Rearm) => Inv'
<1> SUFFICES ASSUME Inv, Enter \/ ReadMode \/ SendHead \/ GetResult \/ Rearm PROVE Inv'
  OBVIOUS
<1> USE PullAssumption DEF Inv, TypeOK, TriesLeft, BodyBounded, BodyAccounted,
        ReadsOnlyRecorded, AudioAligned, AudioGapless, Requesting, InHand, chip, http
<1>1. CASE Enter BY <1>1 DEF Enter
<1>2. CASE ReadMode BY <1>2 DEF ReadMode
<1>3. CASE SendHead BY <1>3 DEF SendHead
<1>4. CASE GetResult BY <1>4 DEF GetResult
<1>5. CASE Rearm BY <1>5 DEF Rearm
<1>6. QED BY <1>1, <1>2, <1>3, <1>4, <1>5

(* dump_audio_data.                                                        *)
LEMMA DumpKeepsInv == Inv /\ Dump => Inv'
<1> SUFFICES ASSUME Inv, Dump PROVE Inv'
  OBVIOUS
<1>1. CASE SamplesThere
  <2>1. /\ n' \in 1 .. Chunk
        /\ n' <= recorded - fetched
        /\ n' <= total_bytes
    BY <1>1, BytesToReadFit DEF SamplesThere, Inv
  <2>2. /\ pc = "samples" /\ pc' = "fetch"
        /\ UNCHANGED <<buf, total_bytes, retries, streaming, recorded, fetched,
                       link, body, audio>>
    BY <1>1 DEF SamplesThere, chip, http
  <2>3. TypeOK' BY <2>1, <2>2 DEF Inv, TypeOK
  <2>4. BodyBounded' /\ BodyAccounted'
    BY <2>2 DEF Inv, BodyBounded, BodyAccounted, Requesting, InHand
  <2>5. ReadsOnlyRecorded' BY <2>1, <2>2 DEF Inv, TypeOK, ReadsOnlyRecorded
  <2>6. QED
    BY <2>2, <2>3, <2>4, <2>5 DEF Inv, TriesLeft, AudioAligned, AudioGapless
<1>2. CASE SamplesNone
  <2>1. retries' \in 0 .. Tries
    BY <1>2, PullAssumption DEF SamplesNone, Inv, TypeOK, TriesLeft
  <2>2. CASE retries' < Tries
    BY <1>2, <2>1, <2>2 DEF SamplesNone, Inv, TypeOK, TriesLeft, BodyBounded,
       BodyAccounted, ReadsOnlyRecorded, AudioAligned, AudioGapless, Requesting, InHand,
       chip, http
  <2>3. CASE ~(retries' < Tries)
    <3>1. pc = "samples" /\ AudioEnds(buf)
      BY <1>2, <2>3 DEF SamplesNone
    <3>2. UNCHANGED <<total_bytes, n, streaming, recorded, http>> /\ fetched' = fetched
      BY <1>2 DEF SamplesNone, chip
    <3>3. buf \in [0 .. Chunk - 1 -> Nat] /\ fetched \in 0 .. recorded
      BY DEF Inv, TypeOK
    <3>4. QED BY <2>1, <3>1, <3>2, <3>3, AudioEndsKeeps
  <2>4. QED BY <2>2, <2>3
<1>3. CASE NotStreaming
  <2>1. pc = "samples" /\ AudioEnds(buf)
    BY <1>3 DEF NotStreaming
  <2>2. /\ UNCHANGED <<total_bytes, n, streaming, recorded, http>>
        /\ fetched' = fetched /\ retries' = retries
    BY <1>3 DEF NotStreaming, chip
  <2>3. buf \in [0 .. Chunk - 1 -> Nat] /\ fetched \in 0 .. recorded /\ retries \in 0 .. Tries
    BY DEF Inv, TypeOK
  <2>4. QED BY <2>1, <2>2, <2>3, AudioEndsKeeps
<1>4. CASE Fetch
  <2>1. /\ pc = "fetch" /\ pc' = "send"
        /\ fetched' = fetched + n /\ total_bytes' = total_bytes - n
        /\ UNCHANGED <<n, retries, streaming, recorded, link, body, audio>>
    BY <1>4 DEF Fetch, http
  <2>2. /\ n \in 1 .. Chunk /\ n <= recorded - fetched /\ n <= total_bytes
        /\ audio = fetched
    BY <2>1 DEF Inv, TypeOK, ReadsOnlyRecorded, AudioAligned
  <2>3. buf' \in [0 .. Chunk - 1 -> Nat]
    BY <1>4, <2>2, BufferTypes DEF Fetch, Inv
  <2>4. TypeOK' BY <2>1, <2>2, <2>3, PullAssumption DEF Inv, TypeOK
  <2>5. BodyBounded' /\ BodyAccounted'
    BY <2>1, <2>2 DEF Inv, TypeOK, BodyBounded, BodyAccounted, Requesting, InHand
  <2>6. AudioGapless'
    BY <1>4, <2>1, <2>2, PullAssumption DEF Fetch, Filled, AudioGapless, Inv, TypeOK
  <2>7. QED
    BY <2>1, <2>2, <2>4, <2>5, <2>6 DEF Inv, TypeOK, TriesLeft, ReadsOnlyRecorded, AudioAligned
<1>5. CASE FetchTimesOut
  <2>1. PICK k \in 0 .. n - 1 : fetched' = fetched + k /\ AudioEnds(Filled(k))
    BY <1>5 DEF FetchTimesOut
  <2>2. pc = "fetch" /\ UNCHANGED <<total_bytes, n, retries, streaming, recorded, http>>
    BY <1>5 DEF FetchTimesOut
  <2>3. fetched' \in 0 .. recorded /\ retries' \in 0 .. Tries /\ k \in Nat
    BY <2>1, <2>2 DEF Inv, TypeOK, ReadsOnlyRecorded
  <2>4. Filled(k) \in [0 .. Chunk - 1 -> Nat]
    BY <2>3, BufferTypes DEF Inv
  <2>5. QED BY <2>1, <2>2, <2>3, <2>4, AudioEndsKeeps
<1>6. QED BY <1>1, <1>2, <1>3, <1>4, <1>5 DEF Dump

(* The loops and what they send.                                           *)
LEMMA SendKeepsInv == Inv /\ (LoopTest \/ Send \/ Pad) => Inv'
<1> SUFFICES ASSUME Inv, LoopTest \/ Send \/ Pad PROVE Inv'
  OBVIOUS
<1> USE PullAssumption DEF Inv, TypeOK, TriesLeft, BodyBounded, BodyAccounted,
        ReadsOnlyRecorded, AudioAligned, AudioGapless, Requesting, InHand, chip, http
<1>1. CASE LoopTest BY <1>1 DEF LoopTest
<1>2. CASE Send BY <1>2 DEF Send, Body
<1>3. CASE Pad
  <2>1. /\ pc = "pad" /\ pc' = IF total_bytes' > 0 THEN "pad" ELSE "out"
        /\ body' = Body(MaxSize) /\ total_bytes' = total_bytes - MaxSize
        /\ UNCHANGED <<buf, n, retries, streaming, recorded, fetched, link, audio>>
    BY <1>3 DEF Pad
  <2>2. MaxSize \in Nat /\ MaxSize <= total_bytes
    BY MaxSizeFits
  <2>3. total_bytes' \in 0 .. Fifo BY <2>1, <2>2
  <2>4. body' \in Nat /\ body' + total_bytes' <= Fifo
        /\ (link => body' + total_bytes' = Fifo)
    BY <2>1, <2>2 DEF Body
  <2>5. QED BY <2>1, <2>3, <2>4
<1>4. QED BY <1>1, <1>2, <1>3

(* Every step of the chip, the network and pull_buffer keeps the invariant. *)
LEMMA InvStep == Inv /\ [Next]_vars => Inv'
<1> SUFFICES ASSUME Inv, [Next]_vars PROVE Inv'
  OBVIOUS
<1>1. CASE Next
  BY <1>1, EnvironmentKeepsInv, FrameworkKeepsInv, DumpKeepsInv, SendKeepsInv DEF Next, Task
<1>2. CASE UNCHANGED vars
  BY <1>2 DEF vars, chip, http, Inv, TypeOK, TriesLeft, BodyBounded, BodyAccounted,
     ReadsOnlyRecorded, AudioAligned, AudioGapless, Requesting, InHand
<1>3. QED BY <1>1, <1>2

(* The invariant holds throughout.                                         *)
LEMMA InvAlways == Spec => []Inv
  BY InvInit, InvStep, PTL DEF Spec

-----------------------------------------------------------------------------

(* Every variable keeps its type; above all, no more than the announced    *)
(* Content-Length is ever written, and total_bytes never goes below 0.     *)
THEOREM TypeCorrect == Spec => []TypeOK
<1>1. Inv => TypeOK BY DEF Inv
<1>2. QED BY <1>1, InvAlways, PTL

(* The body written, in hand and missing makes up the Content-Length.      *)
THEOREM BodyAccountedAlways == Spec => []BodyAccounted
<1>1. Inv => BodyAccounted BY DEF Inv
<1>2. QED BY <1>1, InvAlways, PTL

(* The audio of a request has no gap, whatever times out.                  *)
THEOREM AudioGaplessAlways == Spec => []AudioGapless
<1>1. Inv => AudioGapless BY DEF Inv
<1>2. QED BY <1>1, InvAlways, PTL

(* The chip is asked only for audio that it has and buf has room for.      *)
THEOREM ReadsOnlyRecordedAlways == Spec => []ReadsOnlyRecorded
<1>1. Inv => ReadsOnlyRecorded BY DEF Inv
<1>2. QED BY <1>1, InvAlways, PTL

-----------------------------------------------------------------------------
(* Whole samples, and the refinement of Utterance.                         *)

Whole(x) == \E q \in Int : x = q * SampleBytes

(* A difference of whole samples is whole samples.                         *)
LEMMA WholeMinus ==
  ASSUME NEW x \in Int, NEW y \in Int, Whole(x), Whole(y)
  PROVE  Whole(x - y)
<1>1. PICK p \in Int : x = p * SampleBytes
  BY DEF Whole
<1>2. PICK q \in Int : y = q * SampleBytes
  BY DEF Whole
<1>3. x - y = (p - q) * SampleBytes
  BY <1>1, <1>2, PullAssumption
<1> QED
  BY <1>3 DEF Whole

(* A number is whole samples when nothing is left of its division.         *)
LEMMA WholeIsMultiple ==
  ASSUME NEW x \in Nat
  PROVE  Whole(x) <=> x % SampleBytes = 0
<1> DEFINE s == SampleBytes
           d == x \div s
           r == x % s
<1>1. s \in Nat \ {0}
  BY PullAssumption
<1>2. d \in Int /\ r \in 0 .. s - 1 /\ x = s * d + r
  BY <1>1
<1>3. ASSUME r = 0 PROVE Whole(x)
  BY <1>1, <1>2, <1>3 DEF Whole
<1>4. ASSUME NEW q \in Int, x = q * s PROVE r = 0
  <2>1. r = s * (q - d)
    BY <1>1, <1>2, <1>4
  <2>2. q - d \in Int
    BY <1>2
  <2>3. CASE q - d >= 1
    BY <1>1, <1>2, <2>1, <2>2, <2>3
  <2>4. CASE q - d <= -1
    BY <1>1, <1>2, <2>1, <2>2, <2>4
  <2>5. CASE q - d = 0
    BY <1>1, <2>1, <2>5
  <2> QED
    BY <2>2, <2>3, <2>4, <2>5
<1> QED
  BY <1>3, <1>4 DEF Whole

(* The missing bytes, and with them every piece, are whole samples; and    *)
(* where a piece is sent or the body filled up, there is something to send. *)
Counted ==
  /\ Requesting => Whole(total_bytes)
  /\ pc = "fetch" => Whole(n)
  /\ pc = "send" => n > 0
  /\ pc = "pad" => total_bytes > 0

(* Both loops ask for whole samples.                                       *)
LEMMA BytesToReadWhole ==
  ASSUME TypeOK, Whole(total_bytes)
  PROVE  Whole(MaxSize) /\ Whole(BytesToRead)
<1>1. Whole(Chunk)
  BY SamplesAssumption, PullAssumption, WholeIsMultiple
<1>2. Whole(MaxSize)
  BY <1>1 DEF MaxSize
<1>3. Remained \in Int
  BY PullAssumption DEF TypeOK, Remained
<1>4. Whole(Remained * SampleBytes)
  BY <1>3 DEF Whole
<1> QED
  BY <1>2, <1>4 DEF BytesToRead

(* Every step keeps the counts whole.                                      *)
LEMMA CountedStep == Inv /\ Counted /\ [Next]_vars => Counted'
<1> SUFFICES ASSUME Inv, Counted, [Next]_vars PROVE Counted'
  OBVIOUS
<1> USE DEF Counted, Requesting
<1>0. TypeOK
  BY DEF Inv
<1>1. CASE SendHead
  BY <1>1, SamplesAssumption, PullAssumption, WholeIsMultiple DEF SendHead, Whole
<1>2. CASE LoopTest \/ Send \/ GetResult \/ Rearm \/ Enter \/ ReadMode
  BY <1>2 DEF LoopTest, Send, GetResult, Rearm, Enter, ReadMode, Whole
<1>3. CASE SamplesThere
  BY <1>0, <1>3, BytesToReadWhole DEF SamplesThere, Whole
<1>4. CASE SamplesNone \/ NotStreaming \/ FetchTimesOut
  <2>1. pc \in {"samples", "fetch"} /\ UNCHANGED <<total_bytes, n>>
    BY <1>4 DEF SamplesNone, NotStreaming, FetchTimesOut
  <2>2. (UNCHANGED pc /\ pc = "samples") \/ \E c : AudioEnds(c)
    BY <1>4 DEF SamplesNone, NotStreaming, FetchTimesOut
  <2>3. pc' \in {"samples", "pad", "out"} /\ (pc' = "pad" => total_bytes >= Chunk)
    BY <2>2 DEF AudioEnds
  <2> QED
    BY <1>0, <2>1, <2>3, PullAssumption DEF TypeOK, Whole
<1>5. CASE Fetch
  <2>1. Whole(total_bytes - n)
    BY <1>0, <1>5, WholeMinus DEF Fetch, TypeOK
  <2>2. n > 0
    BY <1>5 DEF Fetch, Inv, ReadsOnlyRecorded
  <2> QED
    BY <1>5, <2>1, <2>2 DEF Fetch, Whole
<1>6. CASE Pad
  <2>1. MaxSize \in Int /\ Whole(MaxSize)
    BY <1>0, <1>6, MaxSizeFits, BytesToReadWhole DEF Pad
  <2>2. Whole(total_bytes - MaxSize)
    BY <1>0, <1>6, <2>1, WholeMinus DEF Pad, TypeOK
  <2> QED
    BY <1>6, <2>2 DEF Pad, Whole
<1>7. CASE Detect \/ Record \/ StopStreaming \/ LinkDrops \/ UNCHANGED vars
  BY <1>7 DEF Detect, Record, StopStreaming, LinkDrops, vars, chip, http, Whole
<1> QED
  BY <1>1, <1>2, <1>3, <1>4, <1>5, <1>6, <1>7 DEF Next, Task, Dump

(* The counts are whole throughout.                                        *)
LEMMA CountedAlways == Spec => [](Inv /\ Counted)
<1>1. Init => Counted
  BY DEF Init, Counted, Requesting
<1> QED
  BY <1>1, InvAlways, CountedStep, PTL DEF Spec

(* The division by 16 in READ_AUDIO_BUFFER loses nothing, in the second    *)
(* loop and after any number of pieces as well.                            *)
THEOREM WholeSamplesAlways == Spec => []WholeSamples
<1>1. Inv /\ Counted => WholeSamples
  BY WholeIsMultiple DEF Inv, Counted, TypeOK, WholeSamples
<1> QED
  BY <1>1, CountedAlways, PTL

(* At the start no request is open.                                        *)
LEMMA PromisedInit == Init => Promised!Init
  BY DEF Init, Promised!Init, Promised!Empty, Promised!Offsets, Requesting, InHand

(* What a request is to the recogniser does not change with the chip, with *)
(* a register that is read, or outside of the request.                     *)
LEMMA PromisedStutters ==
  ASSUME Inv,
         \/ Detect \/ Record \/ StopStreaming \/ Enter \/ ReadMode \/ Rearm \/ SamplesThere
         \/ UNCHANGED vars
  PROVE  UNCHANGED Promised!vars
<1>1. UNCHANGED <<Requesting, pc \in {"pad", "out"}>>
  BY DEF Detect, Record, StopStreaming, Enter, ReadMode, Rearm, SamplesThere, vars, Requesting
<1>2. (pc # "send" /\ pc' # "send") \/ UNCHANGED <<pc, buf, n>>
  BY DEF Detect, Record, StopStreaming, Enter, ReadMode, Rearm, SamplesThere, vars
<1>3. UNCHANGED <<InHand, [j \in 0 .. InHand - 1 |-> buf[j]]>>
  BY <1>2 DEF InHand
<1>4. UNCHANGED <<total_bytes, link, body, audio>>
  BY DEF Detect, Record, StopStreaming, Enter, ReadMode, Rearm, SamplesThere, vars, http
<1> QED
  BY <1>1, <1>3, <1>4 DEF Promised!vars

(* The request is opened, where the recording stands.                      *)
LEMMA SendHeadOpens == ASSUME Inv, SendHead PROVE Promised!Open
<1>1. ~Requesting /\ Requesting' /\ InHand = 0 /\ InHand' = 0
  BY DEF SendHead, Requesting, InHand
<1>2. audio' \in Nat /\ total_bytes' = Fifo /\ body' = 0 /\ link' \in BOOLEAN
  BY DEF SendHead, Inv, TypeOK
<1>3. pc \notin {"pad", "out"} /\ pc' \notin {"pad", "out"}
  BY DEF SendHead
<1>4. UNCHANGED [j \in 0 .. InHand - 1 |-> buf[j]]
  BY <1>1
<1> QED
  BY <1>1, <1>2, <1>3, <1>4, PullAssumption DEF Promised!Open

(* A connection that drops is all that the network does.                   *)
LEMMA LinkDropsBreaks == ASSUME Inv, LinkDrops PROVE [Promised!Next]_(Promised!vars)
<1>1. UNCHANGED <<Requesting, InHand, [j \in 0 .. InHand - 1 |-> buf[j]]>>
  BY DEF LinkDrops, Requesting, InHand
<1>2. UNCHANGED <<pc \in {"pad", "out"}, total_bytes, body, audio>> /\ link = TRUE /\ link' = FALSE
  BY DEF LinkDrops, Inv, TypeOK
<1>3. CASE Requesting
  BY <1>1, <1>2, <1>3 DEF Promised!Next, Promised!Breaks
<1>4. CASE ~Requesting
  BY <1>1, <1>2, <1>4 DEF Promised!vars
<1> QED
  BY <1>3, <1>4

(* The places of a request where no piece is in hand, and what is given.   *)
LEMMA NothingInHand ==
  ASSUME Inv, pc # "send"
  PROVE  /\ InHand = 0
         /\ [j \in 0 .. InHand - 1 |-> buf[j]] = Promised!Empty
  BY DEF InHand, Promised!Empty, Promised!Offsets

(* The audio ends in either loop, or with the body complete.               *)
LEMMA AudioEndsThere ==
  ASSUME Inv, pc \in {"loop", "samples", "fetch"}, pc' \in {"pad", "out"},
         UNCHANGED <<total_bytes, n, http>>
  PROVE  Promised!AudioEnds
<1>1. Requesting /\ Requesting' /\ pc \notin {"pad", "out"}
  BY DEF Requesting
<1>2. /\ InHand = 0 /\ InHand' = 0
      /\ [j \in 0 .. InHand - 1 |-> buf[j]] = Promised!Empty
      /\ UNCHANGED [j \in 0 .. InHand - 1 |-> buf[j]]
  BY NothingInHand DEF InHand
<1> QED
  BY <1>1, <1>2 DEF Promised!AudioEnds, http

(* A turn of a loop that goes on, or the audio ends.                       *)
LEMMA LoopImplements ==
  ASSUME Inv, LoopTest \/ SamplesNone \/ NotStreaming \/ FetchTimesOut
  PROVE  [Promised!Next]_(Promised!vars)
<1>1. pc \in {"loop", "samples", "fetch"} /\ UNCHANGED <<total_bytes, n, http>>
  BY DEF LoopTest, SamplesNone, NotStreaming, FetchTimesOut, chip
<1>2. pc' \in {"samples", "pad", "out"}
  BY DEF LoopTest, SamplesNone, NotStreaming, FetchTimesOut, AudioEnds
<1>3. CASE pc' = "samples"
  <2>1. UNCHANGED <<Requesting, pc \in {"pad", "out"}, InHand>> /\ InHand = 0
    BY <1>1, <1>3 DEF Requesting, InHand
  <2>2. UNCHANGED [j \in 0 .. InHand - 1 |-> buf[j]]
    BY <2>1
  <2> QED
    BY <1>1, <2>1, <2>2 DEF Promised!vars, http
<1>4. CASE pc' \in {"pad", "out"}
  BY <1>1, <1>4, AudioEndsThere DEF Promised!Next, Promised!Goes
<1> QED
  BY <1>2, <1>3, <1>4

(* A piece that came in is the next of the recording.                      *)
LEMMA FetchTakes == ASSUME Inv, Fetch PROVE Promised!Take
<1>1. /\ pc = "fetch" /\ pc' = "send" /\ Requesting /\ Requesting'
      /\ pc \notin {"pad", "out"} /\ pc' \notin {"pad", "out"}
      /\ total_bytes' = total_bytes - n /\ buf' = Filled(n)
      /\ UNCHANGED <<n, link, body, audio>>
  BY DEF Fetch, Requesting, http
<1>2. n \in 1 .. Chunk /\ n <= total_bytes /\ total_bytes \in 0 .. Fifo /\ audio = fetched
  BY <1>1 DEF Inv, TypeOK, ReadsOnlyRecorded, AudioAligned
<1>3. InHand = 0 /\ [j \in 0 .. InHand - 1 |-> buf[j]] = Promised!Empty
  BY <1>1, NothingInHand
<1>4. InHand' = n
  BY <1>1 DEF InHand
<1>5. \A j \in 0 .. n - 1 : buf'[j] = audio + 1 + j
  BY <1>1, <1>2, PullAssumption DEF Filled
<1>6. [j \in 0 .. InHand - 1 |-> buf[j]]' = [j \in 0 .. n - 1 |-> audio + 1 + j]
  BY <1>4, <1>5
<1>7. (Fifo - total_bytes - InHand) + n <= Fifo
  BY <1>2, <1>3, PullAssumption
<1>8. UNCHANGED (Fifo - total_bytes - InHand)
  BY <1>1, <1>2, <1>3, <1>4, PullAssumption
<1> QED
  BY <1>1, <1>2, <1>3, <1>6, <1>7, <1>8
     DEF Promised!Take, Promised!Following, Promised!Offsets

(* It is passed on whole.                                                  *)
LEMMA SendPasses == ASSUME Inv, Counted, Send PROVE Promised!PassAudio
<1>1. /\ pc = "send" /\ pc' = "loop" /\ Requesting /\ Requesting'
      /\ pc \notin {"pad", "out"} /\ pc' \notin {"pad", "out"}
      /\ UNCHANGED <<n, total_bytes, link>>
      /\ audio' = audio + n /\ body' = IF link THEN body + n ELSE body
  BY DEF Send, Requesting, Body
<1>2. n \in 1 .. Chunk /\ total_bytes \in 0 .. Fifo
  BY <1>1 DEF Inv, TypeOK, Counted
<1>3. InHand = n /\ InHand' = 0
  BY <1>1 DEF InHand
<1>4. /\ DOMAIN [j \in 0 .. InHand - 1 |-> buf[j]] = Promised!Offsets(n)
      /\ [j \in 0 .. InHand - 1 |-> buf[j]]' = Promised!Empty
  BY <1>3 DEF Promised!Offsets, Promised!Empty
<1>5. [j \in 0 .. InHand - 1 |-> buf[j]] # Promised!Empty
  <2>1. 0 \notin DOMAIN Promised!Empty
    BY DEF Promised!Empty, Promised!Offsets
  <2>2. 0 \in DOMAIN [j \in 0 .. InHand - 1 |-> buf[j]]
    BY <1>2, <1>3
  <2> QED
    BY <2>1, <2>2
<1>6. (Fifo - total_bytes - InHand)' = (Fifo - total_bytes - InHand) + n
  BY <1>1, <1>2, <1>3, PullAssumption
<1> QED
  BY <1>1, <1>2, <1>4, <1>5, <1>6 DEF Promised!PassAudio, Promised!PassOn

(* Filling up passes on a piece or what is missing, and does not go beyond. *)
LEMMA PadFills == ASSUME Inv, Counted, Pad PROVE Promised!Fill
<1> DEFINE k == MaxSize
<1>1. /\ pc = "pad" /\ pc' \in {"pad", "out"} /\ Requesting /\ Requesting'
      /\ UNCHANGED <<n, link, audio, buf>>
      /\ total_bytes' = total_bytes - k /\ body' = IF link THEN body + k ELSE body
  BY DEF Pad, Requesting, Body
<1>2. k \in 1 .. Chunk /\ k <= total_bytes /\ total_bytes \in 0 .. Fifo
  BY <1>1, MaxSizeFits DEF Inv, TypeOK, Counted
<1>3. InHand = 0 /\ InHand' = 0
  BY <1>1 DEF InHand
<1>4. UNCHANGED [j \in 0 .. InHand - 1 |-> buf[j]]
  BY <1>1, <1>3
<1>5. /\ (Fifo - total_bytes - InHand)' = (Fifo - total_bytes - InHand) + k
      /\ (Fifo - total_bytes - InHand) + k <= Fifo
  BY <1>1, <1>2, <1>3, PullAssumption
<1> HIDE DEF k
<1> QED
  BY <1>1, <1>2, <1>4, <1>5 DEF Promised!Fill, Promised!PassOn

(* The answer is asked for with less than a piece missing.                 *)
LEMMA GetResultCloses == ASSUME Inv, GetResult PROVE Promised!Close
<1>1. /\ pc = "out" /\ pc' = "return" /\ Requesting /\ ~Requesting'
      /\ total_bytes < Chunk /\ total_bytes \in 0 .. Fifo
  BY DEF GetResult, Requesting, Inv, TypeOK, BodyAccounted
<1>2. InHand = 0 /\ InHand' = 0
  BY <1>1 DEF InHand
<1>3. UNCHANGED [j \in 0 .. InHand - 1 |-> buf[j]]
  BY <1>2
<1>4. Fifo - (Fifo - total_bytes - InHand) < Chunk
  BY <1>1, <1>2, PullAssumption
<1> QED
  BY <1>1, <1>3, <1>4 DEF Promised!Close

(* Whatever times out, drops or breaks, to the recogniser a request is     *)
(* gapless audio and then filler, never more than was announced, and less  *)
(* than one piece short when the answer is asked for.                      *)
THEOREM ImplementsPromise == Spec => Promised!Promise
<1>1. Inv /\ Counted /\ [Next]_vars => [Promised!Next]_(Promised!vars)
  BY PromisedStutters, SendHeadOpens, LinkDropsBreaks, LoopImplements, FetchTakes, SendPasses,
     PadFills, GetResultCloses
     DEF Next, Task, Dump, Promised!Next, Promised!Goes
<1> QED
  BY <1>1, PromisedInit, CountedAlways, PTL DEF Spec, Promised!Promise
=============================================================================
