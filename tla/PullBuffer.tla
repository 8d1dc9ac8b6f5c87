----------------------------- MODULE PullBuffer -----------------------------
(***************************************************************************)
(* One utterance from the D4 voice chip to the recogniser: pull_buffer and *)
(* dump_audio_data (UserCase_Common.c), with the three calls that make the *)
(* HTTP request (asrmain.c).  The request announces Content-Length Fifo;   *)
(* audio is fetched from the chip piece by piece and written to the body   *)
(* as it comes, and what the chip does not deliver is to be filled up.     *)
(*                                                                         *)
(* The chip records on its own; the SPI read of a piece or of a register   *)
(* can time out (a register then reads 0); the network can fail at any     *)
(* time, which the code never looks at.  Audio bytes are numbered in the   *)
(* order the chip keeps them (what its own buffer drops when HTTP is slow  *)
(* is not seen here); 0 is a zero byte.                                    *)
(***************************************************************************)
EXTENDS Integers

CONSTANTS
  Fifo,         (* Fifo_size = Content-Length (160000 bytes)               *)
  Chunk,        (* data_chunk_size * 16 = MAX_PULL_BUFF (2048 bytes)       *)
  SampleBytes,  (* bytes per count of NUMBER_OF_SAMPLES_IN_BUFFER (16)     *)
  PtrBytes,     (* sizeof(buf), buf a char pointer (4)                     *)
  Tries,        (* zero reads of a register before giving up (100)         *)
  MaxRecorded   (* bound: bytes the chip records in a behaviour            *)

ASSUME PullAssumption ==
  /\ Chunk \in Nat \ {0}
  /\ Fifo \in Nat /\ Fifo >= Chunk
  /\ SampleBytes \in Nat \ {0}
  /\ PtrBytes \in 1 .. Chunk
  /\ Tries \in Nat \ {0}
  /\ MaxRecorded \in Nat

(* 160000 and 2048 are multiples of 16.                                    *)
ASSUME SamplesAssumption == Fifo % SampleBytes = 0 /\ Chunk % SampleBytes = 0

VARIABLES
  pc,           (* where pull_buffer is; "idle" and "return" in dbmd_task  *)
  buf,          (* the heap buffer                                         *)
  total_bytes,  (* bytes of the body still to be sent                      *)
  n,            (* bytes_to_read, then read_len                            *)
  retries,
  streaming,    (* the chip is in BUFFERING mode                           *)
  recorded,     (* bytes the chip has recorded                             *)
  fetched,      (* bytes it has handed out or dropped                      *)
  link,         (* the connection of the request carries data              *)
  body,         (* bytes of the body written to it                         *)
  audio         (* the last audio byte passed to send_data_to_baidu        *)

chip == <<streaming, recorded, fetched>>
http == <<link, body, audio>>
vars == <<pc, buf, total_bytes, n, retries, chip, http>>

Init ==
  /\ pc = "idle"
  /\ buf = [i \in 0 .. Chunk - 1 |-> 0]
  /\ total_bytes = 0
  /\ n = 0
  /\ retries = 0
  /\ streaming = FALSE
  /\ recorded = 0
  /\ fetched = 0
  /\ link = FALSE
  /\ body = 0
  /\ audio = 0

-----------------------------------------------------------------------------
(* The chip and the network.                                               *)

(* A phrase is detected and the chip starts to buffer; what is left from   *)
(* before is dropped or not.                                               *)
Detect ==
  /\ pc = "idle" /\ ~streaming
  /\ streaming' = TRUE
  /\ fetched' \in {fetched, recorded}
  /\ UNCHANGED <<pc, buf, total_bytes, n, retries, recorded, http>>

Record ==
  /\ streaming
  /\ recorded + SampleBytes <= MaxRecorded
  /\ recorded' = recorded + SampleBytes
  /\ UNCHANGED <<pc, buf, total_bytes, n, retries, streaming, fetched, http>>

StopStreaming ==
  /\ streaming
  /\ streaming' = FALSE
  /\ UNCHANGED <<pc, buf, total_bytes, n, retries, recorded, fetched, http>>

LinkDrops ==
  /\ link
  /\ link' = FALSE
  /\ UNCHANGED <<pc, buf, total_bytes, n, retries, chip, body, audio>>

-----------------------------------------------------------------------------
(* pull_buffer.                                                            *)

(* malloc and memset; or no memory, and -1.                                *)
Enter ==
  /\ pc = "idle" /\ streaming
  /\ \/ /\ pc' = "mode"
        /\ buf' = [i \in 0 .. Chunk - 1 |-> 0]
        /\ retries' = 0
     \/ /\ pc' = "return"
        /\ UNCHANGED <<buf, retries>>
  /\ UNCHANGED <<total_bytes, n, chip, http>>

(* OPERATION_MODE is read until it is not 0.                               *)
ReadMode ==
  /\ pc = "mode"
  /\ \/ pc' = "head" /\ UNCHANGED retries
     \/ /\ retries' = retries + 1
        /\ pc' = IF retries' < Tries THEN "mode" ELSE "return"
  /\ UNCHANGED <<buf, total_bytes, n, chip, http>>

(* send_head_to_baidu: the connection is made, or not; nobody asks.        *)
SendHead ==
  /\ pc = "head"
  /\ link' \in BOOLEAN
  /\ body' = 0
  /\ audio' = fetched
  /\ total_bytes' = Fifo
  /\ pc' = "loop"
  /\ UNCHANGED <<buf, n, retries, chip>>

(* Mutant: the second loop asks for a whole piece like the first.          *)
MaxSizeFixed == Chunk

(* The first loop asks for Chunk bytes while so many are missing, the      *)
(* second for what is missing then.                                        *)
MaxSize == IF total_bytes >= Chunk THEN Chunk ELSE total_bytes

LoopTest ==
  /\ pc = "loop"
  /\ retries' = 0
  /\ pc' = IF total_bytes > 0 THEN "samples" ELSE "out"
  /\ UNCHANGED <<buf, total_bytes, n, chip, http>>

(* memset(buf, 0, sizeof(buf)), with contents for buf.                     *)
Cleared(contents) ==
  [i \in 0 .. Chunk - 1 |-> IF i < PtrBytes THEN 0 ELSE contents[i]]

(* Mutant: the first loop leaves without filling the body up.              *)
AudioEndsUnfilled(contents) == pc' = "out" /\ buf' = contents

(* dump_audio_data returned 0: the first loop goes on to fill the body up, *)
(* the second leaves.                                                      *)
AudioEnds(contents) ==
  IF total_bytes >= Chunk
    THEN pc' = "pad" /\ buf' = Cleared(contents)
    ELSE pc' = "out" /\ buf' = contents

(* Mutants of bytes_to_read: 32 bytes a sample, as in the disabled code at *)
(* lines 416-420; the count of samples taken for one of bytes.             *)
BytesToReadDoubled ==
  LET bytes == ((recorded - fetched) \div SampleBytes) * SampleBytes
  IN IF bytes > MaxSize THEN MaxSize ELSE 2 * bytes
BytesToReadUnrounded ==
  IF recorded - fetched > MaxSize THEN MaxSize ELSE recorded - fetched

(* The register NUMBER_OF_SAMPLES_IN_BUFFER; bytes_to_read.                *)
Remained == (recorded - fetched) \div SampleBytes

BytesToRead ==
  IF Remained * SampleBytes > MaxSize THEN MaxSize ELSE Remained * SampleBytes

(* The register says that there is audio, and the chip is told how much of *)
(* it will be read.                                                        *)
SamplesThere ==
  /\ pc = "samples"
  /\ streaming /\ Remained > 0
  /\ n' = BytesToRead
  /\ pc' = "fetch"
  /\ UNCHANGED <<buf, total_bytes, retries, chip, http>>

(* Mutant: the tries are counted afresh on each of them.                   *)
SamplesNoneForever ==
  /\ pc = "samples"
  /\ retries' = 1
  /\ IF retries' < Tries THEN UNCHANGED <<pc, buf>> ELSE AudioEnds(buf)
  /\ UNCHANGED <<total_bytes, n, chip, http>>

(* It reads 0: nothing there yet, or the read timed out.                   *)
SamplesNone ==
  /\ pc = "samples"
  /\ retries' = retries + 1
  /\ IF retries' < Tries THEN UNCHANGED <<pc, buf>> ELSE AudioEnds(buf)
  /\ UNCHANGED <<total_bytes, n, chip, http>>

(* It reads 0xffff.                                                        *)
NotStreaming ==
  /\ pc = "samples"
  /\ ~streaming
  /\ AudioEnds(buf)
  /\ UNCHANGED <<total_bytes, n, retries, chip, http>>

(* buf after the first k bytes the chip has waiting came in.               *)
Filled(k) ==
  [i \in 0 .. Chunk - 1 |-> IF i < k THEN fetched + 1 + i ELSE buf[i]]

Fetch ==
  /\ pc = "fetch"
  /\ buf' = Filled(n)
  /\ fetched' = fetched + n
  /\ total_bytes' = total_bytes - n
  /\ pc' = "send"
  /\ UNCHANGED <<n, retries, streaming, recorded, http>>

(* Mutant: a timed out read is tried again.                                *)
FetchTimesOutRetry ==
  /\ pc = "fetch"
  /\ \E k \in 0 .. n - 1 : fetched' = fetched + k /\ buf' = Filled(k)
  /\ pc' = "loop"
  /\ UNCHANGED <<total_bytes, n, retries, streaming, recorded, http>>

(* The SPI read times out after k bytes.                                   *)
FetchTimesOut ==
  /\ pc = "fetch"
  /\ \E k \in 0 .. n - 1 :
       /\ fetched' = fetched + k
       /\ AudioEnds(Filled(k))
  /\ UNCHANGED <<total_bytes, n, retries, streaming, recorded, http>>

(* send_data_to_baidu(buf, k)                                              *)
Body(k) == IF link THEN body + k ELSE body

Send ==
  /\ pc = "send"
  /\ body' = Body(n)
  /\ audio' = audio + n
  /\ pc' = "loop"
  /\ UNCHANGED <<buf, total_bytes, n, retries, chip, link>>

(* Mutant: what is less than a piece is left to the second loop.           *)
PadWholePieces ==
  /\ pc = "pad"
  /\ body' = Body(MaxSize)
  /\ total_bytes' = total_bytes - MaxSize
  /\ pc' = IF total_bytes' >= Chunk THEN "pad" ELSE "loop"
  /\ UNCHANGED <<buf, n, retries, chip, link, audio>>

Pad ==
  /\ pc = "pad"
  /\ body' = Body(MaxSize)
  /\ total_bytes' = total_bytes - MaxSize
  /\ pc' = IF total_bytes' > 0 THEN "pad" ELSE "out"
  /\ UNCHANGED <<buf, n, retries, chip, link, audio>>

(* get_result_baidu: the response, whatever it is, and the connection is   *)
(* closed; buf is freed.                                                   *)
GetResult ==
  /\ pc = "out"
  /\ link' = FALSE
  /\ pc' = "return"
  /\ UNCHANGED <<buf, total_bytes, n, retries, chip, body, audio>>

(* dbmd_task puts the chip back to DETECTION mode.                         *)
Rearm ==
  /\ pc = "return"
  /\ streaming' = FALSE
  /\ pc' = "idle"
  /\ UNCHANGED <<buf, total_bytes, n, retries, recorded, fetched, http>>

Dump == SamplesThere \/ SamplesNone \/ NotStreaming \/ Fetch \/ FetchTimesOut

Task ==
  Enter \/ ReadMode \/ SendHead \/ LoopTest \/ Dump \/ Send \/ Pad \/ GetResult \/ Rearm

Next == Detect \/ Record \/ StopStreaming \/ LinkDrops \/ Task

(* dbmd_task goes on: each SPI read and each HTTP call comes back.         *)
Spec == Init /\ [][Next]_vars /\ WF_vars(Task)

-----------------------------------------------------------------------------
(* Properties.                                                             *)

(* The types: never more than the announced length is missing or written, a *)
(* piece fits in buf, the retries stop, and the chip hands out what it has. *)
TypeOK ==
  /\ pc \in {"idle", "mode", "head", "loop", "samples", "fetch", "send", "pad", "out",
             "return"}
  /\ buf \in [0 .. Chunk - 1 -> Nat]
  /\ total_bytes \in 0 .. Fifo
  /\ n \in 0 .. Chunk
  /\ retries \in 0 .. Tries
  /\ streaming \in BOOLEAN
  /\ recorded \in Nat
  /\ fetched \in 0 .. recorded
  /\ link \in BOOLEAN
  /\ body \in 0 .. Fifo
  /\ audio \in Nat

Requesting == pc \in {"loop", "samples", "fetch", "send", "pad", "out"}

InHand == IF pc = "send" THEN n ELSE 0

(* While the connection lasts, the bytes written, the ones in hand and the *)
(* ones counted as missing make up the announced Content-Length; a request *)
(* ends with less than one piece missing.                                  *)
BodyAccounted ==
  /\ Requesting /\ link => body + InHand + total_bytes = Fifo
  /\ pc = "out" => total_bytes < Chunk

(* The audio in a body has no gap and no repetition: every piece that is   *)
(* sent goes on where the one before it ended, whatever timed out between. *)
AudioGapless == pc = "send" => \A j \in 0 .. n - 1 : buf[j] = audio + 1 + j

(* The chip is never asked for audio that it does not have: the count that *)
(* was read before may have grown, not shrunk, and the piece fits in buf   *)
(* and in what is missing.                                                 *)
ReadsOnlyRecorded ==
  pc = "fetch" => /\ 0 < n /\ n <= recorded - fetched
                  /\ n <= Chunk /\ n <= total_bytes

(* The division by 16 in the chip's READ_AUDIO_BUFFER command is exact:    *)
(* the SPI read expects as many bytes as the chip was told to deliver.     *)
WholeSamples == pc = "fetch" => n % SampleBytes = 0

(* What the two loops, their retries and their one buffer amount to: to     *)
(* the recogniser a request is gapless audio and then only filler, and it  *)
(* is brought to its end.                                                  *)
Promised ==
  INSTANCE Utterance WITH
    Announced <- Fifo, Piece <- Chunk,
    open <- Requesting,
    intact <- Requesting /\ link,
    heard <- IF Requesting THEN audio ELSE 0,
    hand <- [j \in 0 .. InHand - 1 |-> buf[j]],
    filling <- pc \in {"pad", "out"},
    given <- IF Requesting THEN Fifo - total_bytes - InHand ELSE 0,
    body <- IF Requesting THEN body ELSE 0
ImplementsUtterance == Promised!Spec

(* pull_buffer comes back, even if the chip and the network fall silent.   *)
PullReturns == pc # "idle" ~> pc = "idle"

(* A request that gets its answer was sent whole.                          *)
BodyComplete == pc = "out" /\ link => body = Fifo

(* What fills a body up is zeros.                                          *)
PaddingIsZero == pc = "pad" => \A j \in 0 .. MaxSize - 1 : buf[j] = 0
=============================================================================
