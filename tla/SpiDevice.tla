----------------------------- MODULE SpiDevice -----------------------------
(***************************************************************************)
(* The bytes between dbmd_task and the D4 voice chip: device_write_spi and *)
(* device_read_spi (Dbmd_rtl_Device.c) over the interrupt driven streams   *)
(* of the SPI master (spi_api.c).  The task starts a transfer and polls a  *)
(* flag; ssi_interrupt moves bytes between memory and the two FIFOs; the   *)
(* bus shifts a byte out and a byte in, whether anybody wants it or not.   *)
(*                                                                         *)
(* An interrupt may wait as long as it likes while the bus goes on, but no *)
(* task runs while it waits.                                               *)
(*                                                                         *)
(* A byte shifted in is the number of the dummy byte it came for, 1, 2,    *)
(* ..., which makes it a byte of the chip's reply, or Junk: what the chip  *)
(* sends while it is given a command, and what an earlier call left.       *)
(***************************************************************************)
EXTENDS Integers, Sequences

CONSTANTS
  FifoLen,      (* entries of either FIFO (64)                             *)
  TxThreshold,  (* the TX interrupt comes with so many entries or fewer    *)
  WriteLens,    (* lengths of the writes (2, 4 and 8, and firmware pieces) *)
  ReadLens      (* lengths of the reads (5, 7, and 16 .. 2048)             *)

ASSUME SpiAssumption ==
  /\ FifoLen \in Nat \ {0}
  /\ TxThreshold \in 0 .. FifoLen - 1
  /\ WriteLens \subseteq Nat \ {0}
  /\ ReadLens \subseteq Nat \ {0}

Junk == 0
Nothing == -1

VARIABLES
  pc,           (* where the task is, "idle" outside of the two functions  *)
  len,          (* what it was asked to transfer                           *)
  wrote,        (* the last call was a write: a read follows its command   *)
  TrDone, masterRxDone,
  tx_busy, rx_busy,           (* the bits of spi_obj->state                *)
  TxLength, TxOwn, TxNext,    (* bytes to push; TxData: in the buffer of   *)
                              (* this call or elsewhere, and which byte    *)
  RxLength, RxOwn,            (* bytes to store, and whether RxData is in  *)
                              (* the buffer of this call                   *)
  tx_imr, rx_imr,             (* TXEIM and RXFIM                           *)
  isr,                        (* ssi_interrupt is at its TX part           *)
  tx_fifo, rx_fifo, shift,    (* the FIFOs, and the byte being shifted     *)
  buf,                        (* what was stored for this read             *)
  gave,                       (* bytes of this write given to the FIFO     *)
  astray                      (* a byte was stored outside of any call     *)

call == <<pc, len, wrote>>
flags == <<TrDone, masterRxDone, tx_busy, rx_busy>>
txSide == <<TxLength, TxOwn, TxNext, tx_imr, gave>>
rxSide == <<RxLength, RxOwn, rx_imr, buf, astray>>
bus == <<tx_fifo, rx_fifo, shift>>
vars == <<call, flags, txSide, rxSide, isr, bus>>

Init ==
  /\ pc = "idle" /\ len = 0 /\ wrote = FALSE
  /\ TrDone = 0 /\ masterRxDone = 0
  /\ tx_busy = FALSE /\ rx_busy = FALSE
  /\ TxLength = 0 /\ TxOwn = FALSE /\ TxNext = 1 /\ tx_imr = FALSE /\ gave = 0
  /\ RxLength = 0 /\ RxOwn = FALSE /\ rx_imr = FALSE /\ buf = <<>> /\ astray = FALSE
  /\ isr = FALSE
  /\ tx_fifo = <<>> /\ rx_fifo = <<>> /\ shift = Nothing

-----------------------------------------------------------------------------
(* The bus.                                                                *)

SSI_Busy == tx_fifo # <<>> \/ shift # Nothing

LoadShift ==
  /\ shift = Nothing /\ tx_fifo # <<>>
  /\ shift' = Head(tx_fifo)
  /\ tx_fifo' = Tail(tx_fifo)
  /\ UNCHANGED <<call, flags, txSide, rxSide, isr, rx_fifo>>

(* A byte comes in for the one that went out; it is lost if the FIFO is    *)
(* full.                                                                   *)
ShiftDone ==
  /\ shift # Nothing
  /\ shift' = Nothing
  /\ rx_fifo' = IF Len(rx_fifo) < FifoLen THEN Append(rx_fifo, shift) ELSE rx_fifo
  /\ UNCHANGED <<call, flags, txSide, rxSide, isr, tx_fifo>>

Bus == LoadShift \/ ShiftDone

-----------------------------------------------------------------------------
(* ssi_interrupt.                                                          *)

RxPending == rx_imr /\ rx_fifo # <<>>

(* Mutant: a threshold below the length of the commands.                   *)
TxPendingBelow == tx_imr /\ Len(tx_fifo) < TxThreshold

TxPending == tx_imr /\ Len(tx_fifo) <= TxThreshold

Smaller(a, b) == IF a < b THEN a ELSE b

(* The status is read once; the RX part takes what is there and wanted.    *)
(* With nothing left to store RXFIM goes off and the read is reported.     *)
IsrReceive ==
  /\ ~isr /\ (RxPending \/ TxPending)
  /\ isr' = TxPending
  /\ IF RxPending
       THEN LET k == Smaller(Len(rx_fifo), RxLength) IN
            /\ buf' = IF RxOwn THEN buf \o SubSeq(rx_fifo, 1, k) ELSE buf
            /\ astray' = (astray \/ ~RxOwn)
            /\ rx_fifo' = SubSeq(rx_fifo, k + 1, Len(rx_fifo))
            /\ RxLength' = RxLength - k
            /\ rx_imr' = (RxLength' > 0)
            /\ rx_busy' = (RxLength' > 0)
            /\ masterRxDone' = IF RxLength' = 0 THEN 1 ELSE masterRxDone
       ELSE UNCHANGED <<buf, astray, rx_fifo, RxLength, rx_imr, rx_busy, masterRxDone>>
  /\ UNCHANGED <<call, TrDone, tx_busy, txSide, RxOwn, tx_fifo, shift>>

(* The k bytes pushed: command bytes have no reply; a dummy byte has one.  *)
Pushed(k) == [i \in 1 .. k |-> IF pc = "reading" THEN TxNext + i - 1 ELSE Junk]

(* The TX part, with bytes left to push.  TxData has moved when it is      *)
(* compared with NULL, so the callback is called for dummy bytes as well;  *)
(* what keeps it from reporting a write is SPI_STATE_TX_BUSY.              *)
IsrSend ==
  /\ isr /\ TxLength > 0
  /\ LET k == Smaller(TxLength, FifoLen - Len(tx_fifo)) IN
       /\ tx_fifo' = tx_fifo \o Pushed(k)
       /\ gave' = IF TxOwn /\ pc = "writing" THEN gave + k ELSE gave
       /\ TxNext' = TxNext + k
       /\ TxLength' = TxLength - k
  /\ tx_busy' = (tx_busy /\ TxLength' > 0)
  /\ TrDone' = IF tx_busy /\ TxLength' = 0 THEN 1 ELSE TrDone
  /\ isr' = FALSE
  /\ UNCHANGED <<call, masterRxDone, rx_busy, TxOwn, tx_imr, rxSide, rx_fifo, shift>>

(* Mutants: the handler does not wait for the bus; TXEIM stays on.         *)
IsrIdleAtOnce ==
  /\ isr /\ TxLength = 0
  /\ tx_imr' = FALSE
  /\ isr' = FALSE
  /\ UNCHANGED <<call, flags, TxLength, TxOwn, TxNext, gave, rxSide, bus>>
IsrIdleStaysOn ==
  /\ isr /\ TxLength = 0 /\ ~SSI_Busy
  /\ isr' = FALSE
  /\ UNCHANGED <<call, flags, txSide, rxSide, bus>>

(* With none left TXEIM goes off, and the handler itself waits until the   *)
(* bus is idle (its 1000000 turns are longer than the FIFO takes).         *)
IsrIdle ==
  /\ isr /\ TxLength = 0 /\ ~SSI_Busy
  /\ tx_imr' = FALSE
  /\ isr' = FALSE
  /\ UNCHANGED <<call, flags, TxLength, TxOwn, TxNext, gave, rxSide, bus>>

Isr == IsrReceive \/ IsrSend \/ IsrIdle

-----------------------------------------------------------------------------
(* The task.                                                               *)

TaskRuns == ~isr /\ ~RxPending /\ ~TxPending

(* What FIFOs and pointers still hold belongs to an earlier call now.      *)
Leftover ==
  /\ rx_fifo' = [i \in DOMAIN rx_fifo |-> Junk]
  /\ buf' = <<>>
  /\ RxOwn' = FALSE

(* device_write_spi, up to ssi_int_write's first assignment.               *)
CallWrite ==
  /\ pc = "idle" /\ TaskRuns
  /\ len' \in WriteLens
  /\ wrote' = TRUE
  /\ TrDone' = 0
  /\ gave' = 0 /\ TxOwn' = FALSE
  /\ IF tx_busy
       THEN pc' = "writing" /\ UNCHANGED <<tx_busy, TxLength>>
       ELSE pc' = "set_data" /\ tx_busy' = TRUE /\ TxLength' = len'
  /\ Leftover
  /\ UNCHANGED <<masterRxDone, rx_busy, TxNext, tx_imr, RxLength, rx_imr, astray, isr,
                 tx_fifo, shift>>

(* The second assignment, and the interrupt is enabled.                    *)
SetTxData(from, to) ==
  /\ pc = from /\ TaskRuns
  /\ pc' = to
  /\ TxOwn' = TRUE /\ TxNext' = 1
  /\ tx_imr' = TRUE
  /\ UNCHANGED <<len, wrote, flags, TxLength, gave, rxSide, isr, bus>>

WriteReturns ==
  /\ pc = "writing" /\ TaskRuns
  /\ TrDone = 1
  /\ pc' = "idle"
  /\ UNCHANGED <<len, wrote, flags, txSide, rxSide, isr, bus>>

(* device_read_spi.  Every read of the program follows a command.          *)
CallRead ==
  /\ pc = "idle" /\ wrote /\ TaskRuns
  /\ len' \in ReadLens
  /\ wrote' = FALSE
  /\ masterRxDone' = 0
  /\ pc' = "flush"
  /\ Leftover
  /\ UNCHANGED <<TrDone, tx_busy, rx_busy, txSide, RxLength, rx_imr, astray, isr, tx_fifo,
                 shift>>

Flush ==
  /\ pc = "flush" /\ TaskRuns
  /\ pc' = "start"
  /\ rx_fifo' = <<>>
  /\ UNCHANGED <<len, wrote, flags, txSide, rxSide, isr, tx_fifo, shift>>

(* spi_master_read_stream, with RX_BUSY set: HAL_BUSY, which nobody sees.  *)
ReadRefused ==
  /\ pc = "start" /\ TaskRuns
  /\ rx_busy
  /\ pc' = "reading"
  /\ UNCHANGED <<len, wrote, flags, txSide, rxSide, isr, bus>>

ReadStarts ==
  /\ pc = "start" /\ TaskRuns
  /\ ~rx_busy /\ ~SSI_Busy
  /\ rx_busy' = TRUE
  /\ RxLength' = len /\ RxOwn' = TRUE /\ rx_imr' = TRUE
  /\ TxLength' = len
  /\ pc' = "set_dummy"
  /\ UNCHANGED <<len, wrote, TrDone, masterRxDone, tx_busy, TxOwn, TxNext, tx_imr, gave, buf,
                 astray, isr, bus>>

ReadReturns ==
  /\ pc = "reading" /\ TaskRuns
  /\ masterRxDone = 1
  /\ pc' = "idle"
  /\ UNCHANGED <<len, wrote, flags, txSide, rxSide, isr, bus>>

(* Mutants: too few turns; the RX interrupt is masked when time runs out.  *)
ReadTimesOutEarly ==
  /\ pc = "reading" /\ TaskRuns
  /\ masterRxDone = 0
  /\ pc' = "idle"
  /\ UNCHANGED <<len, wrote, flags, txSide, rxSide, isr, bus>>
ReadTimesOutMasked ==
  /\ pc = "reading" /\ TaskRuns
  /\ masterRxDone = 0 /\ ~SSI_Busy
  /\ pc' = "idle"
  /\ rx_imr' = FALSE
  /\ UNCHANGED <<len, wrote, flags, txSide, RxLength, RxOwn, buf, astray, isr, bus>>

(* 1000 turns of 5 ms.  A transfer of 2048 bytes takes about 6 ms, so the  *)
(* time runs out only when nothing more is going to come.                  *)
ReadTimesOut ==
  /\ pc = "reading" /\ TaskRuns
  /\ masterRxDone = 0 /\ ~SSI_Busy
  /\ pc' = "idle"
  /\ UNCHANGED <<len, wrote, flags, txSide, rxSide, isr, bus>>

Poll ==
  \/ SetTxData("set_data", "writing") \/ WriteReturns
  \/ Flush \/ ReadRefused \/ ReadStarts \/ SetTxData("set_dummy", "reading")
  \/ ReadReturns \/ ReadTimesOut

Next == Bus \/ Isr \/ CallWrite \/ CallRead \/ Poll

(* The bus shifts, a pending interrupt is taken, the task polls.           *)
Spec == Init /\ [][Next]_vars /\ WF_vars(Bus) /\ WF_vars(Isr) /\ WF_vars(Poll)

(* Nothing in the code waits for the end of a firmware piece, which is     *)
(* longer than the TX threshold: TrDone is 1 while bytes of it are in the  *)
(* FIFO.  They take 0.2 ms at the 3 MHz of dbmd_init.c, the task looks     *)
(* every 5 ms, and before the next piece it reads 4096 bytes from flash.   *)
PieceLeft == pc = "idle" /\ pc' # "idle" /\ wrote /\ len > TxThreshold => ~tx_imr

PacedSpec ==
  /\ Init /\ [][Next /\ PieceLeft]_vars
  /\ WF_vars(Bus) /\ WF_vars(Isr) /\ WF_vars(Poll)

-----------------------------------------------------------------------------
(* Properties, of PacedSpec: the call after a firmware piece comes when    *)
(* the piece has left the bus.                                             *)

(* The types; what is counted is within the length of some call, a FIFO   *)
(* never holds more than it can, and the RX interrupt is on exactly while   *)
(* the driver calls itself busy receiving, across timeouts as well.        *)
TypeOK ==
  /\ pc \in {"idle", "set_data", "writing", "flush", "start", "set_dummy", "reading"}
  /\ len \in {0} \union WriteLens \union ReadLens
  /\ {TrDone, masterRxDone} \subseteq {0, 1}
  /\ {wrote, tx_busy, rx_busy, TxOwn, RxOwn, tx_imr, rx_imr, isr, astray} \subseteq BOOLEAN
  /\ \E m \in {0} \union WriteLens \union ReadLens : TxLength <= m /\ gave <= m
  /\ \E m \in {0} \union ReadLens : RxLength <= m /\ Len(buf) <= m
  /\ {TxLength, RxLength, gave} \subseteq Nat /\ TxNext \in Nat \ {0}
  /\ Len(tx_fifo) <= FifoLen /\ Len(rx_fifo) <= FifoLen
  /\ shift \in Nat \union {Nothing}
  /\ rx_busy = rx_imr

Reply(n) == [i \in 1 .. n |-> i]

(* A read that is reported done has the chip's reply to its command, whole *)
(* and from the start: no byte from the time of the command, none of an    *)
(* earlier read that was given up, none missing.                           *)
SuccessIsReply == pc = "reading" /\ masterRxDone = 1 => buf = Reply(len)

(* A read that fits in the FIFO is whole, or nothing of it is stored: a    *)
(* register that could not be read reads 0, never some of its digits.      *)
ShortReadsWhole ==
  [][pc = "reading" /\ pc' = "idle" /\ len <= FifoLen => buf \in {<<>>, Reply(len)}]_vars

(* A write that is reported done gave the chip the bytes of its own buffer, *)
(* all of them.                                                            *)
SentIsGiven == pc = "writing" /\ TrDone = 1 => gave = len

(* Every call returns, although a write has no time limit.                 *)
CallReturns == pc # "idle" ~> pc = "idle"

(* A read that was given up does not block the driver for good: as long as *)
(* the program goes on writing commands, reads start again.                *)
RxRecovers == []<><<CallWrite>>_vars => (rx_busy ~> ~rx_busy)

(* What comes in is stored only for a read that waits for it.              *)
NothingAstray == ~astray
=============================================================================
