---------------------------- MODULE MCSpiDevice ----------------------------
(* FIFOs of 5 entries.  A command of 1 or 3 bytes is not above the TX      *)
(* threshold, as the 8 bytes of the longest register command are not; one  *)
(* of 7 is longer than the FIFO, like a firmware piece.  A read of 3 bytes *)
(* fits in the FIFO like a register; one of 7 or 12 needs several          *)
(* interrupts like a piece of audio, and can lose bytes.                   *)
EXTENDS SpiDevice

MCFifoLen == 5
MCTxThreshold == 3
MCWriteLens == {1, 3, 7}
MCReadLens == {3, 7, 12}
=============================================================================
