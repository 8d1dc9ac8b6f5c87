---------------------------- MODULE MCPullBuffer ----------------------------
(* A body of 10 bytes in pieces of 4, so that two bytes are left for the   *)
(* second loop (256 of 160000 in the code); samples of 2 bytes; 16 bytes   *)
(* recorded, enough for one request and the start of another.              *)
EXTENDS PullBuffer

MCFifo == 10
MCChunk == 4
MCSampleBytes == 2
MCPtrBytes == 1
MCTries == 2
MCMaxRecorded == 16
=============================================================================
