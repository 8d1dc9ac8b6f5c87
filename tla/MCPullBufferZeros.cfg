CONSTANTS
  Fifo <- MCFifo
  Chunk <- MCChunk
  SampleBytes <- MCSampleBytes
  PtrBytes <- MCPtrBytes
  Tries <- MCTries
  MaxRecorded <- MCMaxRecorded
SPECIFICATION Spec
INVARIANTS
  PaddingIsZero
CHECK_DEADLOCK FALSE
