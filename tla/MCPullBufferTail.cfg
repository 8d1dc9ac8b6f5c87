CONSTANTS
  Fifo <- MCFifo
  Chunk <- MCChunk
  SampleBytes <- MCSampleBytes
  PtrBytes <- MCPtrBytes
  Tries <- MCTries
  MaxRecorded <- MCMaxRecorded
SPECIFICATION Spec
INVARIANTS
  BodyComplete
CHECK_DEADLOCK FALSE
