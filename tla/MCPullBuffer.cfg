CONSTANTS
  Fifo <- MCFifo
  Chunk <- MCChunk
  SampleBytes <- MCSampleBytes
  PtrBytes <- MCPtrBytes
  Tries <- MCTries
  MaxRecorded <- MCMaxRecorded
SPECIFICATION Spec
INVARIANTS
  TypeOK
  BodyAccounted
  AudioGapless
  ReadsOnlyRecorded
  WholeSamples
PROPERTIES
  ImplementsUtterance
  PullReturns
CHECK_DEADLOCK FALSE
