CONSTANTS
  RingLen <- MCRingLen
  HeadLen <- MCHeadLen
  MaxChunk <- MCMaxChunk
  MinFirst = 1
  FrameSizes <- MCFrameSizes
  Garbage <- MCGarbage
  MaxWritten <- MCMaxWritten
SPECIFICATION Spec
PROPERTIES
  HeaderComplete
CHECK_DEADLOCK FALSE
