CONSTANTS
  MaxAnswers <- MCMaxAnswers
  MaxChunks <- MCMaxChunks
  MaxFrames <- MCMaxFrames
SPECIFICATION Spec
INVARIANTS
  TypeOK
  PiecePointerAlive
  FramePointerAlive
  NothingLost
  TornTextTakenAgain
  QuietMeansTaken
PROPERTIES
  PiecesHeardInOrder
  ImplementsHandOver
  LatestAnswerTaken
CHECK_DEADLOCK FALSE
