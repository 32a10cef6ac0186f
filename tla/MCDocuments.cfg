SPECIFICATION Spec
CONSTANTS
  NoState = NoState
  MaxChars = 4
  Letters = {"x"}
  MaxPages = 1
  MaxRows = 3
  MaxText = 7
  MaxRedline = 5
  MaxFilePages = 2
INVARIANTS
  DiagramAgreesWithVerified
  ChunksCoverText
  DownloadIsShown
  ChunksIndependent
  UploadsReadAlike
CHECK_DEADLOCK FALSE
