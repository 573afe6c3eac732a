SPECIFICATION WorkbenchFairSpec
CONSTANTS
  Runs = {1, 2}
  NoRun = 0
  MaxChunks = 1
  MaxLists = 2
  MaxTrouble = 1
INVARIANT AnswersShown
PROPERTIES AnswerIsStored KeepsTranscript
CHECK_DEADLOCK FALSE
