CONSTANTS
  Cap = 4
  PollLimit = 2
  Keys = {"alt", "caps"}
  MaxTyped = 2
  MayFail = TRUE
SPECIFICATION FairSpec
INVARIANTS HandlerThere InOrder KeysHeard
PROPERTIES BytesTaken
CHECK_DEADLOCK FALSE
