SPECIFICATION FairSpec
CONSTANTS
  Invocation = {v1, v2}
  FRAMES = 2
  ByRendezvous = {v2}
  Supervisor = {"socket", "task"}
  MaxVersion = 1
  MaxUpsets = 1
INVARIANT RestartIsInvisible
PROPERTIES AnswersAreFresh EveryFrameEnds NewCodeReturns
CHECK_DEADLOCK FALSE
