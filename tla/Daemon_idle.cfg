SPECIFICATION Spec
CONSTANTS
  Invocation = {v1, v2}
  FRAMES = 2
  ByRendezvous = {}
  Supervisor = {"task"}
  MaxVersion = 0
  MaxUpsets = 0
INVARIANT PromptFindsDaemon
CHECK_DEADLOCK FALSE
