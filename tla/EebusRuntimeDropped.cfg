SPECIFICATION FairSpec
CONSTANTS
  Endpoints = {e1, e2}
  Callers = {c1}
  Operations = {"establish", "disconnect"}
  Prompt = TRUE
  MaxThreads = 3
  MaxCrashes = 0
PROPERTY DroppedIsLetGo
