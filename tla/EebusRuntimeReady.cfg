SPECIFICATION Spec
CONSTANTS
  Endpoints = {e1}
  Callers = {c1}
  Operations = {"establish", "disconnect"}
  Prompt = TRUE
  MaxThreads = 3
  MaxCrashes = 0
PROPERTY ReadyIsVerified
