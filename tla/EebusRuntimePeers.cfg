SPECIFICATION Spec
CONSTANTS
  Endpoints = {e1, e2}
  Callers = {c1}
  Operations = {"establish", "disconnect", "remove"}
  Prompt = TRUE
  MaxThreads = 3
  MaxCrashes = 1
SYMMETRY MCSymmetry
INVARIANT TypeOK
INVARIANT OneRuntime
INVARIANT ClientsLive
INVARIANT PeersServed
INVARIANT NothingAfterTheLast
