SPECIFICATION FairSpec
CONSTANTS
  h = h
  m = m
  d1 = d1
  Endpoints = {h, m}
  Devices = {d1}
  Owner <- MCOwner
  Protocol <- MCProtocol
  Pollers = {"modbus"}
  Callers = {c1}
  Operations = {"establish", "disconnect", "options", "remove"}
  Answers <- MCAnswers
  Scans = {{h, m}}
  Samples = {FALSE}
  MaxDisruptions = 1
INVARIANT TypeOK
 
 
PROPERTY ConnectedIsShown
PROPERTY SilenceIsNoticed
