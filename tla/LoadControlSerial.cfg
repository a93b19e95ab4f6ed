SPECIFICATION Spec
CONSTANTS
  k1 = k1
  lpc = lpc
  NoWorker = NoWorker
  NoLimit = NoLimit
  Workers = {w1}
  Keys = {k1}
  UseCases = {lpc}
  UseCaseOf <- MCOneKey
  Powers = {0, 1, 2}
  Durations = {0, 2}
  LimitIds = {i1, i2}
  Devices = {d1}
  Participants = {d1}
  BaseLoad <- MCBaseLoad
  DefaultCap <- MCDefaultCap
  PolicyChoices <- MCAnyPolicy
  ConfiguredAssets = TRUE
  MaxClock = 3
  MaxCrashes = 0
SYMMETRY MCSymmetry
INVARIANT TypeOK
INVARIANT LatestCommandWins
 
INVARIANT AcknowledgedMeansApplied
PROPERTY LedgerSpec
