SPECIFICATION FairSpec
CONSTANTS
  k1 = k1
  lpc = lpc
  NoWorker = NoWorker
  NoLimit = NoLimit
  Workers = {w1, w2}
  Keys = {k1}
  UseCases = {lpc}
  UseCaseOf <- MCOneKey
  Powers = {1, 2}
  Durations = {0, 1}
  LimitIds = {i1, i2}
  Devices = {d1}
  Participants = {d1}
  BaseLoad <- MCBaseLoad
  DefaultCap <- MCDefaultCap
  PolicyChoices <- MCFixedPolicy
  ConfiguredAssets = TRUE
  MaxClock = 1
  MaxCrashes = 1
PROPERTY DispatchHonoursLimits
 
INVARIANT DispatchInv
PROPERTY RequestsEnd
