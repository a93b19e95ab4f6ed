SPECIFICATION Spec
CONSTANTS
  Installations <- MCAll
  Levels <- MCLevels
  Steps = 4
  ReservePct = 20
  SocPerUnit = 1
  Measured = {8}
  Charges = {30}
  Daylights = {0, 4}
  MinimumOns = {1, 3}
  MaxReplans = 3
  MaxChanges = 2
CHECK_DEADLOCK FALSE
INVARIANT TypeOK
 
INVARIANT PlanFits
INVARIANT MinimumOn
 
PROPERTY TurnsThroughIdle
PROPERTY GuardedWrites
