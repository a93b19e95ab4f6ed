SPECIFICATION Spec
CONSTANTS
  d1 = d1
  n1 = n1
  n2 = n2
  user = user
  agent = agent
  Entities = {d1}
  Endpoints = {n1, n2}
  Owner <- MCOwner
  Roles = {"ev_charger"}
  Callers = {user, agent}
  OperationsOf <- MCUserAndAgent
  Alone = {"remove"}
  MaxProposals = 2
  MaxTasks = 3
SYMMETRY MCSymmetry
CHECK_DEADLOCK FALSE
INVARIANT TypeOK
INVARIANT ApprovedByUser
INVARIANT RemovalIsComplete
INVARIANT OneOpenTask
INVARIANT BlockersAreUnique
INVARIANT ReadyIsUnblocked
