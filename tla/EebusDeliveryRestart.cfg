SPECIFICATION FairSpec
CONSTANTS
  p1 = p1
  n1 = n1
  k1 = k1
  t1 = t1
  t2 = t2
  Peers = {p1}
  Native = {}
  Keys = {k1}
  MaxLimits = 2
  Tasks = {t1, t2}
  Directions = {"inbound_from_peer", "outbound_to_peer"}
  Sources = {"peer", "rest"}
  MaxCounter = 1
  MaxSessions = 1
  MaxStops = 1
INVARIANT TypeOK
INVARIANT NothingForgotten
 
PROPERTY PendingIsAttempted
