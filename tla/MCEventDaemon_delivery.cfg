SPECIFICATION EdSpec
CONSTANTS
  Daemons = {p1, p2}
  Dispatchers = {p1, p2}
  NoDaemon = NoDaemon
  MaxFaults = 3
  Events = {e1}
  MaxAttempts = 3
  Ladder <- MCLadder
  BatchLimit = 1
INVARIANTS
  OneDaemon
  DeliveredWasReceived
PROPERTIES
  ReachableAgain
  EveryEventSettles
CHECK_DEADLOCK FALSE
