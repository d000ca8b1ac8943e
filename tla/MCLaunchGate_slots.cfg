SPECIFICATION LgFairSpec
CONSTANTS
  None = None  a = a  b = b
  Launchers = {a, b}
  Retriers = {a}
  Bounded = {b}
  Caps = {1, 2}
  HoldTTL = 3
  RenewEvery = 1
  Lag = 1
  Faults = TRUE
INVARIANTS
  EnforcedWithinCapacity
PROPERTIES
  WaiterIsServed
CHECK_DEADLOCK FALSE
