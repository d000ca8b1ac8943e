SPECIFICATION McSpec
CONSTANTS
  None = None
  s1 = s1  s2 = s2  a1 = a1  m1 = m1  m2 = m2  c1 = c1
  Sessions = {s1}
  Agents = {a1}
  Prompts = {m1, m2}
  Aliens = {s2, None}
  Configs <- MCAllConfigs
  Readable = {TRUE, FALSE}
  ReadFails = {TRUE, FALSE}
  Deltas <- MCStrides
  I64Max = 1000
  PeriodLen = 3
  HoldTTL = 1
  Keep = 1
  Skew = 0
  Slack = 1
  CeilingFactor = 10
  CeilingFloor = 0
  ChargeKeys = {c1}
  EventOf <- MCEvents
  MaxTime = 6
  MaxRows = 2
  MaxMsgs = 2
  MaxLines = 3
INVARIANTS
  MessageMeasuredOnce
  OneLiveHoldPerLane
  ChargeBookedOnce
PROPERTIES
  TurnAccounting
SYMMETRY MCSymmetry
