SPECIFICATION Spec
CONSTANTS
  None = None
  s1 = s1  s2 = s2  a1 = a1  m1 = m1  m2 = m2  c1 = c1
  Sessions = {s1}
  Agents = {}
  Prompts = {}
  Aliens = {}
  Configs <- MCOneConfig
  Readable = {TRUE}
  ReadFails = {FALSE}
  Deltas <- MCForward
  I64Max = 1000
  PeriodLen = 2
  HoldTTL = 2
  Keep = 1
  Skew = 0
  Slack = 0
  CeilingFactor = 10
  CeilingFloor = 0
  ChargeKeys = {}
  EventOf <- MCNoCharges
  MaxTime = 6
  MaxRows = 2
  MaxMsgs = 1
  MaxLines = 1
INVARIANTS
  MessageCountedOnce
