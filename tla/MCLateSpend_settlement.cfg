SPECIFICATION LsSpec
CONSTANTS
  None = None
  s1 = s1  a1 = a1  t1 = t1  t2 = t2
  Sessions = {s1}
  Agents = {a1}
  Prompts = {t1, t2}
  Aliens = {}
  Configs <- MCOneConfig
  Readable = {TRUE, FALSE}
  ReadFails = {FALSE}
  Deltas <- MCForward
  I64Max = 1000
  PeriodLen = 1
  HoldTTL = 1
  Keep = 1
  Skew = 0
  Slack = 1
  CeilingFactor = 10
  CeilingFloor = 0
  ChargeKeys = {}
  EventOf <- MCNoCharges
  MaxTime = 2
  MaxRows = 4
  MaxMsgs = 0
  MaxLines = 0
  Faults = {"primary"}
  MaxUse = 2
  MaxWork = 2
INVARIANTS
  TrueUpIsExact
  LateSpendNotOverbooked
SYMMETRY MCSymmetry
CHECK_DEADLOCK FALSE
