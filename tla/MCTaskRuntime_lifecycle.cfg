SPECIFICATION McSpec
CONSTANTS
  Tasks = {t1}
  MaxPlans = 3
  Plans = {1, 2, 3}
  Keys = {1, 2, 3}
  Policies = {}
  Amounts = {1}
  Reserves = {}
  TTLs = {1}
  None = None
  NoBound = NoBound
  MaxRows = 3
  MaxTime = 1
  Configs <- MCConfigs
  Estimates = {4}
  Criteria = {1}
  Durations = {1, 2}
  Deadlines = {NoBound, 1}
  Tools = {a}
  Typical = {0}
  LoopStreak = 2
  CallFallback = 0
  MaxReplans = 1
  Cooldown = 1
  MaxCalls = 2
  MaxFaults = 1
  Lanes = {"lane"}
  Turns = {"t1", "t2", "t3", "t4"}
  Contexts = {1, 2}
  Calls = {"c1", "c2"}
  NoRow = NoRow
  MaxTurnPlans = 6
INVARIANTS
  BoundedByFaults
  RefusedNeverHolds
  FinishedHoldsNothing
  NoUsageDropped
  RequestsCountOnce
  LaneNeverWedged
PROPERTIES
  AdmittedIsReserved
CHECK_DEADLOCK FALSE
