SPECIFICATION GwSpec
CONSTANTS
  None = None  t1 = t1  plan1 = plan1
  Tasks = {t1}
  Plans = {plan1}
  Keys = {1, 2}
  Policies <- MCPolicies
  Amounts = {}
  Reserves = {}
  TTLs = {1}
  MaxRows = 2
  MaxTime = 1
  Task = t1
  Budget0 <- MCBudget
  Worst = 2
  Costs = {1, 2}
  Cap = 3
  TTL = 1
  GovernorHeld = TRUE
  Files = {"gateway", "absent", "invalid"}
  Permits = 1
  Cooldown = 1
  Lossy = {FALSE}
  LedgerFails = {TRUE, FALSE}
  I64Max = 100
  MaxBoots = 2
INVARIANTS
  SpendWithinCap
  BilledStaysCounted
  EnforcedGoesUnderHold
  ServedIsBooked
CHECK_DEADLOCK FALSE
